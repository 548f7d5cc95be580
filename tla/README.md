# A TLA+ development of the camunda-operator

The operator runs Camunda 8 clusters on Kubernetes. Its controllers are state
machines over status fields: each reconcile reads the objects live or from a
cache, does at most one side effect, and writes a status. What is hard in it
is what no unit test reaches: two controllers that meet on one cluster or one
database, a crash between a side effect and the write that records it, an
answer that never came, a deletion in the middle of a pass. This directory
holds specifications of these parts, the TLC runs that check them on small
instances, and proofs for every size.

All paths below are relative to the root of the repository.

## Inventory

State is named as the code names it. The column "Module" is empty where
nothing is modelled.

| Part | State it keeps | Operations | Module |
|---|---|---|---|
| Cluster claim, `pkg/clusterclaim` | one Lease per CamundaCluster with the holder in annotations | Claim (create, read holder, judge, take over), Release, Holds, HolderKeepsClusterPaused | `ClusterClaim` |
| Elasticsearch backup, `internal/controller/logicalbackupelasticsearch` | phase, step, backup ID, requested and accepted times, recorded snapshot names, unreachable clock, resume attempts, pinned cluster UID and workload hash | admit, start, five steps, resume, give up, finalize | `EsBackup` |
| Status writes, `internal/ownerstatus` | none | Flush, Settle, Record | in `EsBackup`, `RdbmsBackup`, `EsRestore`, `PitRestore` |
| RDBMS backup, `internal/controller/logicalbackuprdbms` | dump Job name, Zeebe backup ID that the cluster generates, pins | dump, then Zeebe backup, adopt a Job, finalize with a cleanup Job | `RdbmsBackup` |
| Restore procedure, `pkg/restore` | hold on the suspension of the cluster, broker Jobs, writer registration, claim | prepare, secondary storage, primary storage, resume, collect, finalize | `EsRestore` |
| Elasticsearch restore, `internal/controller/logicalrestoreelasticsearch` | phase, recorded repository, recovery held | the procedure, the snapshot restore, the recovery hold | `EsRestore` |
| RDBMS restore, `internal/controller/logicalrestorerdbms` | phase, the pg_restore Job | the procedure, the Job on the database | its writes in `StorageWriter` |
| Point in time restore, `internal/controller/pointintimerestore` | pin of the contract, recovery request, broker Jobs | request the rollback, follow the database, restore brokers, finalize | `PitRestore` |
| Database server, `internal/controller/databaseserver` | current and superseded PostgreSQL clusters, recovery record, archives | recover into a new cluster, cut over, complete, remove the old one | `ServerRecovery` |
| Backup schedule, `internal/controller/backupschedule` | last scheduled trigger, the backups it created | trigger, skip, prune | `BackupSchedule` |
| Backend claim, `pkg/leaseclaim` | one Lease per thing that is claimed: owner | take, create, take over, release | `LeaseClaim` |
| Database, `internal/controller/database` | collision key, bindings | claim its logical database, bootstrap, publish, finalize | `LeaseClaim` |
| Storage writers, `pkg/storagewriter`, `camundacluster/secondarystorage.go` | registrations and Leases of who writes a secondary storage | claim, wait at zero, render, release left backends | `StorageWriter` |
| Camunda cluster, `internal/controller/camundacluster` | binding, workload, admin credential | render, bind, rotate, suspend | its storage in `StorageWriter`, its effects in the backups and restores |
| Workload suspension, `pkg/workloadsuspend` | replicas and the remembered size | keep at zero, stop at zero | its effect only |
| Admin credential rotation | pending and current password | stage, change, commit | |
| Management cluster, Optimize, Elasticsearch cluster | attachments, realm claim, finalizers | attach, follow a suspension, bootstrap | |
| Fleet claims, `internal/controller/fleet`, `pkg/claimpolicy` | one created cluster per claim | resolve the policy, create, delete in order | |
| Contract controllers, plugins, clients, helpers, command line | conditions | validate, render, call | |

How they interact. Backups and restores of every kind meet on the claim Lease
of their cluster. A backup or a restore calls the management API of the
cluster (pause, resume, back up) and Elasticsearch, and reads the cluster's
status for the binding, the UID and the workload hash. A restore also sets
`spec.suspend` of the cluster and waits for its Pods. Clusters meet each other
on the backend Leases and on the writer registrations of a secondary storage,
and restores meet them there too. The schedule creates and prunes backups. A
point in time restore asks a database server for a recovery through the
contract that the server publishes. A controller never runs two passes of one
object at once; the passes of different objects overlap unless the controller
has one worker.

What makes each part correct:

- Claim: no two operations use a cluster; the Lease covers the use; nothing
  is taken from a holder that is or becomes active; foreign Leases are left
  alone; no crash blocks the cluster forever.
- Elasticsearch backup: exporting stays paused while parts are taken and is
  never left paused with nothing to resume it; a Completed backup is a set of
  three own parts of one configuration; a deletion deletes all of it, and ends.
- RDBMS backup: dump and Zeebe backup are of one cluster and one
  configuration, a foreign Job is not adopted, nothing survives a deletion.
- Restores: the cluster never starts on a storage that is half written, no
  second operation starts while the restore still writes, and every hold is
  withdrawn.
- Point in time restore and database server: the data is never lost, the old
  cluster goes only after the new one is complete, nobody else writes the
  database while it moves, the answer is the answer to the request.
- Schedule: one backup at a time across crashes; retention prunes the oldest.
- Backend claim and writers: one writer at a time, also through a handover.
- Rotation: the cluster and the Secret never disagree for good.

`PROJECT.json` lists the hazards with their lines, and the property aimed at
each.

## Modules

| Module | What it is |
|---|---|
| `ExclusiveUse` | Abstract: the operations that use one cluster, one at a time |
| `ClusterClaim` | The Lease protocol of a cluster, request by request |
| `EsBackup` | The Elasticsearch backup from submission to removal |
| `OneOwner` | Abstract: who works on each claimed key, one at a time |
| `LeaseClaim` | The Lease protocol of backends, with the Database as its user |
| `EsRestore` | Several Elasticsearch restores of one cluster |
| `StorageWriter` | Clusters, restores and their Jobs that write secondary storages |
| `RdbmsBackup` | The RDBMS backup, its two Jobs and the Zeebe backup |
| `BackupSchedule` | A schedule, the backups it creates and prunes |
| `ServerRecovery` | The rollback of a database server |
| `PitRestore` | The point in time restore and the rollback it asks for |
| `<Module>Proofs` | Theorems about that module, for every value of its constants: `ClusterClaim`, `EsBackup`, `EsRestore`, `LeaseClaim`, `StorageWriter`, `RdbmsBackup`, `BackupSchedule` |
| `RollbackProofs` | Theorems about `PitRestore` and `ServerRecovery`, the two sides of a rollback |
| `MC<Module>` | Model values for TLC |

The modules were written bottom up: what the others rely on (the claim) first,
then each user of it. The composition is by refinement and by abstraction:
`ClusterClaim`, `EsBackup` and `EsRestore` each implement `ExclusiveUse`, so a
user of the claim may treat it as one atomic variable; `LeaseClaim` implements
`OneOwner`, so `StorageWriter` may treat a backend Lease as one.
`StorageWriter` composes clusters, restores and their Jobs on one backend, and
`PitRestore` composes the restore, its cluster, another cluster, the contract
and the server.

Operators that no action uses are the faults of `PROJECT.json`: each stands
next to the operation it spoils, and every property of a run is violated by
one of them.

### ExclusiveUse

One variable, `users`. An operation begins only while nobody uses the
cluster, and the cluster is free between two operations. This is the promise
of the package comment of `pkg/clusterclaim/claim.go`. Three detailed modules
are shown to implement it, which is what allows the users of the claim to treat it
as one atomic variable.

### ClusterClaim

`Claim` and `Release` are cut at every request. `pc[c]` says which request
comes next: `create` (the Create of `create`), `read` (`currentHolder` after
AlreadyExists), `judge` (`HolderActive`), `inspect` and `delete` (the Get and
the conditional Delete of `deleteHeldBy`), `claimed` (Claim returned that the
caller holds). `tries`, `second` and `target` are the locals: the Creates
left, whether this is the create after a takeover, and the holder that is
judged or deleted. `fresh[c]` is the outcome of the Delete's preconditions on
UID and resourceVersion: every write of the Lease clears it for everybody.

A Lease is a holder and a flag, `ours`, that the annotations are there. The
display form `holderIdentity` and its truncation are abstracted to the holder
it spells. Claimants are UIDs: a resource that is deleted and created again is
another claimant, and "gone" stands for absent or replaced. `phase` is what a
live read of the claimant answers; "held" is terminal and still keeping the
cluster (`keepsClusterPaused`, `recoveryHeld`). The callers of the package are
`Submit`, `Start`, `Finish`, `Unhold` and `Remove`. `Fail` ends a reconcile at
any request.

Assumptions: the reader is live, as the package demands; one worker runs the
reconciles of a resource; a request that was in flight when its sender died
or timed out takes effect before anything else, or never; an administrator
deletes a Lease of an unknown kind only once its resource is done, as
`WaitMessage` asks; nobody but the API server sees a UID before the resource
exists, so a foreign Lease cannot spell a later one; finalizers are not
removed by hand.

### EsBackup

`status[b]` holds the fields that decide: phase, step, what was requested and
accepted, whether the history names are complete, the clocks, and the pins.
A reconcile is one action where nothing can come between its calls, and is
cut where something can:

- `ClaimCluster` is `admit` up to the claim, `Start` the rest, and
  `LeaveAdmission` the deferred release of every exit without a start.
- A pass over a part is `QueryPart` (the status query of the part), then one
  judgement at `check` (`workloadUnchanged` is read after the answer, so a
  rollout can come between), then perhaps one request at `request`. What the
  pass decides is written by `Flush`, which conflicts when a deletion came
  after the read. `RequestAccepted` is `Record`: it lands at once, also on an
  object that is being deleted. `RequestWriteLost` and `ResumeWriteLost` are
  the operator stopping after the side effect and before the write.
- `stageUnreachable` counts polls. The first poll starts the clock; a later
  one may find the bound passed, since nothing bounds the time between two
  polls, and finds it passed for sure after `UnreachableBound` of them. The
  resume deadline charges the time of attempts only: `ResumeBound` failed ones
  fill it.
- `finalize` is one action per resource it touches: the resume, the history,
  the records, the runtime backup, the finalizer, the claim. A reason to hold
  the deletion ends the pass, or keeps it from its first call: no binding, a
  management client that cannot be built or a resume that is refused while the
  backup may have left a pause, a moved bucket or storage endpoint, a query or
  delete that fails, a part that is not registered or still in progress.

The environment is external: the CamundaCluster (its UID, whether it
publishes a binding, the configuration of its workload, whether exporting is
paused), and `artifact[b][p]`, what exists under the backup ID. The cluster
registers an accepted backup some time after, so "accepted" reads as absent;
one that it loses after the acceptance never shows up ("lost"). Another actor
may take an ID first (`ForeignArtifact`), and the cluster answers conflict.
Two fields of `cluster` say what hinders the calls: `obstacle` (the management
client cannot be built, or what resumes and cleans up is refused) and `moved`
(the backups whose contracts point away from what they pinned). `Obstruct` and
`MoveAway` set them at any time; `Repair` and `MoveBack` are what somebody may
do about it, and may never do.

Assumptions: the cluster registers within the registration grace or never,
which is what `registering` relies on; it never accepts an ID twice; nobody
takes an ID after it was accepted here; a recreated cluster does not serve its
API within one pass that began against the old one, whose workload must be
torn down first; a Zeebe workload does not come back to an earlier
configuration between two polls, because only the hash of the moment is
compared (`statemachine.go:719`), so a rollout and its undoing between two
polls would go unnoticed. The claim is atomic here: `ClusterClaim` shows that
a judgement of a takeover cannot be out of date, so cutting it would add no
behaviour that these properties see.

### OneOwner and LeaseClaim

`OneOwner` says who works on each key: a key passes from one to the next only
through a moment in which nobody works on it. `LeaseClaim` has the requests of
`Take`: the read of the Lease (`Read`), the order among the Databases that
want the key (`Order`, which asks the index of the cache, `recorded`), the
Create, the judgement of the holder by a live read, the conditional takeover,
and the second Create. Its user is the Database: a pass claims, connects, drops
what the Database no longer names (`Sweep`), runs SQL, and publishes the
bindings; a lost claim withdraws them; the finalizer releases. `key[c]` is the
key that the pass read, `names[c]` the one the spec names now, so an answer of
`Take` can be old when SQL runs.

Assumptions: live reader for the judgement, a cache that lags behind
(`recorded` is what the index serves, written by the flush of a pass); UIDs
are never used again; SQL of one pass is one step.

### EsRestore

Several restores of one cluster, with the brokers, their volumes, the restore
Jobs and their pods, the indices, the holds, the registration and the claim.
`phase[r]` and `kept[r]` are the stored status. The actions follow
`pkg/restore`: `SuspendTarget`, `AdoptSuspension`, `AwaitBrokers`,
`AwaitClaim` and `Start` are the preparation; `RestoreIndices` and
`TrackRestore` the secondary storage; `RecreateClaims`, `CreateJob` and
`TrackJobs` the primary; `Collect`, `Resume`, `Give`, `KeepWriter` and
`EndRecovery` the terminal branch; `RemoveJobs`, `ReleaseHold` and
`RemoveFinalizer` the finalizer. The controllers of the restores run with the
default of one worker, so a pass is one action; a pass that writes more than
once is cut where a crash can cut it, and the flush of a pass can be lost
(`Flush`) after everything else took place.

The environment: the StatefulSet controller (`ScaleDown`, `ScaleUp`), the
volume and Job controllers, Elasticsearch (`Recover`), and users who suspend,
delete restores and remove Jobs.

Assumptions: the Job controller never runs two pods of one broker Job at once;
a user does not remove the finalizer by hand. A failed restore keeps its Jobs
and its hold, as `docs/` says, until somebody deletes it: `RestoreEnds` and
`NeverOverHalfRestored` name that as their exception.

### StorageWriter

Who writes a secondary storage. A pass of a cluster is cut at every list and
every write (`Begin`, `Unclaimed`, `Create`, `Gate`, `Render`, `Look`,
`LookAtRollouts`, `Free`), because the controller runs the passes of several
clusters at once. `tmpl` and `asked` are the template and the replicas of the
StatefulSet, `old` the claim that a pod of the earlier revision carries while
an update runs, `pods` who writes what. A restore goes through the states of
`doing`: `Prepare` pins the target, `LookFirst` and `Register` look before and
after the registration, `Write` is what it does itself, `CreateJob` its
pg_restore Job. `jobs` and `dumps` are the Jobs that can still start a pod and
those that have one: a Job outlives the restore that failed, which gives its
registration and the cluster back first.

Assumptions: a list of pods or workloads is one consistent look; "writing"
begins with the look that allows it, and so covers the time up to the write
itself; the target of a restore stays pinned. Contracts whose address moves
are in `PitRestore`, where they matter.

### RdbmsBackup

A backup pins the cluster, its configuration and its incarnation (`Start`),
dumps the database with a Job (`CreateJob`, `Adopt`, `TrackJob`), asks the
cluster for a Zeebe backup (`Request`), and looks at the workload again after
the answer (`JudgeAnswer`) and at every poll (`Judge`). A configuration is a
database and the rest, `want` what the references name and `runs` what Zeebe
runs; `rolled` says that every broker does. `clock` is the grace of a look that
fails. `pass` is cut before the Create of the Job, before the request, and
between the answer and the look. The finalizer deletes the Job, waits for its
pods, and deletes the object itself, or with a cleanup Job where only the
workload identity of the cluster reaches the bucket (`CreateCleaner`). Crashes
between an effect and the status write, foreign and removed Jobs, rollouts and
a replaced cluster come at any time.

Assumptions: a configuration never comes back to an earlier one; the cluster
either registers an accepted backup or loses it.

### BackupSchedule

`now` counts the triggers of the cron expression, `last` is the stored
`lastScheduleTime`. A pass decides on one trigger (`Decide`), creates the
backup under the name of trigger and kind (`Create`), lists (`List`), deletes
what exceeds the bounds one by one (`Prune`) and writes the status (`Flush`),
the only record of the consumed trigger. Between any two `Crash` can come, which
loses the record, or `CallFails`, whose deferred flush still writes it.
`Older` breaks ties as the lists do. Users delete and re-apply backups, change
the storage of the cluster, lower the bounds, and recreate the schedule.
`woken` is the queue: the clock, a change of a phase, an edit or an error set
it.

### ServerRecovery

A pass reads the server (`copy`), the recovery acts (`Start`, `Create`,
`MoveOver`, `Complete`, `Abandon`, `RefuseRecovery`, ...), the components apply
the cluster and the contract (`ApplyCluster`, `ApplyContract`,
`RecordArchive`), and `FlushStatus` writes the status if the server was not
written since (`stale`). `config`, the contract, carries the request, the
answer and the endpoint. `object` is the CloudNativePG cluster under each name;
name `0` is the name of the server, `n` its suffix `-r<n>`. Three variables
only observe: `base` is the data that the server owes its consumers, `spoiled`
says that somebody else deleted it, `inherited` names requests that found a
cluster already standing under their name.

Assumptions: a request is asked once; a cluster that fails does not heal;
cached lists answer like live ones; a suspended server applies no components;
the superuser Secret exists when its cluster does.

### PitRestore

One restore, the server that it asks, its own cluster and another one on the
same contract. `Register` registers the restore as a writer of the database,
`AskForRecovery` writes the request, `ReadAnswer` follows the answer to the
new endpoint, `Validate` and `RestorePrimary` read the database before the
volumes are emptied. `look` cuts a pass where the world can move between a
look and the write. `kept.clock` is the grace of references that do not
resolve. `Finalize` holds a deletion while a rollback runs, in both its forms
(the request is recorded, or it is only on the contract). The server is
`Accept`, `Refuse`, `CutOver`, `Answer`, `Probe` and `Republish`.

Three variables only observe: `gaveUp` (the grace ended a hold that the
rollback could outlive), `passed` (the other cluster claimed the database after
the look that found it free and before the registration), `woken` (a cluster
started over the database after it was read). The properties name them as
their exceptions; see the known limits.

## Runs

| Run | Question | States |
|---|---|---|
| `claim` | Does the Lease protocol keep operations apart under every interleaving, and does every pending claimant get the cluster? | 6,246 |
| `es_one` | Does one backup keep its promises through rollouts, a suspension, a replaced cluster, foreign artifacts, crashes, lost writes, refused calls and moved contracts, and does it end? | 640,074 |
| `es_siblings` | Do two backups of one cluster keep out of each other's way? | 3,287,731 |
| `lease` | Do Databases that move, swap and leave their keys keep one owner per key, and is every one served? | 349,967 |
| `restore` | Do two restores of one cluster, deleted and retried, ever let brokers run over half a storage, and does the cluster run again? | 384,551 |
| `storage` | Do clusters, restores and late Jobs ever write one backend together? | 4,083,049 |
| `rdbms` | Is a completed backup one restore point, does a deletion leave nothing, does a backup end? | 552,084 |
| `rdbms_cleanup` | Does a deletion end where the bucket needs a cleanup Job? (It does not: a finding.) | 828 |
| `schedule` | Do the backups of a schedule overlap, and does the retention prune the right ones? | 599,487 |
| `recovery` | Does the server keep its data, answer each request, and answer the truth? | 279,768 |
| `recovery_later` | Is `Completed` always the answer to the request it names? (It is not: a finding.) | until violated |
| `pit` | Is a rollback covered by a registration and alone, and does it end? | 277,372 |

Properties of each run:

- `claim`: `PendingClaimKept`, `ImplementsExclusiveUse`, `PendingGetsCluster`.
- `es_one`: `PauseHasOwner`, `CompletedIsConsistent`,
  `CleanDeletionIsComplete`, `PausedIsResumed`, `DeletionEnds`.
- `es_siblings`: `PausedWhileTaken`, `SomePendingGoesFirst`.
- `lease`: `HolderKeeps`, `ImplementsOneOwner`, `NamedKeyIsServed`.
- `restore`: `TypeOK`, `NeverOverHalfRestored`, `NoPodUnderBrokers`,
  `WriterCoversRecovery`, `WrittenVolumesKept`, `ImplementsExclusiveUse`,
  `RestoreEnds`, `CompletedRunsAgain`.
- `storage`: `OneWriter`, `RestoreAlone`.
- `rdbms`: `CompletedIsOnePair`, `DeletedLeavesNothing`, `BackupEnds`.
- `schedule`: `OneRunning`, `PrunesOldestEnded`, `RetentionHolds`.
- `recovery`: `ServerTypeOK`, `DataKept`, `CompletedHoldsThePoint`,
  `RequestAnswered`, `EndsOnItsData`.
- `pit`: `RollbackIsCovered`, `RolledBackAlone`, `GoneLeavesNoWriter`,
  `ErasesOnlyMatched`, `DeletionEnds`, `RollbackEnds`.

The type invariants of the other modules are proved, and not run.

Bounds, and why they are enough:

- `claim`: two claimants, the holder and the one that takes over. Two failures
  cover a crash between claim and start followed by one in the recovery. One
  foreign Lease, since it can only come while there is none. A claimant passes
  through its life once, and TLC explores all of it. Unknown kinds and more
  claimants are covered by the proofs.
- `es_one`: `MaxClusters = 2` gives one replacement, `MaxConfig = 2` one
  rollout, which is what a set of two configurations needs. `MaxFailures = 1`
  is the budget of crashes, lost writes, rejections, broken dependencies, lost
  registrations, foreign artifacts, obstacles and moved contracts; unreachable
  answers and failed resumes are free, their clocks bound them. `Obstacles` has
  all three kinds.
- `es_siblings`: two backups, and no rollout, suspension or replacement, and of
  the obstacles only `"refused"`: the others do not relate two siblings. One crash is what a release in the wrong
  order needs to go wrong.
- `lease`: two live Databases and two keys, so that they can swap; a third
  claimant that departed left a stale Lease on one key. One move, one fault.
- `restore`: two restores, since adopting a suspension and taking over a claim
  need two; one broker (`Last = 0`), as brokers meet in nothing but the order
  of their Jobs; one fault beside the deletions, which are free. More restores,
  brokers and faults are covered by the proofs.
- `storage`: two clusters and two backends, so that one can leave a backend
  for another, one restore, two changes by users, which allow a move while
  another cluster is deleted or suspended.
- `rdbms`: one backup: siblings meet in the claim and in names of their own.
  Two acts by users and one lost write or crash.
- `schedule`: two kinds and two triggers, two crashes or edits: a trigger taken
  twice, once for each kind of storage.
- `recovery`: two requests and two archives, so that the second rollback starts
  from the first or from its refusal; one act, one fault. The safety of more is
  proved.
- `pit`: two places, before and after the move; two acts, one lost flush.

Deadlock is not an error in these runs: when every resource is gone, or waits
for a human, nothing is left to do.

Fairness. The work queue retries every object whose reconcile failed or asked
to be requeued, so the steps of a pass and the passes of an object that is not
done are weakly fair. Kubernetes controllers (Jobs, StatefulSets, volumes,
CloudNativePG) are weakly fair in what they finish. Strong fairness is used
only where a call can fail at any time but not forever:

- `ClusterClaim`: `CallClaim`, `Start` and `Finish`;
- `EsBackup`: `RegistrationFailed`, because a grace that passed stays passed;
- `LeaseClaim`: the connection to the server that succeeds;
- `EsRestore`: the request of the snapshot restore that is answered;
- `RdbmsBackup`: the request to the cluster that gets an answer.

In `EsBackup` the calls of a running procedure need not be answered ever, as its
clocks bound them. The finalizer has no clock: weak fairness of `Finalize` says
that its calls get through at last while no obstacle stands, and nothing removes
an obstacle. What can hold a deletion, or a pause, without a bound is therefore
an exception of the properties, and each part of the exceptions is needed: TLC
finds a behaviour against the property without it.

- `DeletionHeld`: no binding (`finalizer.go:145`), no client while a pause may
  be left (`:169`), a refused resume, query or delete (`:186`, `:395`, `:232`,
  `:459`), a moved bucket (`:197`) or storage endpoint (`:337`), an accepted
  part still in progress (`:423`).
- `PauseHeld`: no binding, a ResumeFailed backup, a part in progress that a
  running backup waits for, and a deletion held before its resume (`:169`,
  `:186`). What comes after the resume is no exception, which is what the order
  in `deleteArtifacts` is for.

That an accepted part is registered or lost within the grace is weakly fair.

`BackupSchedule` assumes the passes alone: `RetentionHolds` needs no fairness
of clusters or users. `ServerRecovery` and `PitRestore` state what else they
need as hypotheses of their properties: the user lifts the suspension for good
(`<>[]~suspended`), and for `RollbackEnds` the references resolve and nobody
else has the database (`Unhindered`). Nothing makes a user end a suspension,
delete a ResumeFailed backup or give up a foreign Lease: the liveness
properties name these as their escapes (`NeedsHuman`, `PauseHeld`,
`DeletionHeld`, `Blocked`, `Nameless`).

## Findings

Two runs state what the documentation says and are violated by the code.

- `rdbms_cleanup`, `DeletionEnds`. `docs/crds/logicalbackuprdbms.md` says that
  a deletion waits for the pods, then deletes the dump, and that with workload
  identity a cleanup Job does so. The pod of the cleanup Job carries the label
  by which the finalizer counts pods (`finalizer.go:166`), so it waits for
  that pod forever and never reaches the watch of the cleanup Job. The
  deletion goes on once somebody removes that pod (`RemovePod`).
- `recovery_later`, `CompletedAnswersTheRequest`.
  `docs/crds/databaseserverconfig.md:150` says that `Completed` means the
  state of the requested time, and `recovery.go:253` that a later request
  starts under a name of its own. A refused request leaves its cluster under a
  name that the next request derives again, when that request is written
  before the server reads its refusal back. The server then answers the new
  request with the data of the old one. `CompletedHoldsThePoint` is the same
  statement without this case (`inherited`).

## Known limits

What the code allows and the properties exclude by name, each found by TLC
when the exception is taken away:

- `StorageWriter!Leftover`: a cluster deleted in the middle of an update can
  start a pod of its old revision, which `finalizeStorageClaims` does not ask
  for, after the backend was given to another.
- `RestoreAlone` leaves out the target itself: a pass of the target that read
  it before the suspension can still start its pod while the restore begins.
- `PitRestore!passed`: the second look after the registration that other
  restores do is missing here, so a cluster that claims the database between
  look and registration is rolled back under. `docs/crds/pointintimerestore.md`
  says that the restore waits.
- `PitRestore!woken`: the position of the database is read once, in the phase
  before the volumes are emptied.
- `ServerRecovery!Nameless`: a request that was started in a pass whose name
  was never recorded waits for ever (`recovery.go:691`, `recovery.go:843`).
- `ServerRecovery!Stranded`: past the cutover, with contract and cluster both
  deleted, nothing rebuilds the one that the other would name.
- `EsRestore`: a completed restore that took over the suspension of one that
  is gone withdraws every declaration of it (`prepare.go:292`), also that of a
  restore that adopted it later; a restore that is deleted leaves
  `spec.suspend` set.
- `BackupSchedule`: a trigger can get a second backup, one after the other, if
  the first was removed before the status recorded the trigger; a backup that
  is being deleted counts towards the retention.

## Proofs

Each proof has the same shape: a type invariant and an inductive invariant,
each action taken by itself, one leaf per conjunct that it can disturb, and a
frame lemma for what it leaves alone.

### ClusterClaimProofs

For every set of claimants, every subset of known kinds and every bound:

- `TypeCorrect`, and `ClaimInvariant`: the inductive invariant `ClaimInv`;
- `Exclusion`, `UseIsCovered`, `JudgementStays`: its safety invariants;
- `PendingClaimIsKept`, `ForeignLeaseIsKept`: its action properties;
- `ClaimImplementsExclusiveUse`: the refinement.

The argument. `ClaimCoversUse` is the heart: two users would both have the one
Lease, so `MutualExclusion` follows from it. It is not inductive alone:

- the Lease of a user could be deleted by a claimant whose precondition still
  matches, so `FreshNamesTarget` says that such a Delete hits the Lease of its
  target, and `TakeoverTargetDone` that the target of a takeover is terminal
  or gone. Both are for ever, since a phase only moves forward and a resource
  that comes back has another UID;
- a start could be recorded without the Lease, so `ClaimedHolds` says that a
  claim that was answered as won is still the stored Lease, and `CallerPhase`
  what the callers of each request can be;
- a judgement could name a resource that is only submitted later, so
  `NamedHolderExists` says that a Lease names only what exists or existed.

### EsBackupProofs

For every set of backups, every order among them and every bound:

- `BackupInvariant`: `TypeOK` and the inductive `ProtocolInv`;
- `BackupTypeCorrect`, `BackupClaimCoversUse`, `PauseIsOwned`,
  `PausedWhileTakenHolds`;
- `CompletedSetIsConsistent`, `CleanDeletionLeavesNothing`, from the invariant
  `EvidenceInv`; `SiblingsNeverBlockEachOther`;
- `BackupsImplementExclusiveUse`: the refinement.

The argument. Most steps (`Pass`) rewrite the status of one backup without
touching its phase, its pinned cluster, the claim or the cluster; the lemma
`PassKeepsFrame` says so once, and `PassStep` disposes of all of them; what
hinders the calls touches no field that an invariant reads (`HindranceOnly`). The
sixteen others (`Moves`) are taken one by one. `PauseHasOwner` needs three
facts beside `ClaimCoversUse`: a finalizer that reached its deletes resumed
before and nobody paused since (`CleanupResumedFirst`), which holds because
only the holder of the claim pauses; no backup pinned a UID that does not
exist yet (`PinnedExisted`), so a recreated cluster is nobody's; and a cluster
that is gone is not paused (`GoneIsNotPaused`). `StartHoldsClaim` carries the
claim from admission to the start, `ReleasedIsGone` makes the late release of
a finalizer harmless, and `CallsOfStep` types the steps of a pass.

`PausedWhileTaken` has an invariant of its own, `TakenInv`, on top of
`ProtocolInv`: a pause that was answered "ok" is still in effect when the pass
judges it (`PauseTookEffect`), and only that judgement leads to the first part
(the lemma `FirstPart`). Whoever resumes exporting has the claim, so no other
backup is between its pause and its last part at that moment; this is where
the order "finalizer first, claim after" is used.

`EvidenceInv` says, backup by backup, what the artifacts must be for the status
to claim what it claims. A running procedure that did not fail has every part
of the steps behind it, its own and taken by the pinned configuration
(`PartsTaken`). That a part which just completed was taken by the pinned
configuration needs an order: the pin is the oldest configuration, the artifact
is not older, and the cluster not older than the artifact (`ConfigsGrow`), so a
cluster that is back at the pin when the answer is judged was there all along;
and the answer is still true when it is judged (`AnswerIsTrue`). The finalizer
clears part after part, and nothing comes back behind it (`PartsCleared`): only
a deletion runs it (`CleanupIsDeletion`), and a deletion requests nothing. The
theorem about siblings takes the pending holder of the claim, or else the
pending backup that was created first, which exists as creation times are
natural numbers.

### EsRestoreProofs

For every set of restores, every number of brokers (the run has one) and every
number of faults:

- `RestoreTypeCorrect`, and `RestoreInvariant`: the inductive `ClusterInv`;
- `BrokersFindWholeData`, `NoPodRunsUnderBrokers`, `RecoveryIsCovered`;
- `WrittenVolumesAreKept`, an action property;
- `RestoresImplementExclusiveUse`: the refinement.

The argument. `ClusterInv` has one conjunct per restore, `Own`: what is
recorded (`Recorded`), that it uses the cluster only under the claim
(`UsesByClaim`), that it holds the cluster at zero while it is at work, failed
or has a pod left (`HoldsBrokers`), that Jobs exist and volumes are written
only after their record (`WrittenByRecord`), that the index is its own
(`IndexIsOwn`) and that the registration stands while Elasticsearch still
recovers (`Watched`). A restore that is at work has claim and hold, so no
broker runs and no other restore is at work; a step of one leaves the conjuncts
of the others alone (`Undisturbed`), which is stated once for all steps.

`BrokersFindWholeData` has the invariant `SoundInv` on top. It holds while no
restore failed or was deleted before its end (`Unspoilt`), which never comes
back once lost. Volumes are missing, and Jobs live, only for the restore in its
primary phase, and a volume whose Job is done is full (`Replaced`); and while
nobody is at work, either all volumes are live or the brokers are down over a
whole restore.

### LeaseClaimProofs

For every set of Databases and keys, every order among them, every set of
Leases left behind and every bound: `LeaseTypeCorrect`, `SqlIsCovered` (SQL runs
only under the own Lease), `HolderKeepsTheLease` and the refinement
`LeaseImplementsOneOwner`.

The argument. `TakenIsHeld`: from the answer of `Take` to the end of the pass
the Lease stays, however old that answer gets. Somebody else could remove it
only by a takeover, whose target is gone for ever (`TakeoverTargetGone`), while
a Database that runs a pass exists (`RunnerExists`); `FreshNamesSeen` ties the
preconditions of the Delete to the Lease that was judged, and `NamedExisted`
says that a Lease names nobody that is only created later.

### BackupScheduleProofs

For every set of kinds, every number of triggers, every retention:
`ScheduleTypeCorrect`, `ScheduledNeverOverlap` and `PrunesOnlyTheOldest`.

The argument. `AtMostOne`: a pass that is about to create found nothing
unfinished but the backup of its own name, and nobody else creates a backup for
the schedule. `DoomedAreOldest`: what a pass still deletes has ended, or is
gone, and no backup that stays and ended the same way ended before it; the
identity in the precondition of the Delete keeps this true when a backup is
applied again, and `EndedBefore` when another one ends in between.

### StorageWriterProofs

For every set of clusters, backends and restores, and every number of moves,
suspensions and deletions: `StorageTypeCorrect`, `StorageOneWriter` and
`StorageRestoreAlone`.

The argument. A cluster that is alive, or has a pass, holds the Lease of every
backend that it can write: by a pod, by the StatefulSet or by the revision that
a pod can come back with (`HoldsWhatItWrites`). What a pass is cleared for is
free of everybody else until the Lease changes hands (`KeyIsFree`, `KeyIsHeld`),
and what it frees it can no longer write (`LeftAtRollouts`, `LeftAtFree`). For
the restore, `RestoreWritesAlone` says the same of a restore that writes and of
a Job that can still start a pod; `JobIsLate` ties the Job to a restore that
began to write. Each of the two sides writes its registration or claim before
it reads the other's, which is the step in which the invariant is used.

### RdbmsBackupProofs

For every set of backups, both kinds of bucket, every grace and every number of
acts and losses: `RdbmsTypeCorrect`, `RdbmsOnePair`, `RdbmsDeletedLeavesNothing`.

The argument. The invariant is one conjunction per backup: all that is dumped
is the database of the pin; the dump stays from the Job that is done on; a
Zeebe backup that is not whole belongs to a cluster that is no longer the
pinned one; what a look saw stays; a cleanup runs only when the uploader is
gone; a finalizer that goes on to the claim has nothing left to remove.
Configurations are only replaced by newer ones (`Counted`), so the pinned
configuration after the answer was there before it too. A step that touches one
backup keeps the invariant of the others by one lemma.

### RollbackProofs

The two sides of a rollback are proved in one module, which extends both.

Of `PitRestore`, for every set of places and every number of acts, crashes and
lost flushes:
`PitTypeCorrect`, `PitRollbackIsCovered`, `PitRolledBackAlone`,
`PitGoneLeavesNoWriter` and `PitErasesOnlyMatched`.

The argument. A rollback is `Open` while the server rolls back or can still
accept the request. `OpenIsWaitedFor`: an open rollback has a restore in
RestoringDatabase that waits for it, because each way out of that phase, the
deletion included, asks whether the request was answered. `RestoringHeld`: such
a restore has a registration, and a registration turns every look of another
cluster away. The rest ties the pass in flight to its phase (`LookInPhase`,
`PinnedPastPending`) and the point that was read to the volumes
(`PrimaryMatched`).

Of `ServerRecovery`, for every set of requests and every number of archives,
interventions, faults and crashes: `ServerTypeCorrect`, `ServerKeepsItsData`
and `CompletedIsTrue`, from the invariant `ServerInv` (`ServerInvariant`).

The argument. The invariant has two layers. `RecordsInv` relates the stored
status and the copy of a pass to the contract: a record that is past the cutover
names the cluster to go back to (`Formed`); a pass never goes on with a record
that the contract answers already (`Unsettled`), so writing its copy brings no
answered request back; and an answer `Completed` that a status has not read yet
was overtaken by another request (`Behind`), so it is never recorded for a
request that did not run. `ClustersInv` holds while nobody else destroyed the
data: the cluster of the status has it, or past the cutover the one of the
record (`Kept`); the cluster of a running recovery holds the point of its
request (`Right`); a recorded `Completed` is true (`Told`); and an answer that
is only on the contract, because the status write was lost, fits the record that
is still running (`AnswerFits`). Each of them is stated for the status and for
the copy, which differ from the first step of a pass to its last, and any crash
falls back to the status. Then a cleanup never removes the data, since it spares
the cluster of its copy, and that one is `Good`; and the cluster component never
builds an empty database, since it finds the data under its name
(`ApplyClusterIsIdle`). `RecoverKeeps` and `ServerWorldKeeps` are the two forms
that all steps of the server and of the world have.

### What the proofs rest on

The assumptions are the named ones of the modules (`ClaimConstants`,
`NoLeaseIsNoLease`, `BackupConstants`, `LeaseClaimConstants`,
`EsRestoreConstants`, `BackupScheduleConstants`, `StorageWriterConstants`,
`RdbmsBackupConstants`, `PitRestoreConstants`, `ServerRecoveryConstants`), which
TLC evaluates in the runs. The bounds of the
actions are constants of any size, so the theorems hold for any finite number
of faults and acts.

Every safety invariant and every action property that a run checks is proved.
Only model-checked are the liveness properties, since fairness and ENABLED are
beyond the prover. The two runs that end in a violation state what does not
hold.

## Not modelled

- Of the restores: the version write and the pin of the broker count, a
  cluster that is replaced under its name, how an RDBMS restore adopts and
  tracks its Job, and two restores of different clusters on one backend
  (`CheckBackend` reads no registration).
- Of the storage writers: the importer pods of Optimize, a live Lease or a Job
  removed by an administrator, and a registration that is left over from a
  crash before the status write.
- Of the RDBMS backup: configurations that come back, a Zeebe backup that the
  cluster took but whose ID was lost in a crash, and the update that adds the
  finalizer.
- Of the database server: the holds on spec and archive settings, storage
  sizes, versions, collisions with other resources, the wait for the
  ServiceAccount.
- Of the point in time restore: a second restore, and a target that is lost
  before the pin.
- The admin credential rotation, a protocol between one Secret and the users
  API of the cluster, shares no state with anything else here.
- The management cluster, Optimize and the Elasticsearch cluster render
  workloads and follow others; the claim that the management cluster takes goes
  through the package that `LeaseClaim` models.
- Fleet claims create one object and keep no state; `pkg/claimpolicy` and the
  contract controllers are pure validation and rendering.
- Formatting of names, conditions, events, metrics and messages; snapshot sizes
  and the bucket layout; the rendering of workloads; SQL, HTTP and TLS of the
  clients; the CRD schemas and the generated deep copies; plugins and the
  command line.
