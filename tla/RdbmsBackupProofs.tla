------------------------- MODULE RdbmsBackupProofs -------------------------
(***************************************************************************)
(* Proofs about RdbmsBackup, for every set of backups, every grace, both   *)
(* kinds of bucket, and every number of user actions, crashes and lost     *)
(* status writes.                                                          *)
(***************************************************************************)
EXTENDS RdbmsBackup, TLAPS

(* References only name what is newer, brokers only take it over, and a    *)
(* cluster that is replaced is a newer one.                                *)
Newer(x, y) == x.db <= y.db /\ x.rest <= y.rest

Counted ==
  /\ uid + (IF present THEN 0 ELSE 1) <= acts + 1
  /\ want.db <= acts + 1 /\ want.rest <= acts + 1 /\ Newer(runs, want)

(* Only an admitted backup has a pin, and anything that it started.        *)
StartsPinned(b) ==
  /\ Newer(status[b].pin.config, runs)
  /\ status[b].pin = NoPin => status[b].phase = "Pending"
  /\ life[b] = "absent" => status[b].phase = "Pending"
  /\ status[b].phase = "Pending" =>
       pod[b].at = "none" /\ object[b] = 0 /\ ~Belongs(b) /\ zeebe[b].state = "none"

(* All that is dumped is the database that the backup pinned.              *)
DumpsPinned(b) ==
  /\ pod[b].at # "none" => pod[b].db = status[b].pin.config.db
  /\ object[b] # 0 => object[b] = status[b].pin.config.db
  /\ At(b, "create") => pass[b].db = status[b].pin.config.db

(* The dump stays, from the Job that is done on.                           *)
DumpStays(b) ==
  life[b] = "alive" /\ (job[b] = "done" \/ status[b].phase \in {"ZeebeBackup", "Completed"}) =>
    object[b] # 0

(* A Zeebe backup that is not whole has a cluster that is not the pinned.  *)
WholeIsPinned(b) ==
  zeebe[b].state # "none" /\ ~zeebe[b].whole => runs # status[b].pin.config

(* What a look saw, and what a completed backup recorded, stays.           *)
SeenStays(b) ==
  /\ At(b, "judge") /\ pass[b].seen = "completed" =>
       zeebe[b].state = "completed" /\ zeebe[b].uid = status[b].pin.uid
  /\ status[b].phase = "Completed" =>
       zeebe[b] = [state |-> "completed", whole |-> TRUE, uid |-> status[b].pin.uid]

(* A cleanup runs for a backup that is deleted, whose uploader is gone.    *)
CleansAlone(b) ==
  cleaner[b] # "none" =>
    /\ life[b] \in {"deleting", "gone"} /\ pod[b].at = "none"
    /\ pass[b].at \in {"idle", "free"}
    /\ cleaner[b] = "done" => object[b] = 0

(* A finalizer that goes on to the claim has nothing left to remove.       *)
FreeIsClean(b) ==
  /\ At(b, "free") => life[b] = "deleting"
  /\ life[b] = "gone" => At(b, "idle")
  /\ At(b, "free") \/ life[b] = "gone" => pod[b].at = "none" /\ (object[b] = 0 \/ b \in left)

BackupKept(b) ==
  /\ StartsPinned(b) /\ DumpsPinned(b) /\ DumpStays(b) /\ WholeIsPinned(b)
  /\ SeenStays(b) /\ CleansAlone(b) /\ FreeIsClean(b)

RdbmsInv == TypeOK /\ Counted /\ \A b \in Backups : BackupKept(b)

-----------------------------------------------------------------------------
(* What a pass does to the stored status of its backup: nothing, or, for a *)
(* backup that is alive, one of the phases P; the pin stays.               *)
StatusStep(b, P) ==
  /\ status' \in [Backups -> Status] /\ lost' \in 0..MaxLost
  /\ \A c \in Backups \ {b} : status'[c] = status[c]
  /\ status'[b].pin = status[b].pin
  /\ \/ status'[b].phase = status[b].phase
     \/ status'[b].phase \in P /\ life[b] = "alive"

(* A pass goes somewhere; the passes of the other backups do not.          *)
PassStep(b) ==
  /\ pass' \in [Backups -> Passes]
  /\ \A c \in Backups \ {b} : pass'[c] = pass[c]

(* The values that passes and status start from have their types.          *)
LEMMA StartTypes ==
  /\ Idle \in Passes /\ NoPod \in Pods /\ 1 \in Numbers
  /\ NoPin.config \in Config /\ NoPin.uid = 0
<1>1. 1 \in Numbers
  BY RdbmsBackupConstants DEF Numbers
<1> QED
  BY <1>1 DEF Idle, Passes, Zeebe, NoPod, Pods, NoPin, Config

(* The edits of a status.                                                  *)
LEMMA StatusEdits ==
  ASSUME NEW s \in Status
  PROVE  /\ \A p \in {"Pending", "Dumping", "ZeebeBackup", "Completed", "Failed"} :
              LET t == [s EXCEPT !.phase = p] IN t \in Status /\ t.pin = s.pin /\ t.phase = p
         /\ \A j \in BOOLEAN :
              LET t == [s EXCEPT !.job = j] IN t \in Status /\ t.pin = s.pin /\ t.phase = s.phase
         /\ LET t == [s EXCEPT !.asked = TRUE] IN t \in Status /\ t.pin = s.pin /\ t.phase = s.phase
         /\ Recovered(s) \in Status /\ Recovered(s).pin = s.pin /\ Recovered(s).phase = s.phase
         /\ s.clock # Grace =>
              LET t == [s EXCEPT !.clock = @ + 1]
              IN t \in Status /\ t.pin = s.pin /\ t.phase = s.phase
<1>1. s.clock # Grace => s.clock + 1 \in 0..Grace
  BY RdbmsBackupConstants DEF Status
<1>2. 0 \in 0..Grace
  BY RdbmsBackupConstants
<1> QED
  BY <1>1, <1>2 DEF Status, Recovered

(* The flush of a status is a status step.                                 *)
LEMMA FlushStep ==
  ASSUME TypeOK, NEW b \in Backups, NEW s \in Status, s.pin = status[b].pin, NEW P,
         s.phase = status[b].phase \/ s.phase \in P, Flush(b, s)
  PROVE  StatusStep(b, P)
BY RdbmsBackupConstants DEF TypeOK, Flush, Lose, StatusStep

(* So is a write of the phase Failed.                                      *)
LEMMA FailStep ==
  ASSUME TypeOK, NEW b \in Backups, NEW s \in Status, s.pin = status[b].pin, NEW P,
         "Failed" \in P, Fail(b, s)
  PROVE  StatusStep(b, P)
<1> DEFINE t == [s EXCEPT !.phase = "Failed"]
<1>1. t \in Status /\ t.pin = s.pin /\ t.phase = "Failed"
  BY StatusEdits
<1>2. Flush(b, t)
  BY DEF Fail
<1> QED
  BY <1>1, <1>2, FlushStep

(* A hold keeps the phase until the grace is over.                         *)
LEMMA HoldStep ==
  ASSUME TypeOK, NEW b \in Backups, NEW s \in Status, s.pin = status[b].pin, NEW P,
         s.phase = status[b].phase, "Failed" \in P, HoldRunning(b, s)
  PROVE  StatusStep(b, P)
<1>1. CASE s.clock = Grace
  BY <1>1, FailStep DEF HoldRunning
<1>2. CASE s.clock # Grace
  <2> DEFINE t == [s EXCEPT !.clock = @ + 1]
  <2>1. t \in Status /\ t.pin = s.pin /\ t.phase = s.phase
    BY <1>2, StatusEdits
  <2>2. Flush(b, t)
    BY <1>2 DEF HoldRunning
  <2> QED
    BY <2>1, <2>2, FlushStep
<1> QED
  BY <1>1, <1>2

(* A step of a pass.                                                       *)
LEMMA PassSteps ==
  ASSUME TypeOK, NEW b \in Backups
  PROVE  /\ \A p \in {"idle", "start", "create", "request", "judge", "free"} :
              Goto(b, p) => PassStep(b) /\ pass'[b].at = p
         /\ End(b) => PassStep(b) /\ pass'[b].at = "idle"
<1>1. ASSUME NEW p \in {"idle", "start", "create", "request", "judge", "free"}, Goto(b, p)
      PROVE  PassStep(b) /\ pass'[b].at = p
  <2> DEFINE q == [pass[b] EXCEPT !.at = p]
  <2>0. pass[b] \in Passes
    BY DEF TypeOK
  <2>1. q \in Passes /\ q.at = p
    BY <1>1, <2>0 DEF Passes
  <2>2. pass' = [pass EXCEPT ![b] = q]
    BY <1>1 DEF Goto
  <2> HIDE DEF q
  <2> QED
    BY <2>1, <2>2 DEF TypeOK, PassStep
<1>2. End(b) => PassStep(b) /\ pass'[b].at = "idle"
  BY StartTypes DEF TypeOK, End, PassStep, Idle
<1> QED
  BY <1>1, <1>2

-----------------------------------------------------------------------------
(* The invariant of one backup survives what does not touch it, a newer    *)
(* configuration of the brokers, and what that does to its Zeebe backup.   *)
LEMMA OthersKept ==
  ASSUME NEW c \in Backups, BackupKept(c), TypeOK, TypeOK', Newer(runs, runs'),
         life'[c] = life[c], status'[c] = status[c], pass'[c] = pass[c], job'[c] = job[c],
         pod'[c] = pod[c], object'[c] = object[c], cleaner'[c] = cleaner[c],
         c \in left => c \in left',
         \/ zeebe'[c] = zeebe[c]
         \/ /\ zeebe[c].state \in {"registering", "running"} /\ runs' # runs
            /\ zeebe'[c].state = zeebe[c].state
  PROVE  BackupKept(c)'
<1>1. /\ runs \in Config /\ runs' \in Config /\ status[c] \in Status
      /\ status[c].pin.config \in Config
  BY StartTypes DEF TypeOK, Status, Pins
<1>2. runs # status[c].pin.config /\ Newer(status[c].pin.config, runs) => runs' # status[c].pin.config
  BY <1>1, RdbmsBackupConstants DEF Newer, Config, Numbers
<1>3. runs' # runs /\ Newer(status[c].pin.config, runs) => runs' # status[c].pin.config
  BY <1>1, RdbmsBackupConstants DEF Newer, Config, Numbers
<1>4. Newer(status[c].pin.config, runs) => Newer(status[c].pin.config, runs')
  BY <1>1, RdbmsBackupConstants DEF Newer, Config, Numbers
<1>5. StartsPinned(c)'
  BY <1>4 DEF BackupKept, StartsPinned, Belongs, Newer
<1>6. DumpsPinned(c)' /\ DumpStays(c)'
  BY DEF BackupKept, DumpsPinned, DumpStays, At
<1>7. WholeIsPinned(c)'
  BY <1>2, <1>3 DEF BackupKept, StartsPinned, WholeIsPinned
<1>8. SeenStays(c)'
  BY DEF BackupKept, SeenStays, At
<1>9. CleansAlone(c)' /\ FreeIsClean(c)'
  BY DEF BackupKept, CleansAlone, FreeIsClean, At
<1> QED
  BY <1>5, <1>6, <1>7, <1>8, <1>9 DEF BackupKept

(* A step that touches one backup keeps the invariant of the others.       *)
LEMMA OneBackupStep ==
  ASSUME RdbmsInv, NEW b \in Backups, TypeOK', Counted', BackupKept(b)', runs' = runs,
         \A c \in Backups \ {b} :
           /\ life'[c] = life[c] /\ status'[c] = status[c] /\ pass'[c] = pass[c]
           /\ job'[c] = job[c] /\ pod'[c] = pod[c] /\ object'[c] = object[c]
           /\ cleaner'[c] = cleaner[c] /\ zeebe'[c] = zeebe[c]
           /\ c \in left => c \in left'
  PROVE  RdbmsInv'
<1>1. Newer(runs, runs')
  BY DEF RdbmsInv, TypeOK, Newer, Config, Numbers
<1>2. \A c \in Backups \ {b} : BackupKept(c)'
  BY <1>1, OthersKept DEF RdbmsInv
<1> QED
  BY <1>2 DEF RdbmsInv

(* A pass that reads and writes no more than the status, and releases the  *)
(* dump Job at most, keeps the invariant: what it goes on with is as       *)
(* pinned, and it completes what the Job and the cluster completed.        *)
LEMMA PassKeeps ==
  ASSUME RdbmsInv, NEW b \in Backups, NEW P, StatusStep(b, P), PassStep(b),
         life' = life, cluster' = cluster, pod' = pod, object' = object, zeebe' = zeebe,
         cleaning' = cleaning, identity' = identity, acts' = acts,
         claim' \in Backups \cup {NoHolder},
         \/ job' = job
         \/ job' = [job EXCEPT ![b] = "none"],
         status'[b].phase = status[b].phase \/ status[b].phase # "Pending",
         P \subseteq {"ZeebeBackup", "Completed", "Failed"},
         "ZeebeBackup" \in P => status[b].phase = "ZeebeBackup" \/ job[b] = "done",
         "Completed" \in P =>
           /\ status[b].phase = "ZeebeBackup"
           /\ zeebe[b] = [state |-> "completed", whole |-> TRUE, uid |-> status[b].pin.uid],
         pass'[b].at # "free",
         pass'[b].at = "idle" \/ (life[b] # "gone" /\ cleaner[b] = "none"),
         pass'[b].at = "create" => pass'[b].db = status[b].pin.config.db,
         pass'[b].at = "judge" /\ pass'[b].seen = "completed" =>
           zeebe[b].state = "completed" /\ zeebe[b].uid = status[b].pin.uid
  PROVE  RdbmsInv'
<1>1. /\ uid' = uid /\ present' = present /\ want' = want /\ runs' = runs /\ rolled' = rolled
      /\ cleaner' = cleaner /\ swab' = swab /\ left' = left
  BY DEF cluster, cleaning
<1>2. job' \in [Backups -> {"none", "active", "done", "failed", "foreign"}]
      /\ (\A c \in Backups \ {b} : job'[c] = job[c]) /\ job'[b] \in {job[b], "none"}
  BY SMTT(30) DEF RdbmsInv, TypeOK
<1>3. TypeOK'
  BY <1>1, <1>2 DEF RdbmsInv, TypeOK, StatusStep, PassStep
<1>4. Counted'
  BY <1>1 DEF RdbmsInv, Counted, Newer
<1>5. BackupKept(b)
  BY DEF RdbmsInv
<1>6. StartsPinned(b)'
  BY <1>1, <1>2, <1>5 DEF StatusStep, BackupKept, StartsPinned, Belongs, Newer
<1>7. DumpsPinned(b)' /\ DumpStays(b)'
  BY <1>1, <1>2, <1>5 DEF StatusStep, BackupKept, DumpsPinned, DumpStays, At
<1>8. WholeIsPinned(b)' /\ SeenStays(b)'
  BY <1>1, <1>5 DEF StatusStep, BackupKept, WholeIsPinned, SeenStays, At
<1>9. CleansAlone(b)' /\ FreeIsClean(b)'
  BY <1>1, <1>5 DEF BackupKept, CleansAlone, FreeIsClean, At
<1>10. BackupKept(b)'
  BY <1>6, <1>7, <1>8, <1>9 DEF BackupKept
<1> QED
  BY <1>1, <1>2, <1>3, <1>4, <1>10, OneBackupStep DEF StatusStep, PassStep

(* A backup that is alive, or has a pass that is neither idle nor about to *)
(* release, has no cleanup.                                                *)
LEMMA NoCleanup ==
  ASSUME RdbmsInv, NEW b \in Backups,
         life[b] = "alive" \/ pass[b].at \in {"start", "create", "request", "judge"}
  PROVE  life[b] # "gone" /\ cleaner[b] = "none"
BY DEF RdbmsInv, BackupKept, CleansAlone, FreeIsClean, At

-----------------------------------------------------------------------------
(* Admission *)

(* The claim, and a pass that ends early, are nothing of the backup.       *)
LEMMA AdmitKeeps ==
  ASSUME RdbmsInv, NEW b \in Backups, Admit(b) \/ Park(b) \/ ReleaseClaim(b) \/ Crash(b)
  PROVE  RdbmsInv'
<1>1. /\ life' = life /\ cluster' = cluster /\ pod' = pod /\ object' = object /\ zeebe' = zeebe
      /\ cleaning' = cleaning /\ identity' = identity /\ acts' = acts /\ job' = job
      /\ status' = status
      /\ claim' \in Backups \cup {NoHolder} /\ lost' \in 0..MaxLost
  BY RdbmsBackupConstants DEF RdbmsInv, TypeOK, Admit, Park, ReleaseClaim, Crash,
     Admits, Give, dumping, Lose
<1>2. StatusStep(b, {})
  BY <1>1 DEF RdbmsInv, TypeOK, StatusStep
<1>3. CASE Admit(b)
  <2>1. PassStep(b) /\ pass'[b].at = "start" /\ life[b] = "alive"
    BY <1>3, PassSteps DEF Admit, Admits, RdbmsInv
  <2> QED
    BY <1>1, <1>2, <2>1, NoCleanup, PassKeeps
<1>4. CASE Park(b) \/ ReleaseClaim(b) \/ Crash(b)
  <2>1. PassStep(b) /\ pass'[b].at = "idle"
    BY <1>4, PassSteps DEF Park, ReleaseClaim, Crash, Admits, At, RdbmsInv, TypeOK, PassStep
  <2> QED
    BY <1>1, <1>2, <2>1, PassKeeps
<1> QED
  BY <1>3, <1>4

(* The status of a backup that starts.                                     *)
LEMMA PinEdit ==
  ASSUME NEW s \in Status, NEW q \in Pins
  PROVE  LET t == [s EXCEPT !.phase = "Dumping", !.pin = q]
         IN t \in Status /\ t.pin = q /\ t.phase = "Dumping"
BY ZenonT(60) DEF Status

(* A backup that starts pins what the brokers run.                         *)
LEMMA StartKeeps ==
  ASSUME RdbmsInv, NEW b \in Backups, Start(b)
  PROVE  RdbmsInv'
<1>1. /\ life' = life /\ pod' = pod /\ object' = object /\ zeebe' = zeebe /\ job' = job
      /\ uid' = uid /\ present' = present /\ want' = want /\ runs' = runs /\ rolled' = rolled
      /\ cleaner' = cleaner /\ swab' = swab /\ left' = left /\ identity' = identity /\ acts' = acts
      /\ claim' \in Backups \cup {NoHolder} /\ status[b].phase = "Pending" /\ At(b, "start")
  BY RdbmsBackupConstants DEF RdbmsInv, TypeOK, Start, Admits, Give, cluster, dumping, cleaning
<1>2. PassStep(b) /\ pass'[b].at = "idle"
  BY PassSteps DEF Start, RdbmsInv
<1> DEFINE t == [status[b] EXCEPT !.phase = "Dumping", !.pin = [config |-> runs, uid |-> uid]]
<1>3. t \in Status /\ t.pin = [config |-> runs, uid |-> uid] /\ t.phase = "Dumping"
  <2>1. status[b] \in Status /\ [config |-> runs, uid |-> uid] \in Pins
    BY DEF RdbmsInv, TypeOK, Pins
  <2> QED
    BY <2>1, PinEdit
<1>4. Flush(b, t) \/ (status' = status /\ lost' = lost)
  BY DEF Start
<1> HIDE DEF t
<1>5. /\ status' \in [Backups -> Status] /\ lost' \in 0..MaxLost
      /\ \A c \in Backups \ {b} : status'[c] = status[c]
      /\ status'[b] = status[b] \/ (status'[b] = t /\ life[b] = "alive")
  BY <1>3, <1>4, RdbmsBackupConstants DEF RdbmsInv, TypeOK, Flush, Lose
<1>6. TypeOK' /\ Counted'
  BY <1>1, <1>2, <1>5 DEF RdbmsInv, TypeOK, PassStep, Counted, Newer
<1>7. BackupKept(b)'
  <2>1. BackupKept(b)
    BY DEF RdbmsInv
  <2>2. StartsPinned(b)'
    BY <1>1, <1>3, <1>5, <2>1, RdbmsBackupConstants
       DEF RdbmsInv, TypeOK, BackupKept, StartsPinned, Belongs, Newer, NoPin, Config, Numbers
  <2>3. DumpsPinned(b)' /\ DumpStays(b)' /\ WholeIsPinned(b)'
    BY <1>1, <1>2, <1>3, <1>5, <2>1
       DEF BackupKept, StartsPinned, DumpsPinned, DumpStays, WholeIsPinned, At
  <2>4. SeenStays(b)' /\ CleansAlone(b)' /\ FreeIsClean(b)'
    BY <1>1, <1>2, <1>3, <1>5, <2>1 DEF BackupKept, SeenStays, CleansAlone, FreeIsClean, At
  <2> QED
    BY <2>2, <2>3, <2>4 DEF BackupKept
<1> QED
  BY <1>1, <1>2, <1>5, <1>6, <1>7, OneBackupStep DEF PassStep

-----------------------------------------------------------------------------
(* The dump *)

(* An adopted Job moves the backup on when it is done, and never before.   *)
LEMMA AdoptStep ==
  ASSUME RdbmsInv, NEW b \in Backups, status[b].phase = "Dumping", Adopt(b)
  PROVE  \E P \in SUBSET {"ZeebeBackup", "Failed"} :
           StatusStep(b, P) /\ ("ZeebeBackup" \in P => job[b] = "done")
<1> DEFINE s == [status[b] EXCEPT !.job = TRUE]
           t == [s EXCEPT !.phase = "ZeebeBackup"]
<1>1. TypeOK /\ status[b] \in Status
  BY DEF RdbmsInv, TypeOK
<1>2. s \in Status /\ s.pin = status[b].pin /\ s.phase = status[b].phase
  BY <1>1, StatusEdits
<1>3. /\ t \in Status /\ t.pin = status[b].pin /\ t.phase = "ZeebeBackup"
      /\ Recovered(s) \in Status /\ Recovered(s).pin = status[b].pin
      /\ Recovered(s).phase = status[b].phase
  BY <1>2, StatusEdits
<1>4. \/ Fail(b, status[b]) \/ Fail(b, s) \/ HoldRunning(b, s) \/ Flush(b, Recovered(s))
      \/ job[b] = "done" /\ Flush(b, t)
  BY DEF Adopt
<1> HIDE DEF s, t
<1>5. CASE job[b] = "done" /\ Flush(b, t)
  <2>1. StatusStep(b, {"ZeebeBackup"})
    BY <1>1, <1>3, <1>5, FlushStep
  <2> QED
    BY <1>5, <2>1
<1>6. CASE Fail(b, status[b]) \/ Fail(b, s) \/ HoldRunning(b, s) \/ Flush(b, Recovered(s))
  <2>1. StatusStep(b, {"Failed"})
    BY <1>1, <1>2, <1>3, <1>6, FailStep, HoldStep, FlushStep
  <2> QED
    BY <2>1
<1> QED
  BY <1>4, <1>5, <1>6

(* The recorded Job, or one that has the name, decides about the dump.     *)
LEMMA TrackJobKeeps ==
  ASSUME RdbmsInv, NEW b \in Backups, TrackJob(b)
  PROVE  RdbmsInv'
<1>1. /\ life' = life /\ cluster' = cluster /\ pod' = pod /\ object' = object /\ zeebe' = zeebe
      /\ cleaning' = cleaning /\ identity' = identity /\ acts' = acts /\ job' = job
      /\ claim' = claim /\ pass' = pass /\ At(b, "idle") /\ status[b].phase = "Dumping"
  BY DEF TrackJob, Dumps
<1>2. PassStep(b) /\ claim' \in Backups \cup {NoHolder} /\ pass'[b].at = "idle"
  BY <1>1 DEF RdbmsInv, TypeOK, PassStep, At
<1>3. PICK P \in SUBSET {"ZeebeBackup", "Failed"} :
        StatusStep(b, P) /\ ("ZeebeBackup" \in P => job[b] = "done")
  <2>1. CASE Fail(b, status[b])
    <3>1. StatusStep(b, {"Failed"})
      BY <2>1, FailStep DEF RdbmsInv, TypeOK
    <3> QED
      BY <3>1
  <2>2. CASE Adopt(b)
    BY <1>1, <2>2, AdoptStep
  <2> QED
    BY <2>1, <2>2 DEF TrackJob
<1> QED
  BY <1>1, <1>2, <1>3, PassKeeps

(* A pass creates the Job for the database that the backup pinned.         *)
LEMMA ResolveKeeps ==
  ASSUME RdbmsInv, NEW b \in Backups, Resolve(b)
  PROVE  RdbmsInv'
<1>1. /\ life' = life /\ cluster' = cluster /\ pod' = pod /\ object' = object /\ zeebe' = zeebe
      /\ cleaning' = cleaning /\ identity' = identity /\ acts' = acts /\ job' = job
      /\ claim' \in Backups \cup {NoHolder} /\ At(b, "idle") /\ life[b] = "alive"
      /\ status[b].phase = "Dumping" /\ TypeOK /\ status[b] \in Status
  BY DEF Resolve, Dumps, RdbmsInv, TypeOK
<1>2. CASE UNCHANGED pass /\ (Fail(b, status[b]) \/ HoldRunning(b, status[b]))
  <2>1. StatusStep(b, {"Failed"})
    BY <1>1, <1>2, FailStep, HoldStep
  <2>2. PassStep(b) /\ pass'[b].at = "idle"
    BY <1>1, <1>2 DEF TypeOK, PassStep, At
  <2> QED
    BY <1>1, <2>1, <2>2, PassKeeps
<1>3. CASE /\ Resolves(status[b]) /\ UNCHANGED <<status, lost>>
           /\ pass' = [pass EXCEPT ![b] = [Idle EXCEPT !.at = "create", !.db = want.db]]
  <2>1. StatusStep(b, {})
    BY <1>1, <1>3 DEF TypeOK, StatusStep
  <2>2. PassStep(b) /\ pass'[b].at = "create" /\ pass'[b].db = want.db
    BY <1>1, <1>3, StartTypes DEF TypeOK, PassStep, Idle, Passes, Config
  <2>3. want.db = status[b].pin.config.db
    BY <1>3 DEF Resolves
  <2> QED
    BY <1>1, <2>1, <2>2, <2>3, NoCleanup, PassKeeps
<1> QED
  BY <1>2, <1>3 DEF Resolve

(* A created Job dumps the database of the pin.                            *)
LEMMA CreateJobKeeps ==
  ASSUME RdbmsInv, NEW b \in Backups, CreateJob(b)
  PROVE  RdbmsInv'
<1>1. /\ life' = life /\ object' = object /\ zeebe' = zeebe /\ identity' = identity /\ acts' = acts
      /\ uid' = uid /\ present' = present /\ want' = want /\ runs' = runs /\ rolled' = rolled
      /\ cleaner' = cleaner /\ swab' = swab /\ left' = left
      /\ claim' = claim /\ claim \in Backups \cup {NoHolder} /\ At(b, "create")
      /\ status[b].phase = "Dumping" /\ TypeOK /\ status[b] \in Status
  BY DEF CreateJob, RdbmsInv, TypeOK, cluster, cleaning
<1>2. PassStep(b) /\ pass'[b].at = "idle"
  BY <1>1, PassSteps DEF CreateJob
<1>3. CASE job[b] = "none"
  <2> DEFINE s == [status[b] EXCEPT !.job = TRUE]
             q == [at |-> "running", db |-> pass[b].db]
  <2>1. q \in Pods /\ q.db = status[b].pin.config.db /\ q.at = "running"
    BY <1>1 DEF TypeOK, Passes, Pods, RdbmsInv, BackupKept, DumpsPinned
  <2>2. /\ job' = [job EXCEPT ![b] = "active"] /\ pod' = [pod EXCEPT ![b] = q]
        /\ Flush(b, Recovered(s))
    BY <1>3 DEF CreateJob
  <2>3. s \in Status /\ s.pin = status[b].pin /\ s.phase = status[b].phase
    BY <1>1, StatusEdits
  <2> HIDE DEF s, q
  <2>4. StatusStep(b, {})
    <3>1. Recovered(s) \in Status /\ Recovered(s).pin = s.pin /\ Recovered(s).phase = s.phase
      BY <2>3, StatusEdits
    <3> QED
      BY <1>1, <2>2, <2>3, <3>1, FlushStep
  <2>5. /\ pod' \in [Backups -> Pods] /\ pod'[b] = q
        /\ job' \in [Backups -> {"none", "active", "done", "failed", "foreign"}]
        /\ job'[b] = "active"
        /\ \A c \in Backups \ {b} : pod'[c] = pod[c] /\ job'[c] = job[c]
    BY <1>1, <2>1, <2>2 DEF TypeOK
  <2>6. TypeOK' /\ Counted'
    BY <1>1, <1>2, <2>4, <2>5 DEF RdbmsInv, TypeOK, StatusStep, PassStep, Counted, Newer
  <2>7. BackupKept(b)'
    <3>1. BackupKept(b)
      BY DEF RdbmsInv
    <3>2. StartsPinned(b)' /\ DumpsPinned(b)' /\ DumpStays(b)'
      BY <1>1, <1>2, <2>1, <2>4, <2>5, <3>1
         DEF StatusStep, BackupKept, StartsPinned, DumpsPinned, DumpStays, At, Newer
    <3>3. WholeIsPinned(b)' /\ SeenStays(b)'
      BY <1>1, <1>2, <2>4, <3>1 DEF StatusStep, BackupKept, WholeIsPinned, SeenStays, At
    <3>4. CleansAlone(b)' /\ FreeIsClean(b)'
      BY <1>1, <1>2, <3>1, NoCleanup DEF BackupKept, CleansAlone, FreeIsClean, At
    <3> QED
      BY <3>2, <3>3, <3>4 DEF BackupKept
  <2> QED
    BY <1>1, <1>2, <2>4, <2>5, <2>6, <2>7, OneBackupStep DEF StatusStep, PassStep
<1>4. CASE job[b] # "none"
  <2>1. Adopt(b) /\ job' = job /\ pod' = pod /\ cluster' = cluster /\ cleaning' = cleaning
    BY <1>4 DEF CreateJob
  <2>2. PICK P \in SUBSET {"ZeebeBackup", "Failed"} :
          StatusStep(b, P) /\ ("ZeebeBackup" \in P => job[b] = "done")
    BY <1>1, <2>1, AdoptStep
  <2> QED
    BY <1>1, <1>2, <2>1, <2>2, PassKeeps
<1> QED
  BY <1>3, <1>4

-----------------------------------------------------------------------------
(* The finalizer *)

(* The finalizer deletes the dump Job, not its pod.                        *)
LEMMA DeleteJobKeeps ==
  ASSUME RdbmsInv, NEW b \in Backups, DeleteJob(b)
  PROVE  RdbmsInv'
<1>1. /\ uid' = uid /\ present' = present /\ want' = want /\ runs' = runs /\ rolled' = rolled
      /\ life' = life /\ status' = status /\ lost' = lost /\ claim' = claim /\ pass' = pass
      /\ pod' = pod /\ object' = object /\ zeebe' = zeebe /\ cleaner' = cleaner
      /\ swab' = swab /\ left' = left /\ identity' = identity /\ acts' = acts
      /\ TypeOK
  BY DEF RdbmsInv, DeleteJob, Finalizes, cluster, dumping, cleaning, own
<1>2. /\ job' \in [Backups -> {"none", "active", "done", "failed", "foreign"}]
      /\ \A c \in Backups \ {b} : job'[c] = job[c]
      /\ job'[b] = "none"
      /\ At(b, "idle") /\ life[b] = "deleting"
  BY <1>1, StartTypes, RdbmsBackupConstants DEF TypeOK, DeleteJob, Finalizes, At, Belongs
<1>3. TypeOK'
  BY <1>1, <1>2 DEF TypeOK, PassStep
<1>4. Counted'
  BY <1>1, <1>2, RdbmsBackupConstants DEF RdbmsInv, Counted, Newer, TypeOK, Numbers, Config
<1>5. BackupKept(b)
  BY DEF RdbmsInv
<1>6. StartsPinned(b)' /\ DumpsPinned(b)' /\ DumpStays(b)'
  BY <1>1, <1>2, <1>5 DEF BackupKept, StartsPinned, DumpsPinned, DumpStays, CleansAlone,
     FreeIsClean, Belongs, At, Newer, PassStep
<1>7. WholeIsPinned(b)' /\ SeenStays(b)'
  BY <1>1, <1>2, <1>5 DEF BackupKept, WholeIsPinned, SeenStays, At, PassStep
<1>8. CleansAlone(b)' /\ FreeIsClean(b)'
  BY <1>1, <1>2, <1>5 DEF BackupKept, StartsPinned, CleansAlone, FreeIsClean, At, PassStep
<1>9. BackupKept(b)'
  BY <1>6, <1>7, <1>8 DEF BackupKept
<1> QED
  BY <1>1, <1>2, <1>3, <1>4, <1>9, OneBackupStep DEF PassStep

(* What the finalizer leaves, it marks, unless nothing was dumped.         *)
LEMMA LeaveObjectKeeps ==
  ASSUME RdbmsInv, NEW b \in Backups, LeaveObject(b)
  PROVE  RdbmsInv'
<1>1. /\ uid' = uid /\ present' = present /\ want' = want /\ runs' = runs /\ rolled' = rolled
      /\ life' = life /\ status' = status /\ lost' = lost /\ claim' = claim /\ job' = job
      /\ pod' = pod /\ object' = object /\ zeebe' = zeebe /\ cleaner' = cleaner
      /\ swab' = swab /\ identity' = identity /\ acts' = acts
      /\ TypeOK
  BY DEF RdbmsInv, LeaveObject, Finalizes, PodsGone, Pinned, cluster, dumping, cleaning, own
<1>2. /\ PassStep(b) /\ pass'[b].at = "free"
      /\ At(b, "idle") /\ life[b] = "deleting"
      /\ left' \subseteq Backups /\ left \subseteq left'
      /\ b \in left' \/ status[b].pin = NoPin
      /\ pod[b].at = "none"
  BY <1>1, PassSteps, StartTypes, RdbmsBackupConstants DEF TypeOK, LeaveObject, Finalizes,
     PodsGone, Pinned, At, Belongs
<1>3. TypeOK'
  BY <1>1, <1>2 DEF TypeOK, PassStep
<1>4. Counted'
  BY <1>1, <1>2, RdbmsBackupConstants DEF RdbmsInv, Counted, Newer, TypeOK, Numbers, Config
<1>5. BackupKept(b)
  BY DEF RdbmsInv
<1>6. StartsPinned(b)' /\ DumpsPinned(b)' /\ DumpStays(b)'
  BY <1>1, <1>2, <1>5 DEF BackupKept, StartsPinned, DumpsPinned, DumpStays, CleansAlone,
     FreeIsClean, Belongs, At, Newer, PassStep
<1>7. WholeIsPinned(b)' /\ SeenStays(b)'
  BY <1>1, <1>2, <1>5 DEF BackupKept, WholeIsPinned, SeenStays, At, PassStep
<1>8. CleansAlone(b)' /\ FreeIsClean(b)'
  BY <1>1, <1>2, <1>5 DEF BackupKept, StartsPinned, CleansAlone, FreeIsClean, At, PassStep
<1>9. BackupKept(b)'
  BY <1>6, <1>7, <1>8 DEF BackupKept
<1> QED
  BY <1>1, <1>2, <1>3, <1>4, <1>9, OneBackupStep DEF PassStep

(* The manager deletes the object when no pod writes it.                   *)
LEMMA DeleteObjectKeeps ==
  ASSUME RdbmsInv, NEW b \in Backups, DeleteObject(b)
  PROVE  RdbmsInv'
<1>1. /\ uid' = uid /\ present' = present /\ want' = want /\ runs' = runs /\ rolled' = rolled
      /\ life' = life /\ status' = status /\ lost' = lost /\ claim' = claim /\ job' = job
      /\ pod' = pod /\ zeebe' = zeebe /\ cleaner' = cleaner /\ swab' = swab /\ left' = left
      /\ identity' = identity /\ acts' = acts
      /\ TypeOK
  BY DEF RdbmsInv, DeleteObject, Finalizes, PodsGone, cluster, dumping, cleaning, own
<1>2. /\ PassStep(b) /\ pass'[b].at = "free"
      /\ At(b, "idle") /\ life[b] = "deleting"
      /\ object' \in [Backups -> Numbers \cup {0}]
      /\ \A c \in Backups \ {b} : object'[c] = object[c]
      /\ object'[b] = 0
      /\ pod[b].at = "none"
  BY <1>1, PassSteps, StartTypes, RdbmsBackupConstants DEF TypeOK, DeleteObject, Finalizes,
     PodsGone, At, Belongs
<1>3. TypeOK'
  BY <1>1, <1>2 DEF TypeOK, PassStep
<1>4. Counted'
  BY <1>1, <1>2, RdbmsBackupConstants DEF RdbmsInv, Counted, Newer, TypeOK, Numbers, Config
<1>5. BackupKept(b)
  BY DEF RdbmsInv
<1>6. StartsPinned(b)' /\ DumpsPinned(b)' /\ DumpStays(b)'
  BY <1>1, <1>2, <1>5 DEF BackupKept, StartsPinned, DumpsPinned, DumpStays, CleansAlone,
     FreeIsClean, Belongs, At, Newer, PassStep
<1>7. WholeIsPinned(b)' /\ SeenStays(b)'
  BY <1>1, <1>2, <1>5 DEF BackupKept, WholeIsPinned, SeenStays, At, PassStep
<1>8. CleansAlone(b)' /\ FreeIsClean(b)'
  BY <1>1, <1>2, <1>5 DEF BackupKept, StartsPinned, CleansAlone, FreeIsClean, At, PassStep
<1>9. BackupKept(b)'
  BY <1>6, <1>7, <1>8 DEF BackupKept
<1> QED
  BY <1>1, <1>2, <1>3, <1>4, <1>9, OneBackupStep DEF PassStep

(* A cleanup starts when no pod writes the object.                         *)
LEMMA CreateCleanerKeeps ==
  ASSUME RdbmsInv, NEW b \in Backups, CreateCleaner(b)
  PROVE  RdbmsInv'
<1>1. /\ uid' = uid /\ present' = present /\ want' = want /\ runs' = runs /\ rolled' = rolled
      /\ life' = life /\ status' = status /\ lost' = lost /\ claim' = claim /\ pass' = pass
      /\ job' = job /\ pod' = pod /\ object' = object /\ zeebe' = zeebe /\ left' = left
      /\ identity' = identity /\ acts' = acts
      /\ TypeOK
  BY DEF RdbmsInv, CreateCleaner, Finalizes, PodsGone, cluster, dumping, cleaning, own
<1>2. /\ At(b, "idle") /\ life[b] = "deleting"
      /\ cleaner' \in [Backups -> {"none", "active", "done", "failed"}]
      /\ swab' \in [Backups -> {"none", "running", "ended"}]
      /\ \A c \in Backups \ {b} : cleaner'[c] = cleaner[c]
      /\ cleaner'[b] = "active"
      /\ pod[b].at = "none"
  BY <1>1, StartTypes, RdbmsBackupConstants DEF TypeOK, CreateCleaner, Finalizes, PodsGone,
     At, Belongs
<1>3. TypeOK'
  BY <1>1, <1>2 DEF TypeOK, PassStep
<1>4. Counted'
  BY <1>1, <1>2, RdbmsBackupConstants DEF RdbmsInv, Counted, Newer, TypeOK, Numbers, Config
<1>5. BackupKept(b)
  BY DEF RdbmsInv
<1>6. StartsPinned(b)' /\ DumpsPinned(b)' /\ DumpStays(b)'
  BY <1>1, <1>2, <1>5 DEF BackupKept, StartsPinned, DumpsPinned, DumpStays, CleansAlone,
     FreeIsClean, Belongs, At, Newer, PassStep
<1>7. WholeIsPinned(b)' /\ SeenStays(b)'
  BY <1>1, <1>2, <1>5 DEF BackupKept, WholeIsPinned, SeenStays, At, PassStep
<1>8. CleansAlone(b)' /\ FreeIsClean(b)'
  BY <1>1, <1>2, <1>5 DEF BackupKept, StartsPinned, CleansAlone, FreeIsClean, At, PassStep
<1>9. BackupKept(b)'
  BY <1>6, <1>7, <1>8 DEF BackupKept
<1> QED
  BY <1>1, <1>2, <1>3, <1>4, <1>9, OneBackupStep DEF PassStep

(* A completed cleanup removed the object.                                 *)
LEMMA RemoveCleanerKeeps ==
  ASSUME RdbmsInv, NEW b \in Backups, RemoveCleaner(b)
  PROVE  RdbmsInv'
<1>1. /\ uid' = uid /\ present' = present /\ want' = want /\ runs' = runs /\ rolled' = rolled
      /\ life' = life /\ status' = status /\ lost' = lost /\ claim' = claim /\ job' = job
      /\ pod' = pod /\ object' = object /\ zeebe' = zeebe /\ swab' = swab /\ left' = left
      /\ identity' = identity /\ acts' = acts
      /\ TypeOK
  BY DEF RdbmsInv, RemoveCleaner, Finalizes, PodsGone, cluster, dumping, cleaning, own
<1>2. /\ PassStep(b) /\ pass'[b].at = "free"
      /\ At(b, "idle") /\ life[b] = "deleting"
      /\ cleaner' \in [Backups -> {"none", "active", "done", "failed"}]
      /\ \A c \in Backups \ {b} : cleaner'[c] = cleaner[c]
      /\ cleaner'[b] = "none" /\ cleaner[b] = "done"
  BY <1>1, PassSteps, StartTypes, RdbmsBackupConstants DEF TypeOK, RemoveCleaner, Finalizes,
     PodsGone, At, Belongs
<1>3. TypeOK'
  BY <1>1, <1>2 DEF TypeOK, PassStep
<1>4. Counted'
  BY <1>1, <1>2, RdbmsBackupConstants DEF RdbmsInv, Counted, Newer, TypeOK, Numbers, Config
<1>5. BackupKept(b)
  BY DEF RdbmsInv
<1>6. StartsPinned(b)' /\ DumpsPinned(b)' /\ DumpStays(b)'
  BY <1>1, <1>2, <1>5 DEF BackupKept, StartsPinned, DumpsPinned, DumpStays, CleansAlone,
     FreeIsClean, Belongs, At, Newer, PassStep
<1>7. WholeIsPinned(b)' /\ SeenStays(b)'
  BY <1>1, <1>2, <1>5 DEF BackupKept, WholeIsPinned, SeenStays, At, PassStep
<1>8. CleansAlone(b)' /\ FreeIsClean(b)'
  BY <1>1, <1>2, <1>5 DEF BackupKept, StartsPinned, CleansAlone, FreeIsClean, At, PassStep
<1>9. BackupKept(b)'
  BY <1>6, <1>7, <1>8 DEF BackupKept
<1> QED
  BY <1>1, <1>2, <1>3, <1>4, <1>9, OneBackupStep DEF PassStep

(* The finalizer goes last.                                                *)
LEMMA RemoveFinalizerKeeps ==
  ASSUME RdbmsInv, NEW b \in Backups, RemoveFinalizer(b)
  PROVE  RdbmsInv'
<1>1. /\ uid' = uid /\ present' = present /\ want' = want /\ runs' = runs /\ rolled' = rolled
      /\ status' = status /\ lost' = lost /\ job' = job /\ pod' = pod /\ object' = object
      /\ zeebe' = zeebe /\ cleaner' = cleaner /\ swab' = swab /\ left' = left
      /\ identity' = identity /\ acts' = acts
      /\ TypeOK
  BY DEF RdbmsInv, RemoveFinalizer, Finalizes, Give, cluster, dumping, cleaning, own
<1>2. /\ PassStep(b) /\ pass'[b].at = "idle" /\ At(b, "free")
      /\ claim' \in Backups \cup {NoHolder}
      /\ life' \in [Backups -> {"absent", "alive", "deleting", "gone"}] /\ life'[b] = "gone"
      /\ \A c \in Backups \ {b} : life'[c] = life[c]
  BY <1>1, PassSteps, StartTypes, RdbmsBackupConstants DEF TypeOK, RemoveFinalizer,
     Finalizes, Give, At, Belongs
<1>3. TypeOK'
  BY <1>1, <1>2 DEF TypeOK, PassStep
<1>4. Counted'
  BY <1>1, <1>2, RdbmsBackupConstants DEF RdbmsInv, Counted, Newer, TypeOK, Numbers, Config
<1>5. BackupKept(b)
  BY DEF RdbmsInv
<1>6. StartsPinned(b)' /\ DumpsPinned(b)' /\ DumpStays(b)'
  BY <1>1, <1>2, <1>5 DEF BackupKept, StartsPinned, DumpsPinned, DumpStays, CleansAlone,
     FreeIsClean, Belongs, At, Newer, PassStep
<1>7. WholeIsPinned(b)' /\ SeenStays(b)'
  BY <1>1, <1>2, <1>5 DEF BackupKept, WholeIsPinned, SeenStays, At, PassStep
<1>8. CleansAlone(b)' /\ FreeIsClean(b)'
  BY <1>1, <1>2, <1>5 DEF BackupKept, StartsPinned, CleansAlone, FreeIsClean, At, PassStep
<1>9. BackupKept(b)'
  BY <1>6, <1>7, <1>8 DEF BackupKept
<1> QED
  BY <1>1, <1>2, <1>3, <1>4, <1>9, OneBackupStep DEF PassStep

-----------------------------------------------------------------------------
(* Jobs, pods and users *)

(* A pod uploads the database of the pin, while no cleanup runs.           *)
LEMMA UploadKeeps ==
  ASSUME RdbmsInv, NEW b \in Backups, Upload(b)
  PROVE  RdbmsInv'
<1>1. /\ uid' = uid /\ present' = present /\ want' = want /\ runs' = runs /\ rolled' = rolled
      /\ life' = life /\ status' = status /\ lost' = lost /\ claim' = claim /\ pass' = pass
      /\ job' = job /\ pod' = pod /\ zeebe' = zeebe /\ cleaner' = cleaner /\ swab' = swab
      /\ left' = left /\ identity' = identity /\ acts' = acts
      /\ TypeOK
  BY DEF RdbmsInv, Upload, Pods, Numbers, cluster, dumping, cleaning, own
<1>2. /\ object' \in [Backups -> Numbers \cup {0}]
      /\ \A c \in Backups \ {b} : object'[c] = object[c]
      /\ object'[b] = pod[b].db /\ object'[b] # 0
      /\ pod[b].at = "running"
  BY <1>1, StartTypes, RdbmsBackupConstants DEF TypeOK, Upload, Pods, Numbers, At, Belongs
<1>3. TypeOK'
  BY <1>1, <1>2 DEF TypeOK, PassStep
<1>4. Counted'
  BY <1>1, <1>2, RdbmsBackupConstants DEF RdbmsInv, Counted, Newer, TypeOK, Numbers, Config
<1>5. BackupKept(b)
  BY DEF RdbmsInv
<1>6. StartsPinned(b)' /\ DumpsPinned(b)' /\ DumpStays(b)'
  BY <1>1, <1>2, <1>5 DEF BackupKept, StartsPinned, DumpsPinned, DumpStays, CleansAlone,
     FreeIsClean, Belongs, At, Newer, PassStep
<1>7. WholeIsPinned(b)' /\ SeenStays(b)'
  BY <1>1, <1>2, <1>5 DEF BackupKept, WholeIsPinned, SeenStays, At, PassStep
<1>8. CleansAlone(b)' /\ FreeIsClean(b)'
  BY <1>1, <1>2, <1>5 DEF BackupKept, StartsPinned, CleansAlone, FreeIsClean, At, PassStep
<1>9. BackupKept(b)'
  BY <1>6, <1>7, <1>8 DEF BackupKept
<1> QED
  BY <1>1, <1>2, <1>3, <1>4, <1>9, OneBackupStep DEF PassStep

(* A Job is done when its pod uploaded.                                    *)
LEMMA EndJobKeeps ==
  ASSUME RdbmsInv, NEW b \in Backups, EndJob(b)
  PROVE  RdbmsInv'
<1>1. /\ uid' = uid /\ present' = present /\ want' = want /\ runs' = runs /\ rolled' = rolled
      /\ life' = life /\ status' = status /\ lost' = lost /\ claim' = claim /\ pass' = pass
      /\ object' = object /\ zeebe' = zeebe /\ cleaner' = cleaner /\ swab' = swab
      /\ left' = left /\ identity' = identity /\ acts' = acts
      /\ TypeOK
  BY DEF RdbmsInv, EndJob, Pods, Numbers, cluster, dumping, cleaning, own
<1>2. /\ pod' \in [Backups -> Pods]
      /\ job' \in [Backups -> {"none", "active", "done", "failed", "foreign"}]
      /\ \A c \in Backups \ {b} : pod'[c] = pod[c] /\ job'[c] = job[c]
      /\ pod'[b].db = pod[b].db /\ pod[b].at # "none" /\ job[b] = "active"
      /\ \/ job'[b] = "failed"
         \/ job'[b] = "done" /\ object[b] = pod[b].db /\ object[b] # 0
  <2> DEFINE q == [pod[b] EXCEPT !.at = "ended"]
  <2>1. q \in Pods /\ q.db = pod[b].db /\ q.db \in Numbers /\ q.db # 0
    BY <1>1 DEF TypeOK, Pods, Numbers
  <2>2. pod' = [pod EXCEPT ![b] = q]
    BY DEF EndJob
  <2> HIDE DEF q
  <2>3. pod' \in [Backups -> Pods] /\ pod'[b] = q /\ \A c \in Backups \ {b} : pod'[c] = pod[c]
    BY <1>1, <2>1, <2>2 DEF TypeOK
  <2> QED
    BY <1>1, <2>1, <2>3 DEF EndJob, TypeOK
<1>3. TypeOK'
  BY <1>1, <1>2 DEF TypeOK, PassStep
<1>4. Counted'
  BY <1>1, <1>2, RdbmsBackupConstants DEF RdbmsInv, Counted, Newer, TypeOK, Numbers, Config
<1>5. BackupKept(b)
  BY DEF RdbmsInv
<1>6. StartsPinned(b)' /\ DumpsPinned(b)' /\ DumpStays(b)'
  BY <1>1, <1>2, <1>5 DEF BackupKept, StartsPinned, DumpsPinned, DumpStays, CleansAlone,
     FreeIsClean, Belongs, At, Newer, PassStep
<1>7. WholeIsPinned(b)' /\ SeenStays(b)'
  BY <1>1, <1>2, <1>5 DEF BackupKept, WholeIsPinned, SeenStays, At, PassStep
<1>8. CleansAlone(b)' /\ FreeIsClean(b)'
  BY <1>1, <1>2, <1>5 DEF BackupKept, StartsPinned, CleansAlone, FreeIsClean, At, PassStep
<1>9. BackupKept(b)'
  BY <1>6, <1>7, <1>8 DEF BackupKept
<1> QED
  BY <1>1, <1>2, <1>3, <1>4, <1>9, OneBackupStep DEF PassStep

(* A pod that is collected writes nothing any more.                        *)
LEMMA CollectPodKeeps ==
  ASSUME RdbmsInv, NEW b \in Backups, CollectPod(b)
  PROVE  RdbmsInv'
<1>1. /\ uid' = uid /\ present' = present /\ want' = want /\ runs' = runs /\ rolled' = rolled
      /\ life' = life /\ status' = status /\ lost' = lost /\ claim' = claim /\ pass' = pass
      /\ job' = job /\ object' = object /\ zeebe' = zeebe /\ cleaner' = cleaner
      /\ swab' = swab /\ left' = left /\ identity' = identity /\ acts' = acts
      /\ TypeOK
  BY DEF RdbmsInv, CollectPod, NoPod, cluster, dumping, cleaning, own
<1>2. /\ pod' \in [Backups -> Pods]
      /\ \A c \in Backups \ {b} : pod'[c] = pod[c]
      /\ pod'[b].at = "none"
  BY <1>1, StartTypes, RdbmsBackupConstants DEF TypeOK, CollectPod, NoPod, At, Belongs
<1>3. TypeOK'
  BY <1>1, <1>2 DEF TypeOK, PassStep
<1>4. Counted'
  BY <1>1, <1>2, RdbmsBackupConstants DEF RdbmsInv, Counted, Newer, TypeOK, Numbers, Config
<1>5. BackupKept(b)
  BY DEF RdbmsInv
<1>6. StartsPinned(b)' /\ DumpsPinned(b)' /\ DumpStays(b)'
  BY <1>1, <1>2, <1>5 DEF BackupKept, StartsPinned, DumpsPinned, DumpStays, CleansAlone,
     FreeIsClean, Belongs, At, Newer, PassStep
<1>7. WholeIsPinned(b)' /\ SeenStays(b)'
  BY <1>1, <1>2, <1>5 DEF BackupKept, WholeIsPinned, SeenStays, At, PassStep
<1>8. CleansAlone(b)' /\ FreeIsClean(b)'
  BY <1>1, <1>2, <1>5 DEF BackupKept, StartsPinned, CleansAlone, FreeIsClean, At, PassStep
<1>9. BackupKept(b)'
  BY <1>6, <1>7, <1>8 DEF BackupKept
<1> QED
  BY <1>1, <1>2, <1>3, <1>4, <1>9, OneBackupStep DEF PassStep

(* A cleanup that is done removed the object.                              *)
LEMMA EndCleanerKeeps ==
  ASSUME RdbmsInv, NEW b \in Backups, EndCleaner(b)
  PROVE  RdbmsInv'
<1>1. /\ uid' = uid /\ present' = present /\ want' = want /\ runs' = runs /\ rolled' = rolled
      /\ life' = life /\ status' = status /\ lost' = lost /\ claim' = claim /\ pass' = pass
      /\ job' = job /\ pod' = pod /\ zeebe' = zeebe /\ left' = left /\ identity' = identity
      /\ acts' = acts
      /\ TypeOK
  BY DEF RdbmsInv, EndCleaner, cluster, dumping, cleaning, own
<1>2. /\ swab' \in [Backups -> {"none", "running", "ended"}]
      /\ cleaner' \in [Backups -> {"none", "active", "done", "failed"}]
      /\ object' \in [Backups -> Numbers \cup {0}]
      /\ \A c \in Backups \ {b} : cleaner'[c] = cleaner[c] /\ object'[c] = object[c]
      /\ cleaner[b] = "active" /\ cleaner'[b] \in {"done", "failed"}
      /\ object'[b] = object[b] \/ object'[b] = 0
      /\ cleaner'[b] = "done" => object'[b] = 0
  BY ZenonT(60), <1>1, StartTypes, RdbmsBackupConstants DEF TypeOK, EndCleaner, At, Belongs
<1>3. TypeOK'
  BY <1>1, <1>2 DEF TypeOK, PassStep
<1>4. Counted'
  BY <1>1, <1>2, RdbmsBackupConstants DEF RdbmsInv, Counted, Newer, TypeOK, Numbers, Config
<1>5. BackupKept(b)
  BY DEF RdbmsInv
<1>6. StartsPinned(b)' /\ DumpsPinned(b)' /\ DumpStays(b)'
  BY <1>1, <1>2, <1>5 DEF BackupKept, StartsPinned, DumpsPinned, DumpStays, CleansAlone,
     FreeIsClean, Belongs, At, Newer, PassStep
<1>7. WholeIsPinned(b)' /\ SeenStays(b)'
  BY <1>1, <1>2, <1>5 DEF BackupKept, WholeIsPinned, SeenStays, At, PassStep
<1>8. CleansAlone(b)' /\ FreeIsClean(b)'
  BY <1>1, <1>2, <1>5 DEF BackupKept, StartsPinned, CleansAlone, FreeIsClean, At, PassStep
<1>9. BackupKept(b)'
  BY <1>6, <1>7, <1>8 DEF BackupKept
<1> QED
  BY <1>1, <1>2, <1>3, <1>4, <1>9, OneBackupStep DEF PassStep

(* The pod of a cleanup is no part of the invariant.                       *)
LEMMA CollectSwabKeeps ==
  ASSUME RdbmsInv, NEW b \in Backups, CollectSwab(b)
  PROVE  RdbmsInv'
<1>1. /\ uid' = uid /\ present' = present /\ want' = want /\ runs' = runs /\ rolled' = rolled
      /\ life' = life /\ status' = status /\ lost' = lost /\ claim' = claim /\ pass' = pass
      /\ job' = job /\ pod' = pod /\ object' = object /\ zeebe' = zeebe /\ cleaner' = cleaner
      /\ left' = left /\ identity' = identity /\ acts' = acts
      /\ TypeOK
  BY DEF RdbmsInv, CollectSwab, cluster, dumping, cleaning, own
<1>2. /\ swab' \in [Backups -> {"none", "running", "ended"}]
  BY <1>1, StartTypes, RdbmsBackupConstants DEF TypeOK, CollectSwab, At, Belongs
<1>3. TypeOK'
  BY <1>1, <1>2 DEF TypeOK, PassStep
<1>4. Counted'
  BY <1>1, <1>2, RdbmsBackupConstants DEF RdbmsInv, Counted, Newer, TypeOK, Numbers, Config
<1>5. BackupKept(b)
  BY DEF RdbmsInv
<1>6. StartsPinned(b)' /\ DumpsPinned(b)' /\ DumpStays(b)'
  BY <1>1, <1>2, <1>5 DEF BackupKept, StartsPinned, DumpsPinned, DumpStays, CleansAlone,
     FreeIsClean, Belongs, At, Newer, PassStep
<1>7. WholeIsPinned(b)' /\ SeenStays(b)'
  BY <1>1, <1>2, <1>5 DEF BackupKept, WholeIsPinned, SeenStays, At, PassStep
<1>8. CleansAlone(b)' /\ FreeIsClean(b)'
  BY <1>1, <1>2, <1>5 DEF BackupKept, StartsPinned, CleansAlone, FreeIsClean, At, PassStep
<1>9. BackupKept(b)'
  BY <1>6, <1>7, <1>8 DEF BackupKept
<1> QED
  BY <1>1, <1>2, <1>3, <1>4, <1>9, OneBackupStep DEF PassStep

(* The pod of a cleanup is no part of the invariant.                       *)
LEMMA RemovePodKeeps ==
  ASSUME RdbmsInv, NEW b \in Backups, RemovePod(b)
  PROVE  RdbmsInv'
<1>1. /\ uid' = uid /\ present' = present /\ want' = want /\ runs' = runs /\ rolled' = rolled
      /\ life' = life /\ status' = status /\ lost' = lost /\ claim' = claim /\ pass' = pass
      /\ job' = job /\ pod' = pod /\ object' = object /\ zeebe' = zeebe /\ cleaner' = cleaner
      /\ left' = left /\ identity' = identity /\ acts' = acts
      /\ TypeOK
  BY DEF RdbmsInv, RemovePod, cluster, dumping, cleaning, own
<1>2. /\ swab' \in [Backups -> {"none", "running", "ended"}]
  BY <1>1, StartTypes, RdbmsBackupConstants DEF TypeOK, RemovePod, At, Belongs
<1>3. TypeOK'
  BY <1>1, <1>2 DEF TypeOK, PassStep
<1>4. Counted'
  BY <1>1, <1>2, RdbmsBackupConstants DEF RdbmsInv, Counted, Newer, TypeOK, Numbers, Config
<1>5. BackupKept(b)
  BY DEF RdbmsInv
<1>6. StartsPinned(b)' /\ DumpsPinned(b)' /\ DumpStays(b)'
  BY <1>1, <1>2, <1>5 DEF BackupKept, StartsPinned, DumpsPinned, DumpStays, CleansAlone,
     FreeIsClean, Belongs, At, Newer, PassStep
<1>7. WholeIsPinned(b)' /\ SeenStays(b)'
  BY <1>1, <1>2, <1>5 DEF BackupKept, WholeIsPinned, SeenStays, At, PassStep
<1>8. CleansAlone(b)' /\ FreeIsClean(b)'
  BY <1>1, <1>2, <1>5 DEF BackupKept, StartsPinned, CleansAlone, FreeIsClean, At, PassStep
<1>9. BackupKept(b)'
  BY <1>6, <1>7, <1>8 DEF BackupKept
<1> QED
  BY <1>1, <1>2, <1>3, <1>4, <1>9, OneBackupStep DEF PassStep

(* A failed cleanup is tried again.                                        *)
LEMMA RetryCleanerKeeps ==
  ASSUME RdbmsInv, NEW b \in Backups, RetryCleaner(b)
  PROVE  RdbmsInv'
<1>1. /\ uid' = uid /\ present' = present /\ want' = want /\ runs' = runs /\ rolled' = rolled
      /\ life' = life /\ status' = status /\ lost' = lost /\ claim' = claim /\ pass' = pass
      /\ job' = job /\ pod' = pod /\ object' = object /\ zeebe' = zeebe /\ swab' = swab
      /\ left' = left /\ identity' = identity /\ acts' = acts
      /\ TypeOK
  BY DEF RdbmsInv, RetryCleaner, cluster, dumping, cleaning, own
<1>2. /\ cleaner' \in [Backups -> {"none", "active", "done", "failed"}]
      /\ \A c \in Backups \ {b} : cleaner'[c] = cleaner[c]
      /\ cleaner'[b] = "none"
  BY <1>1, StartTypes, RdbmsBackupConstants DEF TypeOK, RetryCleaner, At, Belongs
<1>3. TypeOK'
  BY <1>1, <1>2 DEF TypeOK, PassStep
<1>4. Counted'
  BY <1>1, <1>2, RdbmsBackupConstants DEF RdbmsInv, Counted, Newer, TypeOK, Numbers, Config
<1>5. BackupKept(b)
  BY DEF RdbmsInv
<1>6. StartsPinned(b)' /\ DumpsPinned(b)' /\ DumpStays(b)'
  BY <1>1, <1>2, <1>5 DEF BackupKept, StartsPinned, DumpsPinned, DumpStays, CleansAlone,
     FreeIsClean, Belongs, At, Newer, PassStep
<1>7. WholeIsPinned(b)' /\ SeenStays(b)'
  BY <1>1, <1>2, <1>5 DEF BackupKept, WholeIsPinned, SeenStays, At, PassStep
<1>8. CleansAlone(b)' /\ FreeIsClean(b)'
  BY <1>1, <1>2, <1>5 DEF BackupKept, StartsPinned, CleansAlone, FreeIsClean, At, PassStep
<1>9. BackupKept(b)'
  BY <1>6, <1>7, <1>8 DEF BackupKept
<1> QED
  BY <1>1, <1>2, <1>3, <1>4, <1>9, OneBackupStep DEF PassStep

(* A Zeebe backup that ends stays as it is.                                *)
LEMMA ProgressKeeps ==
  ASSUME RdbmsInv, NEW b \in Backups, Progress(b)
  PROVE  RdbmsInv'
<1>1. /\ uid' = uid /\ present' = present /\ want' = want /\ runs' = runs /\ rolled' = rolled
      /\ life' = life /\ status' = status /\ lost' = lost /\ claim' = claim /\ pass' = pass
      /\ job' = job /\ pod' = pod /\ object' = object /\ cleaner' = cleaner /\ swab' = swab
      /\ left' = left /\ identity' = identity /\ acts' = acts
      /\ TypeOK
  BY DEF RdbmsInv, Progress, Zeebe, cluster, dumping, cleaning, own
<1>2. /\ zeebe' \in [Backups -> [state: Zeebe, whole: BOOLEAN, uid: Numbers]]
      /\ \A c \in Backups \ {b} : zeebe'[c] = zeebe[c]
      /\ zeebe[b].state \notin {"none", "completed"} /\ zeebe'[b].state # "none"
      /\ zeebe'[b].whole = zeebe[b].whole /\ zeebe'[b].uid = zeebe[b].uid
  <2>1. PICK s \in Zeebe \ {"none"} : zeebe' = [zeebe EXCEPT ![b].state = s]
    BY DEF Progress, Zeebe
  <2> DEFINE q == [zeebe[b] EXCEPT !.state = s]
  <2>2. /\ q \in [state: Zeebe, whole: BOOLEAN, uid: Numbers]
        /\ q.state = s /\ q.whole = zeebe[b].whole /\ q.uid = zeebe[b].uid
    BY <1>1 DEF TypeOK
  <2>3. zeebe' = [zeebe EXCEPT ![b] = q]
    BY <2>1
  <2> HIDE DEF q
  <2> QED
    BY <1>1, <2>1, <2>2, <2>3 DEF TypeOK, Progress
<1>3. TypeOK'
  BY <1>1, <1>2 DEF TypeOK, PassStep
<1>4. Counted'
  BY <1>1, <1>2, RdbmsBackupConstants DEF RdbmsInv, Counted, Newer, TypeOK, Numbers, Config
<1>5. BackupKept(b)
  BY DEF RdbmsInv
<1>6. StartsPinned(b)' /\ DumpsPinned(b)' /\ DumpStays(b)'
  BY <1>1, <1>2, <1>5 DEF BackupKept, StartsPinned, DumpsPinned, DumpStays, CleansAlone,
     FreeIsClean, Belongs, At, Newer, PassStep
<1>7. WholeIsPinned(b)' /\ SeenStays(b)'
  BY <1>1, <1>2, <1>5 DEF BackupKept, WholeIsPinned, SeenStays, At, PassStep
<1>8. CleansAlone(b)' /\ FreeIsClean(b)'
  BY <1>1, <1>2, <1>5 DEF BackupKept, StartsPinned, CleansAlone, FreeIsClean, At, PassStep
<1>9. BackupKept(b)'
  BY <1>6, <1>7, <1>8 DEF BackupKept
<1> QED
  BY <1>1, <1>2, <1>3, <1>4, <1>9, OneBackupStep DEF PassStep

(* A foreign Job has the name of a backup that has none.                   *)
LEMMA ForeignJobKeeps ==
  ASSUME RdbmsInv, NEW b \in Backups, ForeignJob(b)
  PROVE  RdbmsInv'
<1>1. /\ uid' = uid /\ present' = present /\ want' = want /\ runs' = runs /\ rolled' = rolled
      /\ life' = life /\ status' = status /\ lost' = lost /\ claim' = claim /\ pass' = pass
      /\ pod' = pod /\ object' = object /\ zeebe' = zeebe /\ cleaner' = cleaner
      /\ swab' = swab /\ left' = left /\ identity' = identity
      /\ TypeOK
  BY DEF RdbmsInv, ForeignJob, Act, cluster, dumping, cleaning, own
<1>2. /\ job' \in [Backups -> {"none", "active", "done", "failed", "foreign"}]
      /\ \A c \in Backups \ {b} : job'[c] = job[c]
      /\ job'[b] = "foreign" /\ job[b] = "none"
      /\ acts' \in 0..MaxActs /\ acts' = acts + 1
  BY <1>1, StartTypes, RdbmsBackupConstants DEF TypeOK, ForeignJob, Act, At, Belongs
<1>3. TypeOK'
  BY <1>1, <1>2 DEF TypeOK, PassStep
<1>4. Counted'
  BY <1>1, <1>2, RdbmsBackupConstants DEF RdbmsInv, Counted, Newer, TypeOK, Numbers, Config
<1>5. BackupKept(b)
  BY DEF RdbmsInv
<1>6. StartsPinned(b)' /\ DumpsPinned(b)' /\ DumpStays(b)'
  BY <1>1, <1>2, <1>5 DEF BackupKept, StartsPinned, DumpsPinned, DumpStays, CleansAlone,
     FreeIsClean, Belongs, At, Newer, PassStep
<1>7. WholeIsPinned(b)' /\ SeenStays(b)'
  BY <1>1, <1>2, <1>5 DEF BackupKept, WholeIsPinned, SeenStays, At, PassStep
<1>8. CleansAlone(b)' /\ FreeIsClean(b)'
  BY <1>1, <1>2, <1>5 DEF BackupKept, StartsPinned, CleansAlone, FreeIsClean, At, PassStep
<1>9. BackupKept(b)'
  BY <1>6, <1>7, <1>8 DEF BackupKept
<1> QED
  BY <1>1, <1>2, <1>3, <1>4, <1>9, OneBackupStep DEF PassStep

(* Somebody removes a Job.                                                 *)
LEMMA RemoveJobKeeps ==
  ASSUME RdbmsInv, NEW b \in Backups, RemoveJob(b)
  PROVE  RdbmsInv'
<1>1. /\ uid' = uid /\ present' = present /\ want' = want /\ runs' = runs /\ rolled' = rolled
      /\ life' = life /\ status' = status /\ lost' = lost /\ claim' = claim /\ pass' = pass
      /\ pod' = pod /\ object' = object /\ zeebe' = zeebe /\ cleaner' = cleaner
      /\ swab' = swab /\ left' = left /\ identity' = identity
      /\ TypeOK
  BY DEF RdbmsInv, RemoveJob, Act, cluster, dumping, cleaning, own
<1>2. /\ job' \in [Backups -> {"none", "active", "done", "failed", "foreign"}]
      /\ \A c \in Backups \ {b} : job'[c] = job[c]
      /\ job'[b] = "none"
      /\ acts' \in 0..MaxActs /\ acts' = acts + 1
  BY <1>1, StartTypes, RdbmsBackupConstants DEF TypeOK, RemoveJob, Act, At, Belongs
<1>3. TypeOK'
  BY <1>1, <1>2 DEF TypeOK, PassStep
<1>4. Counted'
  BY <1>1, <1>2, RdbmsBackupConstants DEF RdbmsInv, Counted, Newer, TypeOK, Numbers, Config
<1>5. BackupKept(b)
  BY DEF RdbmsInv
<1>6. StartsPinned(b)' /\ DumpsPinned(b)' /\ DumpStays(b)'
  BY <1>1, <1>2, <1>5 DEF BackupKept, StartsPinned, DumpsPinned, DumpStays, CleansAlone,
     FreeIsClean, Belongs, At, Newer, PassStep
<1>7. WholeIsPinned(b)' /\ SeenStays(b)'
  BY <1>1, <1>2, <1>5 DEF BackupKept, WholeIsPinned, SeenStays, At, PassStep
<1>8. CleansAlone(b)' /\ FreeIsClean(b)'
  BY <1>1, <1>2, <1>5 DEF BackupKept, StartsPinned, CleansAlone, FreeIsClean, At, PassStep
<1>9. BackupKept(b)'
  BY <1>6, <1>7, <1>8 DEF BackupKept
<1> QED
  BY <1>1, <1>2, <1>3, <1>4, <1>9, OneBackupStep DEF PassStep

(* A user creates the backup.                                              *)
LEMMA SubmitKeeps ==
  ASSUME RdbmsInv, NEW b \in Backups, Submit(b)
  PROVE  RdbmsInv'
<1>1. /\ uid' = uid /\ present' = present /\ want' = want /\ runs' = runs /\ rolled' = rolled
      /\ status' = status /\ lost' = lost /\ claim' = claim /\ pass' = pass /\ job' = job
      /\ pod' = pod /\ object' = object /\ zeebe' = zeebe /\ cleaner' = cleaner
      /\ swab' = swab /\ left' = left /\ identity' = identity /\ acts' = acts
      /\ TypeOK
  BY DEF RdbmsInv, Submit, cluster, dumping, cleaning, own
<1>2. /\ life' \in [Backups -> {"absent", "alive", "deleting", "gone"}]
      /\ \A c \in Backups \ {b} : life'[c] = life[c]
      /\ life[b] = "absent" /\ life'[b] = "alive"
  BY <1>1, StartTypes, RdbmsBackupConstants DEF TypeOK, Submit, At, Belongs
<1>3. TypeOK'
  BY <1>1, <1>2 DEF TypeOK, PassStep
<1>4. Counted'
  BY <1>1, <1>2, RdbmsBackupConstants DEF RdbmsInv, Counted, Newer, TypeOK, Numbers, Config
<1>5. BackupKept(b)
  BY DEF RdbmsInv
<1>6. StartsPinned(b)' /\ DumpsPinned(b)' /\ DumpStays(b)'
  BY <1>1, <1>2, <1>5 DEF BackupKept, StartsPinned, DumpsPinned, DumpStays, CleansAlone,
     FreeIsClean, Belongs, At, Newer, PassStep
<1>7. WholeIsPinned(b)' /\ SeenStays(b)'
  BY <1>1, <1>2, <1>5 DEF BackupKept, WholeIsPinned, SeenStays, At, PassStep
<1>8. CleansAlone(b)' /\ FreeIsClean(b)'
  BY <1>1, <1>2, <1>5 DEF BackupKept, StartsPinned, CleansAlone, FreeIsClean, At, PassStep
<1>9. BackupKept(b)'
  BY <1>6, <1>7, <1>8 DEF BackupKept
<1> QED
  BY <1>1, <1>2, <1>3, <1>4, <1>9, OneBackupStep DEF PassStep

(* A user deletes the backup.                                              *)
LEMMA DeleteKeeps ==
  ASSUME RdbmsInv, NEW b \in Backups, Delete(b)
  PROVE  RdbmsInv'
<1>1. /\ uid' = uid /\ present' = present /\ want' = want /\ runs' = runs /\ rolled' = rolled
      /\ status' = status /\ lost' = lost /\ claim' = claim /\ pass' = pass /\ job' = job
      /\ pod' = pod /\ object' = object /\ zeebe' = zeebe /\ cleaner' = cleaner
      /\ swab' = swab /\ left' = left /\ identity' = identity /\ acts' = acts
      /\ TypeOK
  BY DEF RdbmsInv, Delete, cluster, dumping, cleaning, own
<1>2. /\ life' \in [Backups -> {"absent", "alive", "deleting", "gone"}]
      /\ \A c \in Backups \ {b} : life'[c] = life[c]
      /\ life[b] = "alive" /\ life'[b] = "deleting"
  BY <1>1, StartTypes, RdbmsBackupConstants DEF TypeOK, Delete, At, Belongs
<1>3. TypeOK'
  BY <1>1, <1>2 DEF TypeOK, PassStep
<1>4. Counted'
  BY <1>1, <1>2, RdbmsBackupConstants DEF RdbmsInv, Counted, Newer, TypeOK, Numbers, Config
<1>5. BackupKept(b)
  BY DEF RdbmsInv
<1>6. StartsPinned(b)' /\ DumpsPinned(b)' /\ DumpStays(b)'
  BY <1>1, <1>2, <1>5 DEF BackupKept, StartsPinned, DumpsPinned, DumpStays, CleansAlone,
     FreeIsClean, Belongs, At, Newer, PassStep
<1>7. WholeIsPinned(b)' /\ SeenStays(b)'
  BY <1>1, <1>2, <1>5 DEF BackupKept, WholeIsPinned, SeenStays, At, PassStep
<1>8. CleansAlone(b)' /\ FreeIsClean(b)'
  BY <1>1, <1>2, <1>5 DEF BackupKept, StartsPinned, CleansAlone, FreeIsClean, At, PassStep
<1>9. BackupKept(b)'
  BY <1>6, <1>7, <1>8 DEF BackupKept
<1> QED
  BY <1>1, <1>2, <1>3, <1>4, <1>9, OneBackupStep DEF PassStep
-----------------------------------------------------------------------------
(* The Zeebe backup *)

(* What a pass of the step ZeebeBackup reads and leaves.                   *)
LEMMA AsksFacts ==
  ASSUME RdbmsInv, NEW b \in Backups, NEW p \in {"idle", "request", "judge"}, Asks(b, p)
  PROVE  /\ life' = life /\ cluster' = cluster /\ pod' = pod /\ object' = object
         /\ cleaning' = cleaning /\ identity' = identity /\ acts' = acts /\ claim' = claim
         /\ claim' \in Backups \cup {NoHolder} /\ At(b, p) /\ life[b] # "gone"
         /\ status[b].phase = "ZeebeBackup" /\ TypeOK /\ cleaner[b] = "none"
         /\ LET s == [status[b] EXCEPT !.job = FALSE]
            IN s \in Status /\ s.pin = status[b].pin /\ s.phase = status[b].phase
<1>1. TypeOK /\ status[b] \in Status
  BY DEF RdbmsInv, TypeOK
<1>2. life[b] # "gone" /\ cleaner[b] = "none"
  BY NoCleanup DEF Asks, At
<1> QED
  BY <1>1, <1>2, StatusEdits DEF Asks, TypeOK

(* releaseJob removes the own Job at most.                                 *)
LEMMA ReleaseStep ==
  ASSUME NEW b \in Backups, ReleaseJob(b)
  PROVE  job' = job \/ job' = [job EXCEPT ![b] = "none"]
BY DEF ReleaseJob

(* A lost cluster fails the backup, or holds it.                           *)
LEMMA LoseClusterKeeps ==
  ASSUME RdbmsInv, NEW b \in Backups, LoseCluster(b)
  PROVE  RdbmsInv'
<1>1. Asks(b, "idle") /\ pass' = pass /\ job' = job /\ zeebe' = zeebe
  BY DEF LoseCluster
<1>2. StatusStep(b, {"Failed"})
  BY <1>1, AsksFacts, FailStep, HoldStep DEF LoseCluster, TypeOK
<1>3. PassStep(b) /\ pass'[b].at = "idle"
  BY <1>1, AsksFacts DEF TypeOK, PassStep, At
<1> QED
  BY <1>1, <1>2, <1>3, AsksFacts, PassKeeps

(* The checks before the request write nothing but the name of the Job.    *)
LEMMA PrepareKeeps ==
  ASSUME RdbmsInv, NEW b \in Backups, Prepare(b)
  PROVE  RdbmsInv'
<1> DEFINE s == [status[b] EXCEPT !.job = FALSE]
<1>1. Asks(b, "idle") /\ ReleaseJob(b) /\ zeebe' = zeebe
  BY DEF Prepare
<1>2. \/ HoldRunning(b, s) /\ UNCHANGED pass
      \/ Goto(b, "request") /\ UNCHANGED <<status, lost>>
  BY DEF Prepare
<1>3. s \in Status /\ s.pin = status[b].pin /\ s.phase = status[b].phase
  BY <1>1, AsksFacts
<1> HIDE DEF s
<1>4. StatusStep(b, {"Failed"})
  BY <1>1, <1>2, <1>3, AsksFacts, HoldStep DEF TypeOK, StatusStep
<1>5. PassStep(b) /\ pass'[b].at \in {"idle", "request"}
  BY ZenonT(60), <1>1, <1>2, AsksFacts, PassSteps DEF TypeOK, PassStep, At
<1> QED
  BY <1>1, <1>4, <1>5, AsksFacts, ReleaseStep, PassKeeps

(* The answer to the request is a Zeebe backup of the cluster that runs,   *)
(* and whole as long as its brokers run the configuration of the pin.      *)
LEMMA RequestKeeps ==
  ASSUME RdbmsInv, NEW b \in Backups, Request(b)
  PROVE  RdbmsInv'
<1> DEFINE s == [status[b] EXCEPT !.job = FALSE]
<1>1. Asks(b, "request") /\ job' = job /\ End(b)
  BY DEF Request
<1>2. s \in Status /\ s.pin = status[b].pin /\ s.phase = status[b].phase
  BY <1>1, AsksFacts
<1>3. PassStep(b) /\ pass'[b].at = "idle"
  BY <1>1, AsksFacts, PassSteps
<1>4. CASE (Flush(b, Recovered(s)) \/ HoldRunning(b, s)) /\ UNCHANGED zeebe
  <2> HIDE DEF s
  <2>1. StatusStep(b, {"Failed"})
    <3>1. Recovered(s) \in Status /\ Recovered(s).pin = s.pin /\ Recovered(s).phase = s.phase
      BY <1>2, StatusEdits
    <3> QED
      BY <1>1, <1>2, <1>4, <3>1, AsksFacts, FlushStep, HoldStep
  <2> QED
    BY <1>1, <1>3, <1>4, <2>1, AsksFacts, PassKeeps
<1>5. CASE /\ zeebe' = [zeebe EXCEPT ![b] = [state |-> "registering", uid |-> uid,
                                             whole |-> runs = s.pin.config]]
           /\ status' = [status EXCEPT ![b] = Recovered([@ EXCEPT !.asked = TRUE])]
           /\ UNCHANGED lost
  <2> DEFINE t == Recovered([status[b] EXCEPT !.asked = TRUE])
             q == [state |-> "registering", uid |-> uid, whole |-> runs = s.pin.config]
  <2>1. t \in Status /\ t.pin = status[b].pin /\ t.phase = status[b].phase
    <3> DEFINE u == [status[b] EXCEPT !.asked = TRUE]
    <3>1. u \in Status /\ u.pin = status[b].pin /\ u.phase = status[b].phase
      BY ZenonT(60), <1>1, AsksFacts, StatusEdits DEF TypeOK
    <3>2. t = Recovered(u)
      OBVIOUS
    <3> HIDE DEF u, t
    <3> QED
      BY <3>1, <3>2, StatusEdits
  <2>2. /\ q \in [state: Zeebe, whole: BOOLEAN, uid: Numbers] /\ q.state = "registering"
        /\ ~q.whole => runs # status[b].pin.config
    BY <1>1, <1>2, AsksFacts DEF TypeOK, Zeebe
  <2>3. zeebe' = [zeebe EXCEPT ![b] = q] /\ status' = [status EXCEPT ![b] = t]
    BY <1>5
  <2> HIDE DEF s, t, q
  <2>4. /\ zeebe' \in [Backups -> [state: Zeebe, whole: BOOLEAN, uid: Numbers]] /\ zeebe'[b] = q
        /\ status' \in [Backups -> Status] /\ status'[b] = t
        /\ \A c \in Backups \ {b} : zeebe'[c] = zeebe[c] /\ status'[c] = status[c]
    BY ZenonT(60), <1>1, <2>1, <2>2, <2>3, AsksFacts DEF TypeOK
  <2>5. /\ life' = life /\ pod' = pod /\ object' = object /\ identity' = identity /\ acts' = acts
        /\ uid' = uid /\ present' = present /\ want' = want /\ runs' = runs /\ rolled' = rolled
        /\ cleaner' = cleaner /\ swab' = swab /\ left' = left /\ claim' = claim /\ lost' = lost
        /\ life[b] # "gone" /\ cleaner[b] = "none" /\ status[b].phase = "ZeebeBackup" /\ TypeOK
    BY <1>1, <1>5, AsksFacts DEF cluster, cleaning
  <2>6. TypeOK' /\ Counted'
    BY <1>1, <1>3, <2>4, <2>5 DEF RdbmsInv, TypeOK, PassStep, Counted, Newer
  <2>7. BackupKept(b)'
    <3>1. BackupKept(b)
      BY DEF RdbmsInv
    <3>2. StartsPinned(b)' /\ DumpsPinned(b)' /\ DumpStays(b)'
      BY <1>1, <1>3, <2>1, <2>4, <2>5, <3>1
         DEF BackupKept, StartsPinned, DumpsPinned, DumpStays, At, Belongs, Newer
    <3>3. WholeIsPinned(b)' /\ SeenStays(b)'
      BY <1>3, <2>1, <2>2, <2>4, <2>5 DEF WholeIsPinned, SeenStays, At
    <3>4. CleansAlone(b)' /\ FreeIsClean(b)'
      BY <1>3, <2>5, <3>1 DEF BackupKept, CleansAlone, FreeIsClean, At
    <3> QED
      BY <3>2, <3>3, <3>4 DEF BackupKept
  <2> QED
    BY <1>1, <1>3, <2>4, <2>5, <2>6, <2>7, OneBackupStep DEF PassStep
<1> QED
  BY <1>4, <1>5 DEF Request

(* A look that sees a completed backup sees one of the pinned cluster.     *)
LEMMA AskKeeps ==
  ASSUME RdbmsInv, NEW b \in Backups, Ask(b)
  PROVE  RdbmsInv'
<1> DEFINE s == [status[b] EXCEPT !.job = FALSE]
<1>1. Asks(b, "idle") /\ ReleaseJob(b) /\ zeebe' = zeebe /\ uid = status[b].pin.uid
  BY DEF Ask
<1>2. s \in Status /\ s.pin = status[b].pin /\ s.phase = status[b].phase
  BY <1>1, AsksFacts
<1>3. CASE HoldRunning(b, s) /\ UNCHANGED pass
  <2> HIDE DEF s
  <2>1. StatusStep(b, {"Failed"})
    BY <1>1, <1>2, <1>3, AsksFacts, HoldStep
  <2>2. PassStep(b) /\ pass'[b].at = "idle"
    BY <1>1, <1>3, AsksFacts DEF TypeOK, PassStep, At
  <2> QED
    BY <1>1, <2>1, <2>2, AsksFacts, ReleaseStep, PassKeeps
<1>4. ASSUME NEW seen \in {"error", IF zeebe[b].uid = uid THEN zeebe[b].state ELSE "late"},
             pass' = [pass EXCEPT ![b] = [Idle EXCEPT !.at = "judge", !.seen = seen]],
             UNCHANGED <<status, lost>>
      PROVE  RdbmsInv'
  <2>1. StatusStep(b, {})
    BY <1>1, <1>4, AsksFacts DEF TypeOK, StatusStep
  <2>2. seen \in Zeebe \cup {"error"}
    BY ZenonT(60), <1>1, AsksFacts DEF TypeOK, Zeebe
  <2>3. PassStep(b) /\ pass'[b].at = "judge" /\ pass'[b].seen = seen
    BY ZenonT(60), <1>1, <1>4, <2>2, AsksFacts, StartTypes DEF TypeOK, PassStep, Idle, Passes
  <2>4. seen = "completed" => zeebe[b].state = "completed" /\ zeebe[b].uid = status[b].pin.uid
    BY <1>1
  <2> QED
    BY <1>1, <2>1, <2>3, <2>4, AsksFacts, ReleaseStep, PassKeeps
<1> QED
  BY <1>3, <1>4 DEF Ask

(* A backup that completes is completed, of the pinned cluster, and whole: *)
(* the look at the workload after the answer saw the pinned configuration, *)
(* which the brokers cannot have left and come back to.                    *)
LEMMA JudgeKeeps ==
  ASSUME RdbmsInv, NEW b \in Backups, Judge(b)
  PROVE  RdbmsInv'
<1> DEFINE s == [status[b] EXCEPT !.job = FALSE]
           t == [Recovered(s) EXCEPT !.phase = "Completed"]
<1>1. Asks(b, "judge") /\ job' = job /\ zeebe' = zeebe /\ End(b)
  BY DEF Judge
<1>2. s \in Status /\ s.pin = status[b].pin /\ s.phase = status[b].phase
  BY <1>1, AsksFacts
<1>3. /\ Recovered(s) \in Status /\ Recovered(s).pin = s.pin /\ Recovered(s).phase = s.phase
      /\ t \in Status /\ t.pin = s.pin /\ t.phase = "Completed"
  <2> HIDE DEF s
  <2> DEFINE u == Recovered(s)
  <2>1. u \in Status /\ u.pin = s.pin /\ u.phase = s.phase
    BY <1>2, StatusEdits
  <2> HIDE DEF u
  <2>2. LET v == [u EXCEPT !.phase = "Completed"]
        IN v \in Status /\ v.pin = u.pin /\ v.phase = "Completed"
    BY <2>1, StatusEdits
  <2> QED
    BY <2>1, <2>2 DEF u
<1>4. PassStep(b) /\ pass'[b].at = "idle"
  BY <1>1, AsksFacts, PassSteps
<1>5. \/ Fail(b, s) \/ HoldRunning(b, s) \/ Flush(b, Recovered(s))
      \/ runs = s.pin.config /\ pass[b].seen = "completed" /\ Flush(b, t)
  BY DEF Judge
<1> HIDE DEF s, t
<1>6. CASE Fail(b, s) \/ HoldRunning(b, s) \/ Flush(b, Recovered(s))
  <2>1. StatusStep(b, {"Failed"})
    BY <1>1, <1>2, <1>3, <1>6, AsksFacts, FailStep, HoldStep, FlushStep
  <2> QED
    BY <1>1, <1>4, <2>1, AsksFacts, PassKeeps
<1>7. CASE runs = s.pin.config /\ pass[b].seen = "completed" /\ Flush(b, t)
  <2>1. StatusStep(b, {"Completed"})
    BY <1>1, <1>2, <1>3, <1>7, AsksFacts, FlushStep
  <2>2. /\ zeebe[b].state = "completed" /\ zeebe[b].uid = status[b].pin.uid /\ zeebe[b].whole
        /\ zeebe[b] \in [state: Zeebe, whole: BOOLEAN, uid: Numbers]
    BY <1>1, <1>2, <1>7, AsksFacts DEF RdbmsInv, BackupKept, SeenStays, WholeIsPinned, TypeOK
  <2>3. zeebe[b] = [state |-> "completed", whole |-> TRUE, uid |-> status[b].pin.uid]
    BY <2>2
  <2> QED
    BY <1>1, <1>4, <2>1, <2>3, AsksFacts, PassKeeps
<1> QED
  BY <1>5, <1>6, <1>7

-----------------------------------------------------------------------------
(* The cluster *)

(* A step of the cluster keeps every backup: its brokers take over what is *)
(* newer, and a part that is taken then comes from another configuration.  *)
LEMMA ClusterKeeps ==
  ASSUME RdbmsInv, ChangeWant \/ Rollout \/ RolledOut \/ DeleteCluster \/ RecreateCluster
  PROVE  RdbmsInv'
<1>1. /\ life' = life /\ status' = status /\ claim' = claim /\ pass' = pass /\ job' = job
      /\ pod' = pod /\ object' = object /\ cleaner' = cleaner /\ swab' = swab /\ left' = left
      /\ identity' = identity /\ lost' = lost /\ TypeOK /\ Counted
  BY DEF RdbmsInv, ChangeWant, Rollout, RolledOut, DeleteCluster, RecreateCluster, own, dumping
<1>2. /\ want \in Config /\ want.db \in Numbers /\ want.rest \in Numbers /\ acts \in Nat
      /\ runs \in Config /\ runs.db \in Numbers /\ runs.rest \in Numbers /\ uid \in Numbers
      /\ MaxActs \in Nat
  BY <1>1, RdbmsBackupConstants DEF TypeOK, Config
<1>3. CASE ChangeWant
  <2>1. /\ runs' = runs /\ zeebe' = zeebe /\ uid' = uid /\ present' = present /\ rolled' = rolled
        /\ acts' = acts + 1 /\ acts' \in 0..MaxActs /\ acts + 2 \in Numbers
    BY <1>1, <1>2, <1>3 DEF ChangeWant, Act, TypeOK, Numbers
  <2>2. /\ want' \in Config
        /\ \/ want'.db = acts + 2 /\ want'.rest = want.rest
           \/ want'.db = want.db /\ want'.rest = acts + 2
    BY <1>2, <1>3, <2>1 DEF ChangeWant, Config
  <2>3. TypeOK' /\ Counted' /\ Newer(runs, runs')
    BY <1>1, <1>2, <2>1, <2>2 DEF TypeOK, Counted, Newer, Numbers
  <2> QED
    BY <1>1, <2>1, <2>3, OthersKept DEF RdbmsInv
<1>4. CASE Rollout
  <2>1. /\ runs' = want /\ want' = want /\ uid' = uid /\ present' = present /\ rolled' = FALSE
        /\ acts' = acts /\ runs' # runs
    BY <1>4 DEF Rollout
  <2>2. ASSUME NEW b \in Backups
        PROVE  /\ zeebe'[b] \in [state: Zeebe, whole: BOOLEAN, uid: Numbers]
               /\ zeebe'[b].state = zeebe[b].state
               /\ zeebe[b].state \notin {"registering", "running"} => zeebe'[b] = zeebe[b]
    <3>1. zeebe[b] \in [state: Zeebe, whole: BOOLEAN, uid: Numbers]
      BY <1>1 DEF TypeOK
    <3> DEFINE q == [zeebe[b] EXCEPT !.whole = FALSE]
    <3>2. q \in [state: Zeebe, whole: BOOLEAN, uid: Numbers] /\ q.state = zeebe[b].state
      BY <3>1
    <3>3. zeebe'[b] = IF zeebe[b].state \in {"registering", "running"} THEN q ELSE zeebe[b]
      BY <1>4 DEF Rollout
    <3> HIDE DEF q
    <3> QED
      BY <3>1, <3>2, <3>3
  <2>3. zeebe' \in [Backups -> [state: Zeebe, whole: BOOLEAN, uid: Numbers]]
    BY <1>4, <2>2 DEF Rollout
  <2>4. TypeOK'
    BY <1>1, <1>2, <2>1, <2>3 DEF TypeOK
  <2>5. Counted' /\ Newer(runs, runs')
    BY <1>1, <1>2, <2>1 DEF Counted, Newer, Numbers
  <2>6. ASSUME NEW b \in Backups PROVE BackupKept(b)'
    BY <1>1, <2>1, <2>2, <2>4, <2>5, OthersKept DEF RdbmsInv
  <2> QED
    BY <2>4, <2>5, <2>6 DEF RdbmsInv
<1>5. CASE RolledOut \/ DeleteCluster \/ RecreateCluster
  <2>1. want' = want /\ zeebe' = zeebe /\ (runs' = runs \/ runs' = want) /\ rolled' \in BOOLEAN
    BY <1>1, <1>5 DEF RolledOut, DeleteCluster, RecreateCluster, TypeOK
  <2>2. /\ uid' \in Numbers /\ present' \in BOOLEAN /\ acts' \in 0..MaxActs
        /\ uid' + (IF present' THEN 0 ELSE 1) <= acts' + 1 /\ acts <= acts'
    <3>1. CASE RolledOut
      BY <1>1, <1>2, <3>1 DEF RolledOut, Counted, TypeOK
    <3>2. CASE DeleteCluster
      <4>1. present /\ present' = FALSE /\ uid' = uid /\ acts' = acts + 1 /\ acts < MaxActs
        BY <3>2 DEF DeleteCluster, Act
      <4>2. uid <= acts + 1 /\ acts \in 0..MaxActs
        BY <1>1, <1>2, <4>1 DEF Counted, TypeOK, Numbers
      <4>3. uid + 1 <= acts + 2 /\ acts + 1 \in 0..MaxActs /\ acts <= acts + 1
        BY <1>2, <4>1, <4>2 DEF Numbers
      <4>4. (IF present' THEN 0 ELSE 1) = 1
        BY <4>1
      <4>5. acts' + 1 = acts + 2
        BY <1>2, <4>1
      <4>6. uid' + (IF present' THEN 0 ELSE 1) <= acts' + 1
        BY <4>1, <4>3, <4>4, <4>5
      <4> QED
        BY <1>2, <4>1, <4>3, <4>6
    <3>3. CASE RecreateCluster
      <4>1. ~present /\ present' = TRUE /\ uid' = uid + 1 /\ acts' = acts
        BY <3>3 DEF RecreateCluster
      <4>2. uid + 1 <= acts + 1 /\ acts \in 0..MaxActs
        BY <1>1, <4>1 DEF Counted, TypeOK
      <4> QED
        BY <1>2, <4>1, <4>2 DEF Numbers
    <3> QED
      BY <1>5, <3>1, <3>2, <3>3
  <2>3. TypeOK'
    BY <1>1, <1>2, <2>1, <2>2 DEF TypeOK
  <2>4. Newer(runs, runs') /\ Newer(runs', want')
    BY <1>1, <1>2, <2>1 DEF Counted, Newer, Numbers
  <2>5. want'.db <= acts' + 1 /\ want'.rest <= acts' + 1
    BY <1>1, <1>2, <2>1, <2>2 DEF Counted, Numbers
  <2>6. Counted'
    BY <2>2, <2>4, <2>5 DEF Counted, Newer
  <2> QED
    BY <1>1, <2>1, <2>3, <2>4, <2>6, OthersKept DEF RdbmsInv
<1> QED
  BY <1>3, <1>4, <1>5

-----------------------------------------------------------------------------
(* The initial states satisfy the invariant.                               *)
LEMMA InitRdbmsInv == Init => RdbmsInv
<1> SUFFICES ASSUME Init PROVE RdbmsInv
  OBVIOUS
<1>1. [phase |-> "Pending", job |-> FALSE, asked |-> FALSE, pin |-> NoPin, clock |-> 0] \in Status
  BY RdbmsBackupConstants DEF Status
<1>2. [state |-> "none", whole |-> TRUE, uid |-> 1] \in [state: Zeebe, whole: BOOLEAN, uid: Numbers]
  BY StartTypes DEF Zeebe
<1>3. TypeOK
  BY <1>1, <1>2, StartTypes, RdbmsBackupConstants DEF Init, TypeOK, Zeebe
<1>4. Counted
  BY RdbmsBackupConstants DEF Init, Counted, Newer, NoPin
<1>5. ASSUME NEW b \in Backups PROVE BackupKept(b)
  <2>1. /\ life[b] = "absent" /\ status[b].phase = "Pending" /\ status[b].pin = NoPin
        /\ pass[b].at = "idle" /\ job[b] = "none" /\ pod[b].at = "none" /\ object[b] = 0
        /\ zeebe[b].state = "none" /\ cleaner[b] = "none" /\ runs = NoPin.config
    BY DEF Init, Idle, NoPod
  <2>2. StartsPinned(b)
    BY <2>1 DEF StartsPinned, Newer, NoPin, Belongs
  <2> QED
    BY <2>1, <2>2 DEF BackupKept, DumpsPinned, DumpStays, WholeIsPinned, SeenStays, CleansAlone,
       FreeIsClean, At
<1> QED
  BY <1>3, <1>4, <1>5 DEF RdbmsInv

(* Every step keeps the invariant.                                         *)
LEMMA NextRdbmsInv == RdbmsInv /\ [Next]_vars => RdbmsInv'
<1> SUFFICES ASSUME RdbmsInv, [Next]_vars PROVE RdbmsInv'
  OBVIOUS
<1>1. ASSUME NEW b \in Backups, Reconcile(b) PROVE RdbmsInv'
  BY <1>1, AdmitKeeps, StartKeeps, TrackJobKeeps, ResolveKeeps, CreateJobKeeps, LoseClusterKeeps,
     PrepareKeeps, RequestKeeps, AskKeeps, JudgeKeeps DEF Reconcile
<1>2. ASSUME NEW b \in Backups, Finalize(b) PROVE RdbmsInv'
  BY <1>2, DeleteJobKeeps, LeaveObjectKeeps, DeleteObjectKeeps, CreateCleanerKeeps,
     RemoveCleanerKeeps, RemoveFinalizerKeeps DEF Finalize
<1>3. ASSUME NEW b \in Backups, Jobs(b) PROVE RdbmsInv'
  BY <1>3, UploadKeeps, EndJobKeeps, CollectPodKeeps, EndCleanerKeeps, CollectSwabKeeps DEF Jobs
<1>4. CASE UNCHANGED vars
  <2>1. TypeOK' /\ Counted' /\ Newer(runs, runs')
    BY <1>4, RdbmsBackupConstants DEF vars, cluster, dumping, cleaning, RdbmsInv, TypeOK, Counted,
       Newer, Config, Numbers
  <2> QED
    BY <1>4, <2>1, OthersKept DEF RdbmsInv, vars, cluster, dumping, cleaning
<1> QED
  BY <1>1, <1>2, <1>3, <1>4, AdmitKeeps, ProgressKeeps, RemovePodKeeps, RetryCleanerKeeps,
     ForeignJobKeeps, RemoveJobKeeps, SubmitKeeps, DeleteKeeps, ClusterKeeps DEF Next

(* The invariant holds in every state of the system.                       *)
THEOREM RdbmsInvariant == Spec => []RdbmsInv
BY InitRdbmsInv, NextRdbmsInv, PTL DEF Spec

(* The stored status, the Jobs, the objects and the passes always have     *)
(* their types: no clock runs past the grace.                              *)
THEOREM RdbmsTypeCorrect == Spec => []TypeOK
<1>1. RdbmsInv => TypeOK
  BY DEF RdbmsInv
<1> QED
  BY <1>1, RdbmsInvariant, PTL

(* A completed backup is one restore point: the dump of the pinned         *)
(* database, and a Zeebe backup of the pinned cluster, whole under the     *)
(* pinned configuration.                                                   *)
THEOREM RdbmsOnePair == Spec => []CompletedIsOnePair
<1>1. ASSUME RdbmsInv, NEW b \in Backups, status[b].phase = "Completed", life[b] = "alive"
      PROVE  /\ object[b] = status[b].pin.config.db
             /\ zeebe[b] = [state |-> "completed", whole |-> TRUE, uid |-> status[b].pin.uid]
  BY <1>1 DEF RdbmsInv, BackupKept, DumpStays, DumpsPinned, SeenStays
<1>2. RdbmsInv => CompletedIsOnePair
  BY <1>1 DEF CompletedIsOnePair
<1> QED
  BY <1>2, RdbmsInvariant, PTL

(* A deleted backup leaves no object that it could have reached, also when *)
(* its uploader outlives its Job.                                          *)
THEOREM RdbmsDeletedLeavesNothing == Spec => []DeletedLeavesNothing
<1>1. RdbmsInv => DeletedLeavesNothing
  BY DEF RdbmsInv, BackupKept, FreeIsClean, DeletedLeavesNothing
<1> QED
  BY <1>1, RdbmsInvariant, PTL

=============================================================================
