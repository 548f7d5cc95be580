--------------------------- MODULE EsRestoreProofs --------------------------
(***************************************************************************)
(* Proofs about EsRestore, for every set of restores of a cluster, every   *)
(* number of brokers and every number of faults: type correctness, the     *)
(* refinement of ExclusiveUse, the writer that covers a recovery, no pod   *)
(* under running brokers, no volume deleted after it was written, and no   *)
(* broker over a storage that is half restored.                            *)
(***************************************************************************)
EXTENDS EsRestore, FiniteSetTheorems, TLAPS

(* The bound of the model counts the restores that gave up.                *)
Counted == IsFiniteSet(gaveUp)

(* What a restore recorded follows its phases: nothing is asked for before *)
(* the Secondary phase, no volume is replaced before the Primary one.      *)
Recorded(r) ==
  /\ life[r] = "absent" => phase[r] = "Pending"
  /\ phase[r] = "Pending" => ~kept[r].repository /\ kept[r].held = "unset" /\ r \notin gaveUp
  /\ phase[r] \in {"Pending", "Validating"} => ~kept[r].snapshots
  /\ phase[r] \in {"Pending", "Validating", "Secondary"} => kept[r].recreated = {} /\ ~kept[r].names
  /\ life[r] = "alive" /\ ~Terminal(r) => kept[r].held = "unset" /\ r \notin gaveUp

(* A restore that uses the cluster has the claim.                          *)
UsesByClaim(r) == Using(r) => claim = r

(* A restore whose work can still be under way holds the cluster, and so   *)
(* does one with a pod left: the brokers are down.                         *)
AtWork(r) == life[r] = "alive" /\ phase[r] \in Running \cup {"Failed"}

HoldsBrokers(r) ==
  AtWork(r) \/ HasPods(r) => r \in holds /\ ~running

(* Jobs exist, and volumes are written, only after the record of them.     *)
WrittenByRecord(r) ==
  /\ \A b \in Brokers : job[r][b] # "none" => kept[r].names
  /\ \A b \in Brokers : vol[b].by = r /\ vol[b].data \in {"part", "full"} => kept[r].names

(* The snapshots that the running restore asked for are its own.           *)
IndexIsOwn(r) ==
  life[r] = "alive" =>
    /\ phase[r] = "Secondary" /\ kept[r].snapshots =>
         index.by = r /\ index.data \in {"part", "full", "stranded"}
    /\ phase[r] = "Primary" => index = Holding("full", r)

(* A recovery that a restore asked for finds that restore watching it: it  *)
(* exists, is registered as a writer and stays so, unless it gave up.      *)
Watched(r) ==
  index.data = "part" /\ index.by = r /\ r \notin gaveUp =>
    /\ r \in writers /\ Exists(r) /\ kept[r].repository
    /\ \/ phase[r] = "Secondary" /\ kept[r].held \in {"unset", "yes"}
       \/ phase[r] = "Failed" /\ kept[r].held = "yes"

Own(r) ==
  /\ Recorded(r) /\ UsesByClaim(r) /\ HoldsBrokers(r)
  /\ WrittenByRecord(r) /\ IndexIsOwn(r) /\ Watched(r)

(* Only a restore writes a storage, and a volume that leaves is there.     *)
StoragesOwned ==
  /\ index.data = "part" => index.by \in Restores
  /\ \A b \in Brokers :
       /\ b \in leaving => vol[b].data # "none"
       /\ vol[b].data \in {"part", "full"} => vol[b].by \in Restores

ClusterInv == StoragesOwned /\ \A r \in Restores : Own(r)

(* Nobody deleted a restore that did not complete, and none failed.        *)
Unspoilt ==
  \A r \in Restores :
    /\ life[r] \in {"deleting", "gone"} => phase[r] = "Completed"
    /\ life[r] = "alive" => phase[r] # "Failed"

(* The volumes on their way from the old data to the restored.             *)
Replaced(r) ==
  /\ \A b \in kept[r].recreated :
       b \in leaving \/ vol[b].data = "none" \/
         (vol[b].by = r /\ vol[b].data \in {"empty", "part", "full"})
  /\ kept[r].names => \A b \in Brokers :
       /\ vol[b].by = r /\ vol[b].data \in {"empty", "part", "full"}
       /\ job[r][b] = "done" => vol[b].data = "full"

InPrimary(r) == life[r] = "alive" /\ phase[r] = "Primary"

RestoreIsSound ==
  /\ leaving # {} => \E r \in Restores : InPrimary(r) /\ ~kept[r].names
  /\ \A r \in Restores, b \in Brokers : job[r][b] \in {"new", "active", "failed"} => InPrimary(r)
  /\ \A r \in Restores : InPrimary(r) => Replaced(r)
  /\ (\A r \in Restores : life[r] = "alive" => phase[r] \notin Running) =>
       AllLive \/ (~running /\ \E r \in Restores : Whole(r))

SoundInv == Unspoilt => RestoreIsSound

-----------------------------------------------------------------------------
(* Type correctness *)

(* The status of the restores, and its records.                            *)
LEMMA Records ==
  ASSUME NEW k \in Status
  PROVE  /\ [k EXCEPT !.suspended = TRUE] \in Status
         /\ [k EXCEPT !.repository = TRUE] \in Status
         /\ [k EXCEPT !.snapshots = TRUE] \in Status
         /\ \A h \in {"unset", "yes", "no"} : [k EXCEPT !.held = h] \in Status
         /\ \A c \in SUBSET Brokers, n \in BOOLEAN :
              [k EXCEPT !.recreated = c, !.names = n] \in Status
BY DEF Status

(* A flush stores a phase and a record that fit the types, or nothing.     *)
LEMMA Flushes ==
  ASSUME TypeOK, Counted, NEW r \in Restores, NEW p \in Phases, NEW k \in Status, Flush(r, p, k)
  PROVE  /\ phase' \in [Restores -> Phases] /\ kept' \in [Restores -> Status]
         /\ faults' \in 0..MaxFaults
         /\ \/ phase'[r] = p /\ kept'[r] = k
            \/ phase'[r] = phase[r] /\ kept'[r] = kept[r]
         /\ \A s \in Restores \ {r} : phase'[s] = phase[s] /\ kept'[s] = kept[s]
<1>1. CASE Fault /\ UNCHANGED <<phase, kept>>
  <2>1. Cardinality(gaveUp) \in Nat
    BY FS_CardinalityType DEF Counted
  <2>2. faults' \in 0..MaxFaults
    BY <1>1, <2>1, EsRestoreConstants DEF Fault, WithinBound, TypeOK
  <2> QED
    BY <1>1, <2>2 DEF TypeOK
<1>2. CASE /\ phase' = [phase EXCEPT ![r] = p] /\ kept' = [kept EXCEPT ![r] = k] /\ UNCHANGED faults
  BY <1>2 DEF TypeOK
<1> QED
  BY <1>1, <1>2 DEF Flush

(* What a failing restore records.                                         *)
LEMMA FailedRecord ==
  ASSUME NEW r \in Restores, kept[r] \in Status
  PROVE  /\ Failed(r) \in Status
         /\ Failed(r).repository = kept[r].repository /\ Failed(r).snapshots = kept[r].snapshots
         /\ Failed(r).recreated = kept[r].recreated /\ Failed(r).names = kept[r].names
         /\ Failed(r).held = IF kept[r].repository /\ kept[r].held = "unset" THEN "yes" ELSE kept[r].held
BY DEF Failed, Status

(* What is written of a storage is one.                                    *)
LEMMA StorageTypes ==
  /\ \A d \in {"live", "none", "empty", "part", "full", "stranded"}, q \in Restores \cup {None} :
       Holding(d, q) \in Storage /\ Holding(d, q).data = d /\ Holding(d, q).by = q
BY DEF Holding, Storage

JobStates == {"none", "new", "active", "done", "failed"}

(* The states that a step gives the Jobs.                                  *)
LEMMA JobTypes ==
  ASSUME job \in [Restores -> [Brokers -> JobStates]], NEW r \in Restores
  PROVE  /\ \A b \in Brokers, x \in JobStates : [job EXCEPT ![r][b] = x] \in [Restores -> [Brokers -> JobStates]]
         /\ [job EXCEPT ![r] = [b \in Brokers |-> "none"]] \in [Restores -> [Brokers -> JobStates]]
<1>1. \A b \in Brokers, x \in JobStates : [job[r] EXCEPT ![b] = x] \in [Brokers -> JobStates]
  OBVIOUS
<1>2. [b \in Brokers |-> "none"] \in [Brokers -> JobStates]
  BY DEF JobStates
<1> QED
  BY <1>1, <1>2

(* Every step keeps the types.                                             *)
LEMMA TypeStep == TypeOK /\ Counted /\ [Next]_vars => TypeOK' /\ Counted'
<1> SUFFICES ASSUME TypeOK, Counted, [Next]_vars PROVE TypeOK' /\ Counted'
  OBVIOUS
<1> USE DEF cluster, work, bounds
<1>t. /\ life \in [Restores -> {"absent", "alive", "deleting", "gone"}]
      /\ phase \in [Restores -> Phases] /\ kept \in [Restores -> Status]
      /\ claim \in Restores \cup {None} /\ holds \subseteq Restores
      /\ suspendedBy \subseteq {"user", "restore"} /\ running \in BOOLEAN
      /\ writers \subseteq Restores /\ index \in Storage /\ vol \in [Brokers -> Storage]
      /\ leaving \subseteq Brokers
      /\ job \in [Restores -> [Brokers -> JobStates]]
      /\ pods \subseteq Restores \X Brokers /\ faults \in 0..MaxFaults /\ gaveUp \subseteq Restores
  BY DEF TypeOK, JobStates
<1>j. {"none", "new", "active", "done", "failed"} = JobStates
  BY DEF JobStates
<1>k. \A r \in Restores : kept[r] \in Status /\ phase[r] \in Phases
  BY <1>t
<1>p. {"Pending", "Validating", "Secondary", "Primary", "Failed", "Completed"} = Phases
  BY DEF Phases, Running
<1>f. ASSUME NEW r \in Restores, NEW p \in Phases, NEW k \in Status, Flush(r, p, k)
      PROVE  phase' \in [Restores -> Phases] /\ kept' \in [Restores -> Status] /\ faults' \in 0..MaxFaults
  BY <1>f, Flushes
<1>n. ASSUME NoFlush
      PROVE  phase' \in [Restores -> Phases] /\ kept' \in [Restores -> Status] /\ faults' \in 0..MaxFaults
  BY <1>n, <1>t DEF NoFlush
<1>l. ASSUME NEW r \in Restores, Fail(r)
      PROVE  phase' \in [Restores -> Phases] /\ kept' \in [Restores -> Status] /\ faults' \in 0..MaxFaults
  BY <1>l, <1>f, <1>p, <1>k, FailedRecord DEF Fail
<1>a. Fault => faults' \in 0..MaxFaults
  BY FS_CardinalityType, EsRestoreConstants DEF Fault, WithinBound, TypeOK, Counted, JobStates
<1>1. ASSUME NEW r \in Restores, Admission(r) PROVE TypeOK' /\ Counted'
  <2>0. /\ phase' \in [Restores -> Phases] /\ kept' \in [Restores -> Status] /\ faults' \in 0..MaxFaults
    <3>1. CASE SuspendTarget(r)
      BY <3>1, <1>f, <1>n, <1>k, <1>p, Records DEF SuspendTarget
    <3>2. CASE AdoptSuspension(r)
      BY <3>2, <1>f, <1>k, <1>p, Records DEF AdoptSuspension
    <3>3. CASE AwaitBrokers(r) \/ AwaitClaim(r)
      BY <3>3, <1>n DEF AwaitBrokers, AwaitClaim
    <3>4. CASE Start(r)
      BY <3>4, <1>f, <1>k, <1>p DEF Start
    <3> QED
      BY <1>1, <3>1, <3>2, <3>3, <3>4 DEF Admission
  <2>1. /\ UNCHANGED <<life, running, index, vol, leaving, job, pods, gaveUp>>
        /\ claim' \in {claim, r} /\ holds' \in {holds, holds \cup {r}}
        /\ writers' \in {writers \ {r}, writers \cup {r}}
        /\ suspendedBy' \in {suspendedBy, {"restore"}}
    BY <1>1 DEF Admission, SuspendTarget, AdoptSuspension, AwaitBrokers, AwaitClaim, Start, Enters, StaysPending
  <2> QED
    BY <1>t, <2>0, <2>1 DEF TypeOK, Counted, JobStates
<1>2. ASSUME NEW r \in Restores, Run(r) \/ GraceOver(r) PROVE TypeOK' /\ Counted'
  <2>0. UNCHANGED <<life, claim, holds, suspendedBy, running, gaveUp>> /\ writers' = writers \cup {r}
    BY <1>2 DEF Run, GraceOver, Validate, RecordRepository, RestoreIndices, TrackRestore, RecreateClaims,
       CreateJob, TrackJobs, Resolved, Runs
  <2>q. ASSUME UNCHANGED <<index, vol, leaving, job, pods>>,
               phase' \in [Restores -> Phases], kept' \in [Restores -> Status], faults' \in 0..MaxFaults
        PROVE  TypeOK' /\ Counted'
    BY <1>t, <2>0, <2>q DEF TypeOK, Counted, JobStates
  <2>1. CASE Validate(r)
    BY <2>1, <2>q, <1>f, <1>l, <1>k, <1>p DEF Validate
  <2>2. CASE RecordRepository(r)
    BY <2>2, <2>q, <1>f, <1>k, <1>p, Records DEF RecordRepository
  <2>3. CASE RestoreIndices(r)
    <3>1. phase' \in [Restores -> Phases] /\ kept' \in [Restores -> Status] /\ faults' \in 0..MaxFaults
      BY <2>3, <1>f, <1>n, <1>k, <1>p, Records DEF RestoreIndices
    <3>2. index' \in Storage /\ UNCHANGED <<vol, leaving, job, pods>>
      BY <2>3, StorageTypes DEF RestoreIndices
    <3> QED
      BY <1>t, <2>0, <3>1, <3>2 DEF TypeOK, Counted, JobStates
  <2>4. CASE TrackRestore(r)
    BY <2>4, <2>q, <1>f, <1>l, <1>k, <1>p DEF TrackRestore
  <2>5. CASE RecreateClaims(r)
    <3> DEFINE unrecorded == Brokers \ (kept[r].recreated \cup Missing)
               recreated == kept[r].recreated \cup Missing \cup unrecorded
               done == unrecorded = {} /\ leaving \cap kept[r].recreated \subseteq Missing
               n == done /\ recreated = kept[r].recreated
    <3>1. kept[r].recreated \subseteq Brokers /\ Missing \subseteq Brokers
      BY <1>k DEF Status, Missing
    <3>2. [kept[r] EXCEPT !.recreated = recreated, !.names = n] \in Status
      <4>1. recreated \in SUBSET Brokers /\ n \in BOOLEAN
        BY <3>1
      <4> HIDE DEF recreated, n
      <4> QED
        BY <4>1, <1>k, Records
    <3>3. Flush(r, "Primary", [kept[r] EXCEPT !.recreated = recreated, !.names = n])
      BY <2>5 DEF RecreateClaims
    <3>4. phase' \in [Restores -> Phases] /\ kept' \in [Restores -> Status] /\ faults' \in 0..MaxFaults
      BY <3>2, <3>3, <1>f, <1>p
    <3>5. vol' \in [Brokers -> Storage] /\ leaving' \subseteq Brokers /\ UNCHANGED <<index, job, pods>>
      BY <2>5, <1>t, StorageTypes DEF RecreateClaims
    <3> QED
      BY <1>t, <2>0, <3>4, <3>5 DEF TypeOK, Counted, JobStates
  <2>6. ASSUME NEW b \in Brokers, CreateJob(r, b) PROVE TypeOK' /\ Counted'
    <3>1. phase' \in [Restores -> Phases] /\ kept' \in [Restores -> Status] /\ faults' \in 0..MaxFaults
      BY <2>6, <1>n DEF CreateJob
    <3>2. /\ job' \in [Restores -> [Brokers -> JobStates]]
          /\ pods' \subseteq Restores \X Brokers /\ UNCHANGED <<index, vol, leaving>>
      BY <2>6, <1>t, <1>j, JobTypes DEF CreateJob
    <3> QED
      BY <1>t, <2>0, <3>1, <3>2 DEF TypeOK, Counted, JobStates
  <2>7. CASE TrackJobs(r)
    BY <2>7, <2>q, <1>f, <1>l, <1>k, <1>p DEF TrackJobs
  <2>8. CASE GraceOver(r)
    BY <2>8, <2>q, <1>l DEF GraceOver
  <2> QED
    BY <1>2, <2>1, <2>2, <2>3, <2>4, <2>5, <2>6, <2>7, <2>8 DEF Run
<1>3. ASSUME NEW r \in Restores, Finish(r) PROVE TypeOK' /\ Counted'
  <2>1. CASE Collect(r) \/ Resume(r) \/ Give(r)
    <3>1. /\ UNCHANGED <<life, phase, kept, faults, gaveUp, running, index, vol, leaving, pods>>
          /\ writers' = writers \ {r} /\ claim' \in {claim, None} /\ holds' \subseteq holds
          /\ suspendedBy' \subseteq suspendedBy
          /\ job' \in {job, [job EXCEPT ![r] = [b \in Brokers |-> "none"]]}
      BY <2>1 DEF Collect, Resume, Give, Over, NoFlush
    <3>2. job' \in [Restores -> [Brokers -> JobStates]]
      BY <3>1, <1>t, JobTypes
    <3> QED
      BY <1>t, <3>1, <3>2 DEF TypeOK, Counted, JobStates
  <2>2. CASE KeepWriter(r)
    BY <2>2, <1>t DEF KeepWriter, NoFlush, TypeOK, Counted, JobStates
  <2>3. CASE EndRecovery(r)
    <3>1. /\ phase' \in [Restores -> Phases] /\ kept' \in [Restores -> Status] /\ faults' \in 0..MaxFaults
      BY <2>3, <1>f, <1>k, Records DEF EndRecovery
    <3>2. /\ UNCHANGED <<life, holds, suspendedBy, running, index, vol, leaving, job, pods>>
          /\ writers' = writers \ {r} /\ claim' \in {claim, None} /\ gaveUp' \in {gaveUp, gaveUp \cup {r}}
      BY <2>3 DEF EndRecovery, RecoveryOver
    <3>3. Counted'
      BY <3>2, FS_AddElement DEF Counted
    <3>4. writers' \subseteq Restores /\ gaveUp' \subseteq Restores /\ claim' \in Restores \cup {None}
      BY <1>t, <3>2
    <3>5. TypeOK'
      BY <1>t, <3>1, <3>2, <3>4 DEF TypeOK, JobStates
    <3> QED
      BY <3>3, <3>5
  <2> QED
    BY <1>3, <2>1, <2>2, <2>3 DEF Finish
<1>4. ASSUME NEW r \in Restores, Finalize(r) PROVE TypeOK' /\ Counted'
  <2>1. CASE HoldDeletion(r) \/ EndHeldDeletion(r)
    <3>1. /\ phase' \in [Restores -> Phases] /\ kept' \in [Restores -> Status] /\ faults' \in 0..MaxFaults
      BY <2>1, <1>f, <1>k, Records DEF HoldDeletion, EndHeldDeletion
    <3>2. /\ UNCHANGED <<life, claim, holds, suspendedBy, running, index, vol, leaving, job, pods>>
          /\ writers' \in {writers \cup {r}, writers \ {r}} /\ gaveUp' \in {gaveUp, gaveUp \cup {r}}
      BY <2>1 DEF HoldDeletion, EndHeldDeletion, RecoveryOver
    <3>3. Counted'
      BY <3>2, FS_AddElement DEF Counted
    <3>4. writers' \subseteq Restores /\ gaveUp' \subseteq Restores /\ claim' \in Restores \cup {None}
      BY <1>t, <3>2
    <3>5. TypeOK'
      BY <1>t, <3>1, <3>2, <3>4 DEF TypeOK, JobStates
    <3> QED
      BY <3>3, <3>5
  <2>2. CASE RemoveJobs(r) \/ ReleaseHold(r) \/ RemoveFinalizer(r)
    <3>1. /\ UNCHANGED <<phase, kept, claim, suspendedBy, running, index, vol, leaving, faults, gaveUp, pods>>
          /\ writers' = writers \ {r} /\ holds' \subseteq holds
          /\ job' \in {job, [job EXCEPT ![r] = [b \in Brokers |-> "none"]]}
          /\ life' \in {life, [life EXCEPT ![r] = "gone"]}
      BY <2>2 DEF RemoveJobs, ReleaseHold, RemoveFinalizer, Finalizes
    <3>2. job' \in [Restores -> [Brokers -> JobStates]]
      BY <3>1, <1>t, JobTypes
    <3>3. life' \in [Restores -> {"absent", "alive", "deleting", "gone"}]
      BY <3>1, <1>t
    <3> QED
      BY <1>t, <3>1, <3>2, <3>3 DEF TypeOK, Counted, JobStates
  <2> QED
    BY <1>4, <2>1, <2>2 DEF Finalize
<1>5. ASSUME NEW r \in Restores, Submit(r) \/ Delete(r) \/ (\E b \in Brokers : RemoveJob(r, b))
      PROVE  TypeOK' /\ Counted'
  <2>1. CASE Submit(r) \/ Delete(r)
    BY <2>1, <1>t DEF Submit, Delete, TypeOK, Counted, JobStates
  <2>2. ASSUME NEW b \in Brokers, RemoveJob(r, b) PROVE TypeOK' /\ Counted'
    BY <2>2, <1>t, <1>a, JobTypes DEF RemoveJob, TypeOK, Counted, JobStates
  <2> QED
    BY <1>5, <2>1, <2>2
<1>6. CASE Workload
  <2>s. ASSUME UNCHANGED Status_, UNCHANGED suspendedBy,
               running' \in BOOLEAN, index' \in Storage, vol' \in [Brokers -> Storage], leaving' \subseteq Brokers,
               job' \in [Restores -> [Brokers -> JobStates]],
               pods' \subseteq Restores \X Brokers
        PROVE  TypeOK' /\ Counted'
    BY <2>s, <1>t DEF Status_, TypeOK, Counted, JobStates
  <2>1. CASE ScaleDown
    BY <2>1, <2>s, <1>t DEF ScaleDown
  <2>2. CASE ScaleUp
    <3>1. index' \in Storage /\ vol' \in [Brokers -> Storage]
      BY <2>2, <1>t, StorageTypes DEF ScaleUp
    <3> QED
      BY <2>2, <3>1, <2>s, <1>t DEF ScaleUp
  <2>3. CASE Recover
    <3>1. index.by \in Restores \cup {None}
      BY <1>t DEF Storage
    <3>2. index' \in Storage
      BY <2>3, <3>1, StorageTypes DEF Recover
    <3> QED
      BY <2>3, <3>2, <2>s, <1>t DEF Recover
  <2>4. ASSUME NEW b \in Brokers, ClaimGone(b) PROVE TypeOK' /\ Counted'
    <3>1. vol[b].by \in Restores \cup {None}
      BY <1>t DEF Storage
    <3>2. Holding("none", vol[b].by) \in Storage
      BY <3>1, StorageTypes
    <3>3. vol' \in [Brokers -> Storage]
      BY <2>4, <3>2, <1>t DEF ClaimGone
    <3> QED
      BY <2>4, <3>3, <2>s, <1>t DEF ClaimGone
  <2>5. ASSUME NEW r \in Restores, NEW b \in Brokers, JobStarts(r, b) \/ JobEnds(r, b) PROVE TypeOK' /\ Counted'
    <3>1. Holding("part", r) \in Storage /\ Holding("full", r) \in Storage
      BY StorageTypes
    <3>2. vol' \in [Brokers -> Storage]
      BY <2>5, <3>1, <1>t DEF JobStarts, JobEnds
    <3>3. job' \in [Restores -> [Brokers -> JobStates]]
      <4>1. \E x \in {"active", "done", "failed"} : job' = [job EXCEPT ![r][b] = x]
        BY <2>5 DEF JobStarts, JobEnds
      <4> QED
        BY <4>1, <1>t, <1>j, JobTypes
    <3> QED
      BY <2>5, <3>2, <3>3, <2>s, <1>t DEF JobStarts, JobEnds
  <2>6. ASSUME NEW r \in Restores, NEW b \in Brokers, PodGone(r, b) PROVE TypeOK' /\ Counted'
    BY <2>6, <2>s, <1>t DEF PodGone
  <2> QED
    BY <1>6, <2>1, <2>2, <2>3, <2>4, <2>5, <2>6 DEF Workload
<1>7. CASE UserSuspends
  BY <1>7, <1>t, <1>a DEF UserSuspends, TypeOK, Counted, JobStates
<1>8. CASE UNCHANGED vars
  BY <1>8, <1>t DEF vars, TypeOK, Counted, JobStates
<1> QED
  BY <1>1, <1>2, <1>3, <1>4, <1>5, <1>6, <1>7, <1>8 DEF Next

-----------------------------------------------------------------------------
(* The restores and the cluster *)

(* The stored status of s stays.                                           *)
Same(s) == life'[s] = life[s] /\ phase'[s] = phase[s] /\ kept'[s] = kept[s]

(* The index, as far as s depends on it: it stays, its recovery ends, a    *)
(* restore with the claim writes it, or the brokers take it over.          *)
IndexMoves(s) ==
  \/ index' = index
  \/ index.data = "part" /\ index'.by = index.by /\ index'.data \in {"full", "stranded"}
  \/ claim # s /\ index'.by # s
  \/ s \notin holds /\ index'.data = "live"

(* What a step of somebody else does to s.                                 *)
Undisturbed(s) ==
  /\ Same(s) /\ IndexMoves(s)
  /\ \A b \in Brokers : job'[s][b] # "none" => job[s][b] # "none"
  /\ s \in gaveUp' <=> s \in gaveUp
  /\ \A b \in Brokers :
       vol'[b] = vol[b] \/ vol'[b].by # s \/ vol'[b].data \notin {"part", "full"} \/ kept[s].names
  /\ s \in holds => s \in holds' /\ (running' => running)
  /\ HasPods(s)' => HasPods(s)
  /\ Using(s) /\ claim = s => claim' = s
  /\ s \in writers => s \in writers'

(* A restore that is left alone keeps its part of the invariant.           *)
LEMMA UndisturbedKeeps ==
  ASSUME TypeOK, NEW s \in Restores, Own(s), Undisturbed(s)
  PROVE  Own(s)'
<1>1. Recorded(s)'
  BY DEF Own, Recorded, Undisturbed, Same, Terminal
<1>2. Using(s)' => Using(s)
  BY DEF Own, UsesByClaim, Undisturbed, Same, Using, IndexMoves, Exists, Holding
<1>3. UsesByClaim(s)'
  BY <1>2 DEF Own, UsesByClaim, Undisturbed
<1>4. HoldsBrokers(s)'
  BY DEF Own, HoldsBrokers, Undisturbed, Same, AtWork
<1>5. WrittenByRecord(s)'
  BY DEF Own, WrittenByRecord, Undisturbed, Same
<1>6. IndexIsOwn(s)'
  <2> SUFFICES ASSUME life[s] = "alive", phase[s] \in {"Secondary", "Primary"}
               PROVE  IndexIsOwn(s)'
    BY DEF IndexIsOwn, Undisturbed, Same
  <2>1. claim = s /\ s \in holds
    <3>1. Using(s) /\ AtWork(s)
      BY DEF Own, Recorded, Using, Exists, Terminal, AtWork, Running
    <3> QED
      BY <3>1 DEF Own, UsesByClaim, HoldsBrokers
  <2>2. index' = index \/ (index.data = "part" /\ index'.by = index.by /\ index'.data \in {"full", "stranded"})
    BY <2>1 DEF Undisturbed, IndexMoves
  <2> QED
    BY <2>2 DEF Own, IndexIsOwn, Undisturbed, Same, Holding
<1>7. Watched(s)'
  BY DEF Own, Watched, Undisturbed, Same, IndexMoves, Exists
<1> QED
  BY <1>1, <1>3, <1>4, <1>5, <1>6, <1>7 DEF Own

(* A step that disturbs nobody keeps the invariant when the storages stay  *)
(* owned.                                                                  *)
LEMMA NobodyDisturbed ==
  ASSUME TypeOK, ClusterInv, \A s \in Restores : Undisturbed(s), StoragesOwned'
  PROVE  ClusterInv'
BY UndisturbedKeeps DEF ClusterInv

(* The cluster, Elasticsearch and the Jobs keep what the restores rest on. *)
LEMMA WorkloadKeeps ==
  ASSUME TypeOK, ClusterInv, Workload \/ UserSuspends
  PROVE  ClusterInv'
<1> USE DEF cluster, work, bounds, Status_
<1>t. /\ index \in Storage /\ vol \in [Brokers -> Storage] /\ leaving \subseteq Brokers
      /\ job \in [Restores -> [Brokers -> JobStates]] /\ pods \subseteq Restores \X Brokers
  BY DEF TypeOK, JobStates
<1>o. StoragesOwned /\ \A r \in Restores : WrittenByRecord(r)
  BY DEF ClusterInv, Own
<1>f. ASSUME UNCHANGED <<life, phase, kept, claim, holds, writers, gaveUp>>,
             running' => running, UNCHANGED index,
             NEW s \in Restores,
             \A b \in Brokers : job'[s][b] # "none" => job[s][b] # "none",
             \A b \in Brokers : vol'[b] = vol[b] \/ vol'[b].by # s \/ vol'[b].data \notin {"part", "full"} \/ kept[s].names,
             pods' \subseteq pods
      PROVE  Undisturbed(s)
  BY <1>f DEF Undisturbed, Same, IndexMoves, HasPods
<1>1. CASE UserSuspends \/ ScaleDown
  <2>1. /\ UNCHANGED <<life, phase, kept, claim, holds, writers, gaveUp, index, vol, leaving, job, pods>>
        /\ running' => running
    BY <1>1 DEF UserSuspends, ScaleDown
  <2> QED
    BY <1>o, <1>f, <2>1, NobodyDisturbed DEF StoragesOwned
<1>2. CASE ScaleUp
  <2>1. UNCHANGED <<life, phase, kept, claim, holds, writers, gaveUp, leaving, job, pods>> /\ holds = {}
    BY <1>2 DEF ScaleUp, SuspendRequested
  <2>2. CASE index' = Holding("live", None) /\ vol' = [b \in Brokers |-> Holding("live", None)]
    <3>1. \A s \in Restores : Undisturbed(s)
      BY <2>1, <2>2 DEF Undisturbed, Same, IndexMoves, HasPods, Holding
    <3>2. StoragesOwned'
      BY <2>2, <1>t, <2>1 DEF StoragesOwned, Holding
    <3> QED
      BY <3>1, <3>2, NobodyDisturbed
  <2>3. CASE UNCHANGED index /\ vol' = [b \in Brokers |-> IF b \in Missing THEN Holding("empty", None) ELSE vol[b]]
    <3>1. \A s \in Restores : Undisturbed(s)
      BY <2>1, <2>3 DEF Undisturbed, Same, IndexMoves, HasPods, Holding
    <3>2. StoragesOwned'
      BY <2>3, <1>t, <2>1, <1>o DEF StoragesOwned, Holding
    <3> QED
      BY <3>1, <3>2, NobodyDisturbed
  <2> QED
    BY <1>2, <2>2, <2>3 DEF ScaleUp
<1>3. CASE Recover
  <2>1. UNCHANGED <<life, phase, kept, claim, holds, writers, gaveUp, leaving, job, pods, vol, running>>
        /\ index.data = "part" /\ index'.by = index.by /\ index'.data \in {"full", "stranded"}
    BY <1>3 DEF Recover, Holding
  <2>2. \A s \in Restores : Undisturbed(s)
    BY <2>1 DEF Undisturbed, Same, IndexMoves, HasPods
  <2> QED
    BY <2>1, <2>2, <1>o, NobodyDisturbed DEF StoragesOwned
<1>4. ASSUME NEW b \in Brokers, ClaimGone(b) PROVE ClusterInv'
  <2>1. /\ UNCHANGED <<life, phase, kept, claim, holds, writers, gaveUp, index, job, pods, running>>
        /\ leaving' = leaving \ {b} /\ vol' = [vol EXCEPT ![b] = Holding("none", vol[b].by)]
    BY <1>4 DEF ClaimGone
  <2>2. vol'[b].data = "none" /\ \A c \in Brokers \ {b} : vol'[c] = vol[c]
    BY <2>1, <1>t DEF Holding
  <2>3. \A s \in Restores : Undisturbed(s)
    BY <2>1, <2>2, <1>f
  <2> QED
    BY <2>1, <2>2, <2>3, <1>o, NobodyDisturbed DEF StoragesOwned
<1>5. ASSUME NEW r \in Restores, NEW b \in Brokers, JobStarts(r, b) \/ JobEnds(r, b) PROVE ClusterInv'
  <2>1. /\ UNCHANGED <<life, phase, kept, claim, holds, writers, gaveUp, index, leaving, pods, running>>
        /\ job[r][b] \in {"new", "active"}
    BY <1>5 DEF JobStarts, JobEnds
  <2>2. PICK x \in {"active", "failed", "done"} : job' = [job EXCEPT ![r][b] = x]
    BY <1>5 DEF JobStarts, JobEnds
  <2>3. \A s \in Restores, c \in Brokers : job'[s][c] # "none" => job[s][c] # "none"
    BY <2>1, <2>2, <1>t
  <2>4. vol' = vol \/ \E d \in {"part", "full"} : vol' = [vol EXCEPT ![b] = Holding(d, r)]
    BY <1>5 DEF JobStarts, JobEnds
  <2>5. /\ \A c \in Brokers \ {b} : vol'[c] = vol[c]
        /\ vol'[b] = vol[b] \/ (vol'[b].by = r /\ vol'[b].data \in {"part", "full"})
    BY <2>4, <1>t DEF Holding
  <2>6. kept[r].names
    BY <1>o, <2>1 DEF WrittenByRecord
  <2>7. \A s \in Restores : Undisturbed(s)
    BY <2>1, <2>3, <2>5, <2>6, <1>f
  <2> QED
    BY <2>1, <2>5, <2>7, <1>o, NobodyDisturbed DEF StoragesOwned
<1>6. ASSUME NEW r \in Restores, NEW b \in Brokers, PodGone(r, b) PROVE ClusterInv'
  <2>1. /\ UNCHANGED <<life, phase, kept, claim, holds, writers, gaveUp, index, leaving, job, vol, running>>
        /\ pods' \subseteq pods
    BY <1>6 DEF PodGone
  <2>2. \A s \in Restores : Undisturbed(s)
    BY <2>1, <1>f
  <2> QED
    BY <2>1, <2>2, <1>o, NobodyDisturbed DEF StoragesOwned
<1> QED
  BY <1>1, <1>2, <1>3, <1>4, <1>5, <1>6 DEF Workload

(* What a pass of r leaves to the others: their status and Jobs, their     *)
(* claim, and every hold and registration but its own.                     *)
LeavesOthers(r) ==
  /\ \A s \in Restores \ {r} : Same(s) /\ job'[s] = job[s] /\ (HasPods(s)' => HasPods(s))
  /\ index' = index \/ (claim = r /\ index'.by = r)
  /\ \A b \in Brokers : vol'[b] = vol[b] \/ vol'[b].data \notin {"part", "full"}
  /\ gaveUp' \in {gaveUp, gaveUp \cup {r}}
  /\ holds \ {r} \subseteq holds' /\ running' = running
  /\ claim' = claim \/ (claim = r /\ claim' = None) \/ (claim' = r /\ Claimable(r))
  /\ writers \ {r} \subseteq writers'

(* Such a pass disturbs nobody else.                                       *)
LEMMA OthersUndisturbed ==
  ASSUME ClusterInv, NEW r \in Restores, LeavesOthers(r), NEW s \in Restores \ {r}
  PROVE  Undisturbed(s)
<1>1. Same(s) /\ (\A b \in Brokers : job'[s][b] # "none" => job[s][b] # "none")
      /\ (s \in gaveUp' <=> s \in gaveUp) /\ (s \in holds => s \in holds' /\ (running' => running))
      /\ (HasPods(s)' => HasPods(s)) /\ (s \in writers => s \in writers')
  BY DEF LeavesOthers
<1>2. IndexMoves(s)
  BY DEF LeavesOthers, IndexMoves
<1>3. Using(s) /\ claim = s => claim' = s
  BY DEF LeavesOthers, Claimable, Using, HolderActive, Terminal, Running
<1>4. \A b \in Brokers : vol'[b] = vol[b] \/ vol'[b].by # s \/ vol'[b].data \notin {"part", "full"} \/ kept[s].names
  BY DEF LeavesOthers
<1> QED
  BY <1>1, <1>2, <1>3, <1>4 DEF Undisturbed

(* Such a pass keeps the invariant when it keeps the part of r.            *)
LEMMA PassOf ==
  ASSUME TypeOK, ClusterInv, NEW r \in Restores, LeavesOthers(r), Own(r)', StoragesOwned'
  PROVE  ClusterInv'
BY OthersUndisturbed, UndisturbedKeeps DEF ClusterInv

(* What is on record of a restore, as far as the invariant goes.           *)
SameRecord(k, l) ==
  /\ l.repository = k.repository /\ l.snapshots = k.snapshots /\ l.recreated = k.recreated
  /\ l.names = k.names /\ l.held = k.held

(* Admission takes the claim before a restore starts.                      *)
LEMMA AdmissionKeeps ==
  ASSUME TypeOK, Counted, ClusterInv, NEW r \in Restores, Admission(r)
  PROVE  ClusterInv'
<1> USE DEF cluster, work
<1>k. kept[r] \in Status /\ {"Pending", "Validating"} \subseteq Phases /\ kept[r] = kept[r]
  BY DEF TypeOK, Phases, Running
<1>1. life[r] = "alive" /\ phase[r] = "Pending" /\ Own(r) /\ StoragesOwned
  BY DEF Admission, SuspendTarget, AdoptSuspension, AwaitBrokers, AwaitClaim, Start, Enters, ClusterInv
<1>2. UNCHANGED <<life, running, index, vol, leaving, job, pods, gaveUp>>
      /\ writers \ {r} \subseteq writers' /\ holds \subseteq holds'
  BY DEF Admission, SuspendTarget, AdoptSuspension, AwaitBrokers, AwaitClaim, Start, Enters, StaysPending
<1>3. claim' = claim \/ (claim' = r /\ Claimable(r))
  BY DEF Admission, SuspendTarget, AdoptSuspension, AwaitBrokers, AwaitClaim, Start, Enters
<1>4. /\ \A s \in Restores \ {r} : phase'[s] = phase[s] /\ kept'[s] = kept[s]
      /\ SameRecord(kept[r], kept'[r])
      /\ phase'[r] = "Pending" \/ (phase'[r] = "Validating" /\ claim' = r /\ r \in holds' /\ ~running)
  <2>0. SameRecord(kept[r], [kept[r] EXCEPT !.suspended = TRUE]) /\ [kept[r] EXCEPT !.suspended = TRUE] \in Status
    BY <1>k DEF SameRecord, Status
  <2>1. CASE SuspendTarget(r) \/ AdoptSuspension(r)
    <3>1. CASE Flush(r, "Pending", [kept[r] EXCEPT !.suspended = TRUE])
      BY <3>1, <1>1, <1>k, <2>0, Flushes DEF SameRecord
    <3>2. CASE NoFlush
      BY <3>2, <1>1 DEF NoFlush, SameRecord
    <3> QED
      BY <2>1, <3>1, <3>2 DEF SuspendTarget, AdoptSuspension
  <2>2. CASE AwaitBrokers(r) \/ AwaitClaim(r)
    BY <2>2, <1>1 DEF AwaitBrokers, AwaitClaim, NoFlush, SameRecord
  <2>3. CASE Start(r)
    <3>1. Flush(r, "Validating", kept[r]) /\ claim' = r /\ holds' = holds \cup {r} /\ ~running
      BY <2>3 DEF Start, Enters
    <3> QED
      BY <3>1, <1>1, <1>k, Flushes DEF SameRecord
  <2> QED
    BY <2>1, <2>2, <2>3 DEF Admission
<1>5. LeavesOthers(r)
  BY <1>2, <1>3, <1>4 DEF LeavesOthers, Same, HasPods
<1>6. Recorded(r)' /\ UsesByClaim(r)'
  BY <1>1, <1>2, <1>4 DEF Own, Recorded, UsesByClaim, Using, Exists, Terminal, SameRecord, Running
<1>7. HoldsBrokers(r)' /\ WrittenByRecord(r)'
  BY <1>1, <1>2, <1>4 DEF Own, HoldsBrokers, AtWork, HasPods, WrittenByRecord, SameRecord, Running
<1>8. IndexIsOwn(r)' /\ Watched(r)'
  BY <1>1, <1>2, <1>4 DEF Own, IndexIsOwn, Watched
<1>9. StoragesOwned'
  BY <1>1, <1>2 DEF StoragesOwned
<1> QED
  BY <1>5, <1>6, <1>7, <1>8, <1>9, PassOf DEF Own

(* A restore that runs has the claim and the hold, and no brokers run.     *)
LEMMA RunnerFacts ==
  ASSUME ClusterInv, NEW r \in Restores, life[r] = "alive", phase[r] \in Running
  PROVE  /\ claim = r /\ r \in holds /\ ~running /\ r \notin gaveUp /\ kept[r].held = "unset"
         /\ Own(r)
<1>1. r \notin gaveUp /\ kept[r].held = "unset"
  BY DEF ClusterInv, Own, Recorded, Terminal, Running
<1>2. Using(r) /\ AtWork(r)
  BY <1>1 DEF Using, AtWork, Exists
<1> QED
  BY <1>1, <1>2 DEF ClusterInv, Own, UsesByClaim, HoldsBrokers

(* What the record of a running restore says of the phase it is in, and of *)
(* the index.                                                              *)
RecordFits(r, p, k) ==
  /\ p \in Running \cup {"Completed", "Failed"}
  /\ p = "Failed" => k.held = IF k.repository THEN "yes" ELSE "unset"
  /\ p # "Failed" => k.held = "unset"
  /\ p = "Validating" => ~k.snapshots
  /\ p \in {"Validating", "Secondary"} => k.recreated = {} /\ ~k.names
  /\ p = "Secondary" /\ k.snapshots => index.by = r /\ index.data \in {"part", "full", "stranded"}
  /\ p = "Primary" => index = Holding("full", r)
  /\ index.data = "part" /\ index.by = r => k.repository /\ p \in {"Secondary", "Failed"}

(* The record of a running restore fits.                                   *)
LEMMA RunnerFits ==
  ASSUME ClusterInv, NEW r \in Restores, life[r] = "alive", phase[r] \in Running
  PROVE  RecordFits(r, phase[r], kept[r])
<1>1. Own(r) /\ r \notin gaveUp /\ kept[r].held = "unset"
  BY RunnerFacts
<1> QED
  BY <1>1 DEF RecordFits, Own, Recorded, IndexIsOwn, Watched, Running

(* A pass of a running restore keeps the invariant, when what it stores    *)
(* fits and its Jobs and volumes are on record.                            *)
LEMMA RunnerKeeps ==
  ASSUME TypeOK, ClusterInv, NEW r \in Restores, life[r] = "alive", phase[r] \in Running,
         UNCHANGED <<life, claim, holds, running, gaveUp>>, writers' = writers \cup {r},
         \A s \in Restores \ {r} : phase'[s] = phase[s] /\ kept'[s] = kept[s] /\ job'[s] = job[s],
         RecordFits(r, phase[r], kept[r])' ,
         index' = index \/ index'.by = r,
         \A b \in Brokers : vol'[b] = vol[b] \/ vol'[b].data = "empty",
         \A b \in Brokers : b \in leaving' => vol'[b].data # "none",
         pods' \subseteq pods \cup ({r} \X Brokers),
         kept[r].names => kept'[r].names,
         \A b \in Brokers : job'[r][b] # "none" => kept'[r].names
  PROVE  ClusterInv'
<1>1. claim = r /\ r \in holds /\ ~running /\ r \notin gaveUp /\ Own(r)
  BY RunnerFacts
<1>2. LeavesOthers(r)
  BY <1>1 DEF LeavesOthers, Same, HasPods
<1>3. Recorded(r)'
  BY <1>1 DEF RecordFits, Recorded, Terminal, Running
<1>4. UsesByClaim(r)' /\ HoldsBrokers(r)'
  BY <1>1 DEF UsesByClaim, HoldsBrokers
<1>5. WrittenByRecord(r)'
  BY <1>1 DEF Own, WrittenByRecord
<1>6. IndexIsOwn(r)'
  BY DEF RecordFits, IndexIsOwn
<1>7. Watched(r)'
  BY <1>1 DEF RecordFits, Watched, Exists
<1>8. StoragesOwned'
  BY DEF ClusterInv, StoragesOwned
<1> QED
  BY <1>1, <1>2, <1>3, <1>4, <1>5, <1>6, <1>7, <1>8, PassOf DEF Own

(* Every pass of a running restore keeps the invariant.                    *)
LEMMA RunKeeps ==
  ASSUME TypeOK, Counted, ClusterInv, NEW r \in Restores, Run(r) \/ GraceOver(r)
  PROVE  ClusterInv'
<1> USE DEF cluster, work
<1>1. life[r] = "alive" /\ phase[r] \in Running
      /\ UNCHANGED <<life, claim, holds, running, gaveUp>> /\ writers' = writers \cup {r}
  BY DEF Run, GraceOver, Validate, RecordRepository, RestoreIndices, TrackRestore, RecreateClaims,
     CreateJob, TrackJobs, Resolved, Runs, Running
<1>k. kept[r] \in Status /\ phase[r] \in Phases /\ StoragesOwned /\ WrittenByRecord(r)
      /\ vol \in [Brokers -> Storage] /\ kept[r].held = "unset"
  BY <1>1, RunnerFacts DEF TypeOK, ClusterInv, Own
<1>p. {"Pending", "Validating", "Secondary", "Primary", "Failed", "Completed"} = Phases
  BY DEF Phases, Running
<1>f. RecordFits(r, phase[r], kept[r])
  BY <1>1, RunnerFits
<1>q. ASSUME NEW p \in Phases, NEW k \in Status, Flush(r, p, k), UNCHANGED <<vol, leaving, job, pods>>,
             index' = index \/ index'.by = r,
             k.names = kept[r].names,
             (phase'[r] = p /\ kept'[r] = k) => RecordFits(r, phase[r], kept[r])',
             (phase'[r] = phase[r] /\ kept'[r] = kept[r]) => RecordFits(r, phase[r], kept[r])'
      PROVE  ClusterInv'
  <2>1. /\ \/ phase'[r] = p /\ kept'[r] = k
           \/ phase'[r] = phase[r] /\ kept'[r] = kept[r]
        /\ \A s \in Restores \ {r} : phase'[s] = phase[s] /\ kept'[s] = kept[s]
    BY <1>q, Flushes
  <2>2. RecordFits(r, phase[r], kept[r])'
    BY <1>q, <2>1
  <2>3. kept'[r].names = kept[r].names /\ (\A b \in Brokers : job'[r][b] # "none" => kept'[r].names)
    BY <1>q, <1>k, <2>1 DEF WrittenByRecord
  <2>4. \A b \in Brokers : (vol'[b] = vol[b] \/ vol'[b].data = "empty") /\ (b \in leaving' => vol'[b].data # "none")
    BY <1>q, <1>k DEF StoragesOwned
  <2> QED
    BY <1>1, <1>q, <2>1, <2>2, <2>3, <2>4, RunnerKeeps
<1>d. ASSUME NEW p \in Phases, NEW k \in Status, Flush(r, p, k), UNCHANGED <<index, vol, leaving, job, pods>>,
             k.names = kept[r].names, RecordFits(r, p, k)
      PROVE  ClusterInv'
  <2>1. (phase'[r] = p /\ kept'[r] = k) => RecordFits(r, phase[r], kept[r])'
    BY <1>d DEF RecordFits
  <2>2. (phase'[r] = phase[r] /\ kept'[r] = kept[r]) => RecordFits(r, phase[r], kept[r])'
    BY <1>d, <1>f DEF RecordFits
  <2> QED
    BY <1>d, <2>1, <2>2, <1>q
<1>l. ASSUME Fail(r), UNCHANGED <<index, vol, leaving, job, pods>> PROVE ClusterInv'
  <2>1. RecordFits(r, "Failed", Failed(r))
    BY <1>k, <1>f, FailedRecord DEF RecordFits
  <2> QED
    BY <1>l, <1>k, <1>p, <2>1, <1>d, FailedRecord DEF Fail
<1>2. CASE Validate(r)
  <2>1. RecordFits(r, "Secondary", kept[r])
    BY <1>2, <1>f DEF Validate, Resolved, Runs, RecordFits, Running
  <2> QED
    BY <1>2, <1>k, <1>p, <2>1, <1>d, <1>l DEF Validate
<1>3. CASE RecordRepository(r)
  <2> DEFINE k == [kept[r] EXCEPT !.repository = TRUE]
  <2>1. k \in Status /\ k.repository /\ k.snapshots = kept[r].snapshots /\ k.recreated = kept[r].recreated
        /\ k.names = kept[r].names /\ k.held = kept[r].held
    BY <1>k DEF Status
  <2>2. Flush(r, "Secondary", k) /\ phase[r] = "Secondary" /\ UNCHANGED <<index, vol, leaving, job, pods>>
    BY <1>3 DEF RecordRepository, Resolved, Runs
  <2> HIDE DEF k
  <2>3. RecordFits(r, "Secondary", k)
    BY <1>f, <2>1, <2>2 DEF RecordFits
  <2> QED
    BY <1>p, <2>1, <2>2, <2>3, <1>d
<1>4. CASE RestoreIndices(r)
  <2> DEFINE k == [kept[r] EXCEPT !.snapshots = TRUE]
  <2>1. k \in Status /\ k.repository = kept[r].repository /\ k.snapshots /\ k.recreated = kept[r].recreated
        /\ k.names = kept[r].names /\ k.held = kept[r].held
    BY <1>k DEF Status
  <2>2. phase[r] = "Secondary" /\ kept[r].repository /\ ~kept[r].snapshots /\ UNCHANGED <<vol, leaving, job, pods>>
    BY <1>4 DEF RestoreIndices, Resolved, Runs
  <2>3. CASE index' \in {Holding("none", r), Holding("part", r)} /\ NoFlush
    <3>1. phase' = phase /\ kept' = kept /\ index'.by = r /\ index'.data \in {"none", "part"}
      BY <2>3 DEF NoFlush, Holding
    <3>2. RecordFits(r, phase[r], kept[r])'
      BY <1>f, <2>2, <3>1 DEF RecordFits, Running
    <3>3. \A b \in Brokers : (b \in leaving' => vol'[b].data # "none") /\ (job'[r][b] # "none" => kept'[r].names)
      BY <1>k, <2>2, <3>1 DEF StoragesOwned, WrittenByRecord
    <3> QED
      BY <1>1, <2>2, <3>1, <3>2, <3>3, RunnerKeeps
  <2>4. CASE index' = Holding("part", r) /\ Flush(r, "Secondary", k)
    <3>1. index'.by = r /\ index'.data = "part"
      BY <2>4 DEF Holding
    <3> HIDE DEF k
    <3>2. (phase'[r] = "Secondary" /\ kept'[r] = k) => RecordFits(r, phase[r], kept[r])'
      BY <1>f, <2>1, <2>2, <3>1 DEF RecordFits, Running
    <3>3. (phase'[r] = phase[r] /\ kept'[r] = kept[r]) => RecordFits(r, phase[r], kept[r])'
      BY <1>f, <2>2, <3>1 DEF RecordFits, Running
    <3> QED
      BY <1>p, <2>1, <2>2, <2>4, <3>1, <3>2, <3>3, <1>q
  <2> QED
    BY <1>4, <2>3, <2>4 DEF RestoreIndices
<1>5. CASE TrackRestore(r)
  <2>0. phase[r] = "Secondary" /\ kept[r].snapshots /\ UNCHANGED <<index, vol, leaving, job, pods>>
    BY <1>5 DEF TrackRestore, Resolved, Runs
  <2>1. CASE index.data = "full" /\ Flush(r, "Primary", kept[r])
    <3>1. index = Holding("full", r)
      <4>1. index.by = r /\ index \in Storage
        BY <1>f, <2>0 DEF RecordFits, TypeOK
      <4> QED
        BY <2>1, <4>1 DEF Storage, Holding
    <3>2. RecordFits(r, "Primary", kept[r])
      BY <1>f, <2>0, <2>1, <3>1 DEF RecordFits, Running
    <3> QED
      BY <2>0, <2>1, <3>2, <1>k, <1>p, <1>d
  <2> QED
    BY <1>5, <2>0, <2>1, <1>l DEF TrackRestore
<1>6. CASE RecreateClaims(r)
  <2> DEFINE unrecorded == Brokers \ (kept[r].recreated \cup Missing)
             recreated == kept[r].recreated \cup Missing \cup unrecorded
             n == unrecorded = {} /\ leaving \cap kept[r].recreated \subseteq Missing /\ recreated = kept[r].recreated
             k == [kept[r] EXCEPT !.recreated = recreated, !.names = n]
  <2>0. phase[r] = "Primary" /\ ~kept[r].names /\ UNCHANGED <<index, job, pods>> /\ leaving' = leaving \cup unrecorded
        /\ vol' = [b \in Brokers |-> IF b \in Missing THEN Holding("empty", r) ELSE vol[b]]
        /\ Flush(r, "Primary", k)
    BY <1>6 DEF RecreateClaims, Resolved, Runs
  <2>1. k \in Status /\ k.repository = kept[r].repository /\ k.snapshots = kept[r].snapshots /\ k.held = kept[r].held
    <3>1. recreated \in SUBSET Brokers /\ n \in BOOLEAN
      BY <1>k DEF Status, Missing
    <3>2. k = [kept[r] EXCEPT !.recreated = recreated, !.names = n]
      OBVIOUS
    <3> HIDE DEF recreated, n, k
    <3>3. recreated \in SUBSET Brokers /\ n \in BOOLEAN /\ kept[r] \in Status
      BY <3>1, <1>k
    <3>4. /\ k \in Status /\ k.recreated = recreated /\ k.names = n
          /\ k.repository = kept[r].repository /\ k.snapshots = kept[r].snapshots /\ k.held = kept[r].held
      BY <3>2, <3>3 DEF Status
    <3> QED
      BY <3>1, <3>4
  <2> HIDE DEF k
  <2>2. /\ phase'[r] = "Primary" /\ kept'[r] \in {kept[r], k}
        /\ \A s \in Restores \ {r} : phase'[s] = phase[s] /\ kept'[s] = kept[s]
    BY <2>0, <2>1, <1>p, Flushes
  <2>3. RecordFits(r, phase[r], kept[r])'
    BY <1>f, <2>0, <2>1, <2>2 DEF RecordFits, Running
  <2>4. \A b \in Brokers : vol'[b] = vol[b] \/ vol'[b].data = "empty"
    BY <2>0 DEF Holding
  <2>5. \A b \in Brokers : b \in leaving' => vol'[b].data # "none"
    BY <2>0, <1>k DEF Holding, Missing, StoragesOwned
  <2>6. \A b \in Brokers : job'[r][b] # "none" => kept'[r].names
    BY <2>0, <1>k DEF WrittenByRecord
  <2> QED
    BY <1>1, <2>0, <2>2, <2>3, <2>4, <2>5, <2>6, RunnerKeeps
<1>7. ASSUME NEW b \in Brokers, CreateJob(r, b) PROVE ClusterInv'
  <2>1. /\ UNCHANGED <<phase, kept, index, vol, leaving>> /\ kept[r].names
        /\ pods' = pods \cup {<<r, b>>} /\ job' = [job EXCEPT ![r][b] = "new"]
    BY <1>7 DEF CreateJob, NoFlush
  <2>2. \A s \in Restores \ {r} : job'[s] = job[s]
    BY <2>1 DEF TypeOK
  <2>3. RecordFits(r, phase[r], kept[r])'
    BY <1>f, <2>1 DEF RecordFits
  <2>4. \A c \in Brokers : c \in leaving' => vol'[c].data # "none"
    BY <1>k, <2>1 DEF StoragesOwned
  <2> QED
    BY <1>1, <2>1, <2>2, <2>3, <2>4, RunnerKeeps
<1>8. CASE TrackJobs(r)
  <2>0. phase[r] = "Primary" /\ UNCHANGED <<index, vol, leaving, job, pods>>
    BY <1>8 DEF TrackJobs, Resolved, Runs
  <2>1. CASE Flush(r, "Completed", kept[r])
    <3>1. RecordFits(r, "Completed", kept[r])
      BY <1>f, <2>0 DEF RecordFits, Running, Holding
    <3> QED
      BY <2>0, <2>1, <3>1, <1>k, <1>p, <1>d
  <2> QED
    BY <1>8, <2>0, <2>1, <1>l DEF TrackJobs
<1>9. CASE GraceOver(r)
  BY <1>9, <1>l DEF GraceOver
<1> QED
  BY <1>2, <1>3, <1>4, <1>5, <1>6, <1>7, <1>8, <1>9 DEF Run

(* The end of a restore, its deletion and its submission keep it.          *)
LEMMA EndKeeps ==
  ASSUME TypeOK, Counted, ClusterInv, NEW r \in Restores,
         Finish(r) \/ Finalize(r) \/ Submit(r) \/ Delete(r) \/ (\E b \in Brokers : RemoveJob(r, b))
  PROVE  ClusterInv'
<1> USE DEF cluster, work, bounds
<1>o. Own(r) /\ StoragesOwned
  BY DEF ClusterInv
<1>k. kept[r] \in Status /\ phase[r] \in Phases
      /\ life \in [Restores -> {"absent", "alive", "deleting", "gone"}]
      /\ job \in [Restores -> [Brokers -> JobStates]]
  BY DEF TypeOK, JobStates
<1>p. {"Pending", "Validating", "Secondary", "Primary", "Failed", "Completed"} = Phases
  BY DEF Phases, Running
<1>s. UNCHANGED <<index, vol, leaving>> => StoragesOwned'
  BY <1>o DEF StoragesOwned
<1>1. CASE Collect(r) \/ Resume(r) \/ Give(r)
  <2>1. /\ life[r] = "alive" /\ phase[r] \in {"Completed", "Failed"} /\ kept[r].held # "yes"
        /\ UNCHANGED <<life, phase, kept, running, index, vol, leaving, gaveUp, pods>>
        /\ claim' = claim \/ (claim = r /\ claim' = None)
        /\ writers' = writers \ {r}
        /\ holds' = holds \/ (holds' = holds \ {r} /\ phase[r] = "Completed" /\ ~HasPods(r))
        /\ job' \in {job, [job EXCEPT ![r] = [b \in Brokers |-> "none"]]}
    BY <1>1 DEF Collect, Resume, Give, Over, NoFlush
  <2>2. LeavesOthers(r)
    BY <2>1, <1>k DEF LeavesOthers, Same, HasPods
  <2>3. Recorded(r)' /\ UsesByClaim(r)'
    BY <2>1, <1>o DEF Own, Recorded, UsesByClaim, Using, Running, Terminal
  <2>4. HoldsBrokers(r)'
    BY <2>1, <1>o DEF Own, HoldsBrokers, AtWork, HasPods, Running
  <2>5. WrittenByRecord(r)'
    BY <2>1, <1>o, <1>k DEF Own, WrittenByRecord
  <2>6. IndexIsOwn(r)' /\ Watched(r)'
    BY <2>1, <1>o DEF Own, IndexIsOwn, Watched
  <2> QED
    BY <2>1, <2>2, <2>3, <2>4, <2>5, <2>6, <1>s, PassOf DEF Own
<1>2. CASE KeepWriter(r)
  <2>1. UNCHANGED <<life, phase, kept, claim, holds, running, index, vol, leaving, job, pods, gaveUp>>
        /\ writers' = writers \cup {r}
    BY <1>2 DEF KeepWriter, NoFlush
  <2>2. \A s \in Restores : Undisturbed(s)
    BY <2>1 DEF Undisturbed, Same, IndexMoves, HasPods
  <2> QED
    BY <2>1, <2>2, <1>s, NobodyDisturbed
<1>3. CASE EndRecovery(r)
  <2>1. /\ life[r] = "alive" /\ Terminal(r) /\ kept[r].held = "yes"
        /\ UNCHANGED <<life, holds, running, index, vol, leaving, job, pods>>
        /\ claim' = (IF claim = r THEN None ELSE claim) /\ writers' = writers \ {r}
        /\ gaveUp' \in {gaveUp, gaveUp \cup {r}} /\ (index.data = "part" => r \in gaveUp')
        /\ Flush(r, phase[r], [kept[r] EXCEPT !.held = "no"])
    BY <1>3 DEF EndRecovery, RecoveryOver
  <2> DEFINE k == [kept[r] EXCEPT !.held = "no"]
  <2>2. k \in Status /\ k.names = kept[r].names /\ k.recreated = kept[r].recreated
    BY <1>k DEF Status
  <2>f. Flush(r, phase[r], k)
    BY <2>1
  <2> HIDE DEF k
  <2>3. /\ phase'[r] = phase[r] /\ kept'[r].names = kept[r].names /\ kept'[r].recreated = kept[r].recreated
        /\ \A s \in Restores \ {r} : phase'[s] = phase[s] /\ kept'[s] = kept[s]
    BY <2>f, <2>2, <1>k, Flushes
  <2>4. LeavesOthers(r)
    BY <2>1, <2>3 DEF LeavesOthers, Same, HasPods
  <2>5. Recorded(r)'
    BY <2>1, <2>3, <1>o DEF Own, Recorded, Terminal
  <2>6. UsesByClaim(r)' /\ Watched(r)'
    BY <2>1, <2>3 DEF UsesByClaim, Using, Watched, Running, Terminal, Holding
  <2>7. HoldsBrokers(r)' /\ WrittenByRecord(r)' /\ IndexIsOwn(r)'
    BY <2>1, <2>3, <1>o DEF Own, HoldsBrokers, AtWork, HasPods, WrittenByRecord, IndexIsOwn, Terminal
  <2> QED
    BY <2>1, <2>4, <2>5, <2>6, <2>7, <1>s, PassOf DEF Own
<1>4. CASE HoldDeletion(r) \/ EndHeldDeletion(r)
  <2>0. PICK h \in {"yes", "no"} :
          /\ Flush(r, phase[r], [kept[r] EXCEPT !.held = h])
          /\ h = "yes" => writers' = writers \cup {r} /\ gaveUp' = gaveUp
          /\ h = "no" => (index.data = "part" => r \in gaveUp')
          /\ writers' \in {writers \cup {r}, writers \ {r}} /\ gaveUp' \in {gaveUp, gaveUp \cup {r}}
          /\ h = "no" \/ index.data = "part"
    BY <1>4 DEF HoldDeletion, EndHeldDeletion, RecoveryOver
  <2>1. life[r] = "deleting" /\ FinalHeld(r)
        /\ UNCHANGED <<life, claim, holds, running, index, vol, leaving, job, pods>>
    BY <1>4 DEF HoldDeletion, EndHeldDeletion, FinalHeld
  <2>p. phase[r] # "Pending" /\ (phase[r] \in Running \/ kept[r].held = "yes")
    BY <2>1, <1>o, <1>k DEF FinalHeld, Own, Recorded, Terminal, Phases
  <2> DEFINE k == [kept[r] EXCEPT !.held = h]
  <2>2. k \in Status /\ k.names = kept[r].names /\ k.recreated = kept[r].recreated
        /\ k.snapshots = kept[r].snapshots /\ k.repository = kept[r].repository /\ k.held = h
    BY <1>k DEF Status
  <2> HIDE DEF k
  <2>3. /\ phase'[r] = phase[r] /\ kept'[r] \in {kept[r], k}
        /\ \A s \in Restores \ {r} : phase'[s] = phase[s] /\ kept'[s] = kept[s]
    BY <2>0, <2>2, <1>k, Flushes DEF k
  <2>4. LeavesOthers(r)
    BY <2>0, <2>1, <2>3 DEF LeavesOthers, Same, HasPods
  <2>5. Recorded(r)'
    BY <2>1, <2>2, <2>3, <2>p, <1>o DEF Own, Recorded, Terminal
  <2>6. UsesByClaim(r)'
    <3>1. ASSUME Using(r)' PROVE Using(r)
      <4>1. r \notin gaveUp /\ (phase[r] \in Running \/ (kept'[r].held = "yes" /\ index = Holding("part", r)))
        BY <3>1, <2>0, <2>1, <2>3 DEF Using
      <4> QED
        BY <4>1, <2>1, <2>p DEF Using, Exists
    <3> QED
      BY <3>1, <2>1, <1>o DEF Own, UsesByClaim
  <2>7. Watched(r)'
    <3>1. ASSUME index.data = "part", index.by = r, r \notin gaveUp' PROVE h = "yes" /\ r \notin gaveUp
      BY <3>1, <2>0
    <3> QED
      BY <3>1, <2>0, <2>1, <2>2, <2>3, <1>o DEF Own, Watched, Exists
  <2>8. HoldsBrokers(r)' /\ WrittenByRecord(r)' /\ IndexIsOwn(r)'
    BY <2>1, <2>2, <2>3, <1>o DEF Own, HoldsBrokers, AtWork, HasPods, WrittenByRecord, IndexIsOwn
  <2> QED
    BY <2>1, <2>4, <2>5, <2>6, <2>7, <2>8, <1>s, PassOf DEF Own
<1>5. CASE RemoveJobs(r) \/ ReleaseHold(r) \/ RemoveFinalizer(r)
  <2>1. /\ life[r] = "deleting" /\ ~FinalHeld(r)
        /\ UNCHANGED <<phase, kept, claim, running, index, vol, leaving, gaveUp, pods>>
        /\ writers' = writers \ {r}
        /\ life'[r] \in {"deleting", "gone"} /\ \A s \in Restores \ {r} : life'[s] = life[s]
        /\ holds' = holds \/ (holds' = holds \ {r} /\ ~HasPods(r))
        /\ job' \in {job, [job EXCEPT ![r] = [b \in Brokers |-> "none"]]}
    BY <1>5, <1>k DEF RemoveJobs, ReleaseHold, RemoveFinalizer, Finalizes
  <2>2. LeavesOthers(r)
    BY <2>1, <1>k DEF LeavesOthers, Same, HasPods
  <2>3. Recorded(r)' /\ UsesByClaim(r)'
    BY <2>1, <1>o DEF Own, Recorded, UsesByClaim, Using, Exists, Terminal
  <2>4. HoldsBrokers(r)'
    BY <2>1, <1>o DEF Own, HoldsBrokers, AtWork, HasPods
  <2>5. WrittenByRecord(r)'
    BY <2>1, <1>o, <1>k DEF Own, WrittenByRecord
  <2>6. IndexIsOwn(r)' /\ Watched(r)'
    BY <2>1, <1>o DEF Own, IndexIsOwn, Watched, FinalHeld, Terminal
  <2> QED
    BY <2>1, <2>2, <2>3, <2>4, <2>5, <2>6, <1>s, PassOf DEF Own
<1>6. CASE Submit(r) \/ Delete(r)
  <2>1. /\ UNCHANGED <<phase, kept, claim, holds, running, index, vol, leaving, gaveUp, pods, job, writers>>
        /\ \A s \in Restores \ {r} : life'[s] = life[s]
        /\ \/ life[r] = "absent" /\ life'[r] = "alive"
           \/ life[r] = "alive" /\ life'[r] = "deleting"
    BY <1>6, <1>k DEF Submit, Delete
  <2>2. LeavesOthers(r)
    BY <2>1 DEF LeavesOthers, Same, HasPods
  <2>3. Recorded(r)' /\ UsesByClaim(r)'
    BY <2>1, <1>o DEF Own, Recorded, UsesByClaim, Using, Exists, Terminal, Running
  <2>4. HoldsBrokers(r)' /\ WrittenByRecord(r)'
    BY <2>1, <1>o DEF Own, Recorded, HoldsBrokers, AtWork, HasPods, WrittenByRecord, Running
  <2>5. IndexIsOwn(r)' /\ Watched(r)'
    BY <2>1, <1>o DEF Own, Recorded, IndexIsOwn, Watched, Exists
  <2> QED
    BY <2>1, <2>2, <2>3, <2>4, <2>5, <1>s, PassOf DEF Own
<1>7. ASSUME NEW b \in Brokers, RemoveJob(r, b) PROVE ClusterInv'
  <2>1. UNCHANGED <<life, phase, kept, claim, holds, running, index, vol, leaving, pods, gaveUp, writers>>
        /\ job' = [job EXCEPT ![r][b] = "none"]
    BY <1>7 DEF RemoveJob
  <2>2. \A s \in Restores : \A c \in Brokers : job'[s][c] # "none" => job[s][c] # "none"
    BY <2>1, <1>k
  <2>3. \A s \in Restores : Undisturbed(s)
    BY <2>1, <2>2 DEF Undisturbed, Same, IndexMoves, HasPods
  <2> QED
    BY <2>1, <2>3, <1>s, NobodyDisturbed
<1> QED
  BY <1>1, <1>2, <1>3, <1>4, <1>5, <1>6, <1>7 DEF Finish, Finalize

(* The initial states, and every step.                                     *)
LEMMA ClusterInit == Init => TypeOK /\ Counted /\ ClusterInv
<1> SUFFICES ASSUME Init PROVE TypeOK /\ Counted /\ ClusterInv
  OBVIOUS
<1>1. /\ life = [r \in Restores |-> "absent"] /\ phase = [r \in Restores |-> "Pending"]
      /\ kept = [r \in Restores |-> NoStatus] /\ claim = None /\ holds = {}
      /\ suspendedBy \subseteq {"user", "restore"} /\ running \in BOOLEAN /\ writers = {}
      /\ index = Holding("live", None) /\ vol = [b \in Brokers |-> Holding("live", None)]
      /\ leaving = {} /\ job = [r \in Restores |-> [b \in Brokers |-> "none"]]
      /\ pods = {} /\ faults = 0 /\ gaveUp = {}
  BY DEF Init
<1>2. NoStatus \in Status /\ "Pending" \in Phases /\ Holding("live", None) \in Storage /\ 0 \in 0..MaxFaults
  BY EsRestoreConstants, StorageTypes DEF NoStatus, Status, Phases
<1>3. TypeOK
  BY <1>1, <1>2 DEF TypeOK
<1>4. Counted
  BY <1>1, FS_EmptySet DEF Counted
<1>5. StoragesOwned
  BY <1>1 DEF StoragesOwned, Holding
<1>6. ASSUME NEW r \in Restores PROVE Own(r)
  <2>1. life[r] = "absent" /\ phase[r] = "Pending" /\ kept[r] = NoStatus /\ \A b \in Brokers : job[r][b] = "none"
    BY <1>1
  <2>2. Recorded(r) /\ UsesByClaim(r) /\ HoldsBrokers(r)
    BY <1>1, <2>1 DEF Recorded, UsesByClaim, Using, Exists, HoldsBrokers, AtWork, HasPods, NoStatus, Terminal
  <2>3. WrittenByRecord(r) /\ IndexIsOwn(r) /\ Watched(r)
    BY <1>1, <2>1 DEF WrittenByRecord, IndexIsOwn, Watched, Holding
  <2> QED
    BY <2>2, <2>3 DEF Own
<1> QED
  BY <1>3, <1>4, <1>5, <1>6 DEF ClusterInv

(* Every step keeps the invariant.                                         *)
LEMMA ClusterStep == TypeOK /\ Counted /\ ClusterInv /\ [Next]_vars => ClusterInv'
<1> SUFFICES ASSUME TypeOK, Counted, ClusterInv, [Next]_vars PROVE ClusterInv'
  OBVIOUS
<1>1. CASE UNCHANGED vars
  <2>1. UNCHANGED <<life, phase, kept, claim, holds, running, index, vol, leaving, job, pods, gaveUp, writers>>
    BY <1>1 DEF vars, cluster, work, bounds
  <2>2. \A s \in Restores : Undisturbed(s)
    BY <2>1 DEF Undisturbed, Same, IndexMoves, HasPods
  <2>3. StoragesOwned'
    BY <2>1 DEF ClusterInv, StoragesOwned
  <2> QED
    BY <2>2, <2>3, NobodyDisturbed
<1> QED
  BY <1>1, WorkloadKeeps, AdmissionKeeps, RunKeeps, EndKeeps DEF Next

(* The inductive invariant of the restores of a cluster.                   *)
THEOREM RestoreInvariant == Spec => [](TypeOK /\ Counted /\ ClusterInv)
<1>1. TypeOK /\ Counted /\ ClusterInv /\ [Next]_vars => TypeOK' /\ Counted' /\ ClusterInv'
  BY TypeStep, ClusterStep
<1> QED
  BY <1>1, ClusterInit, PTL DEF Spec

(* The restores stay in their types.                                       *)
THEOREM RestoreTypeCorrect == Spec => []TypeOK
<1>1. TypeOK /\ Counted /\ ClusterInv => TypeOK
  OBVIOUS
<1> QED
  BY <1>1, RestoreInvariant, PTL

(* No broker runs while a pod of a restore can still mount its volume: a   *)
(* restore keeps its hold for as long as one of its pods is left.          *)
THEOREM NoPodRunsUnderBrokers == Spec => []NoPodUnderBrokers
<1>1. TypeOK /\ Counted /\ ClusterInv => NoPodUnderBrokers
  <2> SUFFICES ASSUME TypeOK, ClusterInv, running, NEW p \in pods PROVE FALSE
    BY DEF NoPodUnderBrokers
  <2>1. PICK r \in Restores, b \in Brokers : p = <<r, b>>
    BY DEF TypeOK
  <2>2. HasPods(r)
    BY <2>1 DEF HasPods
  <2> QED
    BY <2>2 DEF ClusterInv, Own, HoldsBrokers
<1> QED
  BY <1>1, RestoreInvariant, PTL

(* While Elasticsearch writes the snapshots of a restore, its registration *)
(* keeps other clusters off, however the restore ends.                     *)
THEOREM RecoveryIsCovered == Spec => []WriterCoversRecovery
<1>1. TypeOK /\ Counted /\ ClusterInv => WriterCoversRecovery
  BY DEF ClusterInv, StoragesOwned, Own, Watched, WriterCoversRecovery
<1> QED
  BY <1>1, RestoreInvariant, PTL

(* No volume is deleted after a Job of a restore that goes on wrote to it: *)
(* the volumes are replaced before the Jobs are on record, and the claim   *)
(* keeps every other restore off.                                          *)
THEOREM WrittenVolumesAreKept == Spec => WrittenVolumesKept
<1>1. TypeOK /\ Counted /\ ClusterInv /\ [Next]_vars =>
        [\A b \in leaving' \ leaving :
           vol[b].data \in {"part", "full"} => Terminal(vol[b].by) \/ life[vol[b].by] # "alive"]_vars
  <2> SUFFICES ASSUME TypeOK, ClusterInv, Next, NEW b \in leaving' \ leaving,
                      vol[b].data \in {"part", "full"}, ~Terminal(vol[b].by), life[vol[b].by] = "alive"
               PROVE  FALSE
    OBVIOUS
  <2>0. ~(leaving' \subseteq leaving)
    OBVIOUS
  <2>1. PICK r \in Restores : RecreateClaims(r)
    <3>1. ~Workload /\ ~UserSuspends
      BY <2>0 DEF Workload, ScaleDown, ScaleUp, Recover, ClaimGone, JobStarts, JobEnds, PodGone, UserSuspends
    <3>2. \A r \in Restores : ~Admission(r) /\ ~Submit(r) /\ ~Delete(r) /\ \A d \in Brokers : ~RemoveJob(r, d)
      BY <2>0 DEF Admission, SuspendTarget, AdoptSuspension, AwaitBrokers, AwaitClaim, Start, StaysPending,
         Submit, Delete, RemoveJob
    <3>3. \A r \in Restores : ~Finish(r) /\ ~Finalize(r)
      BY <2>0 DEF Finish, Collect, Resume, Give, Over, KeepWriter, EndRecovery, Finalize, HoldDeletion,
         EndHeldDeletion, Finalizes, RemoveJobs, ReleaseHold, RemoveFinalizer
    <3>4. \A r \in Restores : Run(r) \/ GraceOver(r) => RecreateClaims(r)
      BY <2>0 DEF Run, GraceOver, Validate, RecordRepository, RestoreIndices, TrackRestore, CreateJob, TrackJobs
    <3> QED
      BY <3>1, <3>2, <3>3, <3>4 DEF Next
  <2>2. life[r] = "alive" /\ phase[r] = "Primary" /\ ~kept[r].names /\ leaving' \subseteq Brokers
    BY <2>1 DEF RecreateClaims, Resolved, Runs, TypeOK
  <2>3. b \in Brokers /\ vol[b].by \in Restores
    BY <2>2 DEF ClusterInv, StoragesOwned
  <2>4. Own(vol[b].by) /\ kept[vol[b].by].names /\ claim = r
    BY <2>2, <2>3, RunnerFacts DEF ClusterInv, Own, WrittenByRecord, Running
  <2>5. phase[vol[b].by] \in Running
    BY <2>3, <2>4 DEF TypeOK, Own, Recorded, Terminal, Phases
  <2> QED
    BY <2>2, <2>3, <2>4, <2>5, RunnerFacts
<1> QED
  BY <1>1, RestoreInvariant, PTL DEF Spec, WrittenVolumesKept

-----------------------------------------------------------------------------
(* Brokers never run over a half restored storage.                         *)

(* A flush writes the status of one restore, or nothing.                   *)
LEMMA FlushOfOne ==
  ASSUME TypeOK, NEW r \in Restores, NEW p, NEW k, Flush(r, p, k)
  PROVE  /\ phase'[r] \in {p, phase[r]} /\ kept'[r] \in {k, kept[r]}
         /\ \A s \in Restores \ {r} : phase'[s] = phase[s] /\ kept'[s] = kept[s]
BY DEF Flush, TypeOK

(* The actions of one restore, the requests of users included.             *)
ActionOf(r) ==
  \/ Admission(r) \/ Run(r) \/ GraceOver(r) \/ Finish(r) \/ Finalize(r)
  \/ Submit(r) \/ Delete(r)
  \/ \E b \in Brokers : RemoveJob(r, b)

(* Only a restore that goes on leaves its phase, and a deletion is for     *)
(* good.                                                                   *)
Moves(s) ==
  /\ phase'[s] = phase[s] \/ (life[s] = "alive" /\ ~Terminal(s))
  /\ life[s] \in {"deleting", "gone"} => life'[s] \in {"deleting", "gone"}
  /\ life[s] = "alive" => life'[s] \in {"alive", "deleting"}

(* A pass of r leaves the status of the others alone, and moves its own    *)
(* only as above.                                                          *)
LEMMA PassMoves ==
  ASSUME TypeOK, ClusterInv, NEW r \in Restores, ActionOf(r)
  PROVE  /\ \A s \in Restores \ {r} : life'[s] = life[s] /\ phase'[s] = phase[s] /\ kept'[s] = kept[s]
         /\ \A s \in Restores : Moves(s)
<1> DEFINE Others == \A s \in Restores \ {r} : life'[s] = life[s] /\ phase'[s] = phase[s] /\ kept'[s] = kept[s]
<1>0. life \in [Restores -> {"absent", "alive", "deleting", "gone"}]
  BY DEF TypeOK
<1>1. Others /\ Moves(r)
  <2>1. CASE Admission(r)
    <3>1. life[r] = "alive" /\ ~Terminal(r) /\ UNCHANGED life
      BY <2>1 DEF Admission, SuspendTarget, AdoptSuspension, AwaitBrokers, AwaitClaim, Start, Enters,
         StaysPending, Terminal
    <3>2. \A s \in Restores \ {r} : phase'[s] = phase[s] /\ kept'[s] = kept[s]
      BY <2>1, FlushOfOne DEF Admission, SuspendTarget, AdoptSuspension, AwaitBrokers, AwaitClaim, Start, NoFlush
    <3> QED
      BY <3>1, <3>2 DEF Moves
  <2>2. CASE Run(r) \/ GraceOver(r)
    <3>1. life[r] = "alive" /\ ~Terminal(r) /\ UNCHANGED life
      BY <2>2 DEF Run, GraceOver, Validate, RecordRepository, RestoreIndices, TrackRestore, RecreateClaims,
         CreateJob, TrackJobs, Resolved, Runs, Running, Terminal
    <3>2. \A s \in Restores \ {r} : phase'[s] = phase[s] /\ kept'[s] = kept[s]
      <4>1. CASE NoFlush
        BY <4>1 DEF NoFlush
      <4>2. CASE \E p, k : Flush(r, p, k)
        BY <4>2, FlushOfOne
      <4> QED
        BY <2>2, <4>1, <4>2 DEF Run, GraceOver, Validate, RecordRepository, RestoreIndices, TrackRestore,
           RecreateClaims, CreateJob, TrackJobs, Fail
    <3> QED
      BY <3>1, <3>2 DEF Moves
  <2>3. CASE Finish(r) \/ HoldDeletion(r) \/ EndHeldDeletion(r)
    <3>1. UNCHANGED life
      BY <2>3 DEF Finish, Collect, Resume, Give, Over, KeepWriter, EndRecovery, HoldDeletion, EndHeldDeletion
    <3>2. (\A s \in Restores \ {r} : phase'[s] = phase[s] /\ kept'[s] = kept[s]) /\ phase'[r] = phase[r]
      <4>1. CASE NoFlush
        BY <4>1 DEF NoFlush
      <4>2. CASE \E k : Flush(r, phase[r], k)
        BY <4>2, FlushOfOne
      <4> QED
        BY <2>3, <4>1, <4>2 DEF Finish, Collect, Resume, Give, Over, KeepWriter, EndRecovery, HoldDeletion,
           EndHeldDeletion
    <3> QED
      BY <3>1, <3>2, <1>0 DEF Moves
  <2>4. CASE RemoveJobs(r) \/ ReleaseHold(r) \/ RemoveFinalizer(r)
    BY <2>4, <1>0 DEF RemoveJobs, ReleaseHold, RemoveFinalizer, Finalizes, Moves
  <2>5. CASE Submit(r) \/ Delete(r)
    BY <2>5, <1>0 DEF Submit, Delete, Moves
  <2>6. CASE \E b \in Brokers : RemoveJob(r, b)
    BY <2>6, <1>0 DEF RemoveJob, Moves
  <2> QED
    BY <2>1, <2>2, <2>3, <2>4, <2>5, <2>6 DEF ActionOf, Finalize
<1> QED
  BY <1>0, <1>1 DEF Moves

(* A failure, or a deletion before the end, is never undone.               *)
LEMMA UnspoiltBefore ==
  ASSUME TypeOK, ClusterInv, [Next]_vars, Unspoilt'
  PROVE  Unspoilt
<1>1. \A s \in Restores : Moves(s)
  <2>0. life \in [Restores -> {"absent", "alive", "deleting", "gone"}]
    BY DEF TypeOK
  <2>1. CASE \E r \in Restores : ActionOf(r)
    BY <2>1, PassMoves
  <2>2. CASE Workload \/ UserSuspends \/ UNCHANGED vars
    <3>1. UNCHANGED <<life, phase>>
      BY <2>2 DEF Workload, UserSuspends, vars, ScaleDown, ScaleUp, Recover, ClaimGone, JobStarts, JobEnds,
         PodGone, Status_
    <3> QED
      BY <3>1, <2>0 DEF Moves
  <2> QED
    BY <2>1, <2>2 DEF Next, ActionOf
<1> QED
  BY <1>1 DEF Unspoilt, Moves, Terminal

-----------------------------------------------------------------------------
Busy == \E r \in Restores : life[r] = "alive" /\ phase[r] \in Running

(* Only one restore is at work at a time.                                  *)
LEMMA OneRuns ==
  ASSUME ClusterInv, NEW r \in Restores, NEW s \in Restores,
         life[r] = "alive", phase[r] \in Running, life[s] = "alive", phase[s] \in Running
  PROVE  s = r
BY RunnerFacts

(* The volumes stay and no restore enters or leaves the Primary phase.     *)
LEMMA QuietKeeps ==
  ASSUME RestoreIsSound, UNCHANGED <<vol, leaving>>, running' => running,
         \A s \in Restores : InPrimary(s) =>
           InPrimary(s)' /\ kept'[s].names = kept[s].names /\ kept'[s].recreated = kept[s].recreated,
         \A s \in Restores : InPrimary(s)' /\ ~InPrimary(s) => kept'[s].recreated = {} /\ ~kept'[s].names,
         \A s \in Restores, b \in Brokers :
           job'[s][b] \in {job[s][b], "none"} \/ (job'[s][b] = "new" /\ InPrimary(s)),
         Busy => Busy', index' = index \/ Busy'
  PROVE  RestoreIsSound'
<1>1. leaving' # {} => \E r \in Restores : InPrimary(r)' /\ ~kept'[r].names
  BY DEF RestoreIsSound
<1>2. \A r \in Restores, b \in Brokers : job'[r][b] \in {"new", "active", "failed"} => InPrimary(r)'
  BY DEF RestoreIsSound
<1>3. ASSUME NEW r \in Restores, InPrimary(r)' PROVE Replaced(r)'
  <2>1. CASE InPrimary(r)
    BY <1>3, <2>1 DEF RestoreIsSound, Replaced
  <2>2. CASE ~InPrimary(r)
    BY <1>3, <2>2 DEF Replaced
  <2> QED
    BY <2>1, <2>2
<1>4. ~Busy' => AllLive' \/ (~running' /\ \E r \in Restores : Whole(r)')
  BY DEF RestoreIsSound, Busy, AllLive, Whole
<1> QED
  BY <1>1, <1>2, <1>3, <1>4 DEF RestoreIsSound, Busy

(* What runs beside the controller moves no restore.                       *)
LEMMA BesideKeeps ==
  ASSUME RestoreIsSound, UNCHANGED <<life, phase, kept>>, leaving' \subseteq leaving,
         \A s \in Restores, b \in Brokers :
           job'[s][b] \in {"new", "active", "failed"} => job[s][b] \in {"new", "active", "failed"},
         \A s \in Restores : InPrimary(s) => Replaced(s)',
         ~Busy => AllLive' \/ (~running' /\ \E r \in Restores : Whole(r)')
  PROVE  RestoreIsSound'
<1>1. \A s \in Restores : InPrimary(s)' = InPrimary(s)
  BY DEF InPrimary
<1>2. Busy' = Busy
  BY DEF Busy
<1>3. leaving' # {} => \E r \in Restores : InPrimary(r)' /\ ~kept'[r].names
  BY <1>1 DEF RestoreIsSound
<1>4. \A r \in Restores, b \in Brokers : job'[r][b] \in {"new", "active", "failed"} => InPrimary(r)'
  BY <1>1 DEF RestoreIsSound
<1> QED
  BY <1>1, <1>2, <1>3, <1>4 DEF RestoreIsSound, Busy

(* The cluster, Elasticsearch and the Jobs: a volume moves only for the    *)
(* restore in its Primary phase, and the brokers start only when no        *)
(* restore is under way.                                                   *)
LEMMA WorkloadIsSound ==
  ASSUME TypeOK, ClusterInv, Unspoilt, RestoreIsSound, Workload \/ UserSuspends
  PROVE  RestoreIsSound'
<1> USE DEF cluster, work, bounds, Status_
<1>t. /\ index \in Storage /\ vol \in [Brokers -> Storage] /\ leaving \subseteq Brokers
      /\ job \in [Restores -> [Brokers -> JobStates]]
  BY DEF TypeOK, JobStates
<1>s. UNCHANGED <<life, phase, kept>>
  BY DEF Workload, UserSuspends, ScaleDown, ScaleUp, Recover, ClaimGone, JobStarts, JobEnds, PodGone
<1>w. ~Busy => AllLive \/ (~running /\ \E r \in Restores : Whole(r))
  BY DEF RestoreIsSound, Busy
<1>p. \A s \in Restores : InPrimary(s) => Replaced(s)
  BY DEF RestoreIsSound
<1>b. \A s \in Restores : InPrimary(s) => Busy
  BY DEF InPrimary, Busy, Running
<1>j. ASSUME UNCHANGED <<vol, leaving, index, job>>, running' => running PROVE RestoreIsSound'
  <2>1. \A s \in Restores : InPrimary(s) => Replaced(s)'
    BY <1>p, <1>s, <1>j DEF Replaced
  <2>2. ~Busy => AllLive' \/ (~running' /\ \E r \in Restores : Whole(r)')
    BY <1>w, <1>j DEF AllLive, Whole
  <2>3. \A s \in Restores, b \in Brokers :
           job'[s][b] \in {"new", "active", "failed"} => job[s][b] \in {"new", "active", "failed"}
    BY <1>j
  <2> QED
    BY <2>1, <2>2, <2>3, <1>s, <1>j, BesideKeeps
<1>1. CASE ScaleDown \/ UserSuspends
  BY <1>1, <1>j DEF ScaleDown, UserSuspends
<1>2. CASE ScaleUp
  <2>1. ~running /\ UNCHANGED <<leaving, job>> /\ holds = {}
        /\ IF \E r \in Restores : Whole(r)
           THEN /\ index' = Holding("live", None)
                /\ vol' = [b \in Brokers |-> Holding("live", None)]
           ELSE /\ vol' = [b \in Brokers |->
                             IF b \in Missing THEN Holding("empty", None) ELSE vol[b]]
                /\ UNCHANGED index
    BY <1>2 DEF ScaleUp, SuspendRequested
  <2>2. ~Busy
    BY <2>1, RunnerFacts DEF Busy
  <2>3. AllLive'
    <3>1. CASE \E r \in Restores : Whole(r)
      BY <2>1, <3>1 DEF AllLive, Holding
    <3>2. CASE ~\E r \in Restores : Whole(r)
      <4>1. AllLive /\ index' = index
        BY <1>w, <2>1, <2>2, <3>2
      <4>2. \A b \in Brokers : vol'[b] = vol[b]
        BY <2>1, <3>2, <4>1 DEF AllLive, Missing
      <4> QED
        BY <4>1, <4>2 DEF AllLive
    <3> QED
      BY <3>1, <3>2
  <2>4. \A s \in Restores : ~InPrimary(s)
    BY <2>2, <1>b
  <2>5. \A s \in Restores, b \in Brokers :
           job'[s][b] \in {"new", "active", "failed"} => job[s][b] \in {"new", "active", "failed"}
    BY <2>1
  <2> QED
    BY <2>1, <2>3, <2>4, <2>5, <1>s, BesideKeeps
<1>3. CASE Recover
  <2>1. index.data = "part" /\ UNCHANGED <<running, vol, leaving, job>>
    BY <1>3 DEF Recover
  <2>2. Busy
    <3>1. \A r : Holding("full", r).data = "full"
      BY DEF Holding
    <3>2. ~AllLive
      BY <2>1 DEF AllLive
    <3>3. \A r \in Restores : ~Whole(r)
      BY <2>1, <3>1 DEF Whole
    <3> QED
      BY <3>2, <3>3, <1>w
  <2>3. \A s \in Restores : InPrimary(s) => Replaced(s)'
    BY <1>p, <1>s, <2>1 DEF Replaced
  <2>4. \A s \in Restores, b \in Brokers :
           job'[s][b] \in {"new", "active", "failed"} => job[s][b] \in {"new", "active", "failed"}
    BY <2>1
  <2> QED
    BY <2>1, <2>2, <2>3, <2>4, <1>s, BesideKeeps
<1>4. ASSUME NEW b \in Brokers, ClaimGone(b) PROVE RestoreIsSound'
  <2>1. /\ b \in leaving /\ leaving' = leaving \ {b} /\ UNCHANGED <<running, index, job>>
        /\ vol' = [vol EXCEPT ![b] = Holding("none", @.by)]
    BY <1>4 DEF ClaimGone
  <2>2. PICK q \in Restores : InPrimary(q) /\ ~kept[q].names
    BY <2>1 DEF RestoreIsSound
  <2>3. Busy
    BY <2>2, <1>b
  <2>4. \A s \in Restores : InPrimary(s) => s = q
    BY <2>2, OneRuns DEF InPrimary, Running
  <2>5. vol'[b].data = "none" /\ \A c \in Brokers \ {b} : vol'[c] = vol[c]
    BY <2>1, <1>t DEF Holding
  <2>6. kept[q].recreated \subseteq Brokers
    BY DEF TypeOK, Status
  <2>7. Replaced(q)'
    BY <2>1, <2>2, <2>5, <2>6, <1>p, <1>s DEF Replaced
  <2>8. \A s \in Restores, c \in Brokers :
           job'[s][c] \in {"new", "active", "failed"} => job[s][c] \in {"new", "active", "failed"}
    BY <2>1
  <2> QED
    BY <2>1, <2>3, <2>4, <2>7, <2>8, <1>s, BesideKeeps
<1>5. ASSUME NEW r \in Restores, NEW b \in Brokers, JobStarts(r, b) \/ JobEnds(r, b) PROVE RestoreIsSound'
  <2>1. /\ job[r][b] \in {"new", "active"} /\ UNCHANGED <<running, index, leaving>>
        /\ \E x \in {"active", "done", "failed"} :
             /\ job' = [job EXCEPT ![r][b] = x]
             /\ \/ vol' = vol /\ x = "failed"
                \/ vol' = [vol EXCEPT ![b] = Holding("part", r)] /\ x = "active"
                \/ vol' = [vol EXCEPT ![b] = Holding("full", r)] /\ x = "done"
    BY <1>5 DEF JobStarts, JobEnds
  <2>2. PICK x \in {"active", "done", "failed"} :
             /\ job' = [job EXCEPT ![r][b] = x]
             /\ \/ vol' = vol /\ x = "failed"
                \/ vol' = [vol EXCEPT ![b] = Holding("part", r)] /\ x = "active"
                \/ vol' = [vol EXCEPT ![b] = Holding("full", r)] /\ x = "done"
    BY <2>1
  <2>3. InPrimary(r)
    BY <2>1 DEF RestoreIsSound
  <2>4. \A s \in Restores : InPrimary(s) => s = r
    BY <2>3, OneRuns DEF InPrimary, Running
  <2>5. kept[r].names
    BY <2>1 DEF ClusterInv, Own, WrittenByRecord
  <2>6. /\ job'[r][b] = x /\ \A c \in Brokers \ {b} : job'[r][c] = job[r][c]
        /\ \A s \in Restores \ {r} : job'[s] = job[s]
    BY <2>2, <1>t
  <2>7. /\ \A c \in Brokers \ {b} : vol'[c] = vol[c]
        /\ \/ vol'[b] = vol[b] /\ x = "failed"
           \/ vol'[b].by = r /\ vol'[b].data = "part" /\ x = "active"
           \/ vol'[b].by = r /\ vol'[b].data = "full" /\ x = "done"
    BY <2>2, <1>t DEF Holding
  <2>8. \A c \in Brokers :
          /\ vol'[c].by = r /\ vol'[c].data \in {"empty", "part", "full"}
          /\ job'[r][c] = "done" => vol'[c].data = "full"
    BY <2>3, <2>5, <2>6, <2>7, <1>p DEF Replaced
  <2>9. Replaced(r)'
    BY <2>8, <1>s DEF Replaced, TypeOK, Status
  <2>10. \A s \in Restores, c \in Brokers :
           job'[s][c] \in {"new", "active", "failed"} => job[s][c] \in {"new", "active", "failed"}
    BY <2>1, <2>6
  <2>11. Busy
    BY <2>3, <1>b
  <2> QED
    BY <2>1, <2>4, <2>9, <2>10, <2>11, <1>s, BesideKeeps
<1>6. ASSUME NEW r \in Restores, NEW b \in Brokers, PodGone(r, b) PROVE RestoreIsSound'
  BY <1>6, <1>j DEF PodGone
<1> QED
  BY <1>1, <1>2, <1>3, <1>4, <1>5, <1>6 DEF Workload

(* A pass that moves no volume and no Primary restore.                     *)
LEMMA PassIsSound ==
  ASSUME TypeOK, ClusterInv, RestoreIsSound, NEW r \in Restores, ActionOf(r),
         UNCHANGED <<vol, leaving, running>>,
         InPrimary(r) => InPrimary(r)' /\ kept'[r].names = kept[r].names /\ kept'[r].recreated = kept[r].recreated,
         InPrimary(r)' /\ ~InPrimary(r) => kept'[r].recreated = {} /\ ~kept'[r].names,
         life[r] = "alive" /\ phase[r] \in Running => (life[r] = "alive" /\ phase[r] \in Running)',
         index' = index \/ (life[r] = "alive" /\ phase[r] \in Running)',
         \A s \in Restores, b \in Brokers :
           job'[s][b] \in {job[s][b], "none"} \/ (job'[s][b] = "new" /\ InPrimary(s))
  PROVE  RestoreIsSound'
<1>1. \A s \in Restores \ {r} : life'[s] = life[s] /\ phase'[s] = phase[s] /\ kept'[s] = kept[s]
  BY PassMoves
<1>2. \A s \in Restores : InPrimary(s) =>
        InPrimary(s)' /\ kept'[s].names = kept[s].names /\ kept'[s].recreated = kept[s].recreated
  BY <1>1 DEF InPrimary
<1>3. \A s \in Restores : InPrimary(s)' /\ ~InPrimary(s) => kept'[s].recreated = {} /\ ~kept'[s].names
  BY <1>1 DEF InPrimary
<1>4. Busy => Busy'
  BY <1>1 DEF Busy
<1>5. index' = index \/ Busy'
  BY DEF Busy
<1> QED
  BY <1>2, <1>3, <1>4, <1>5, QuietKeeps

(* A restore that is admitted, ends or is deleted.                         *)
LEMMA EndIsSound ==
  ASSUME TypeOK, Counted, ClusterInv, Unspoilt', RestoreIsSound, NEW r \in Restores,
         Admission(r) \/ Finish(r) \/ Finalize(r) \/ Submit(r) \/ Delete(r) \/ (\E b \in Brokers : RemoveJob(r, b))
  PROVE  RestoreIsSound'
<1> USE DEF cluster, work, bounds
<1>0. ActionOf(r)
  BY DEF ActionOf
<1>t. /\ job \in [Restores -> [Brokers -> JobStates]] /\ Own(r)
      /\ life \in [Restores -> {"absent", "alive", "deleting", "gone"}]
  BY DEF TypeOK, JobStates, ClusterInv
<1>1. CASE Admission(r)
  <2>1. life[r] = "alive" /\ phase[r] = "Pending" /\ UNCHANGED <<life, running, index, vol, leaving, job>>
    BY <1>1 DEF Admission, SuspendTarget, AdoptSuspension, AwaitBrokers, AwaitClaim, Start, Enters, StaysPending
  <2>2. phase'[r] \in {"Pending", "Validating"}
    <3>1. CASE NoFlush
      BY <2>1, <3>1 DEF NoFlush
    <3>2. CASE \E p \in {"Pending", "Validating"} : \E k : Flush(r, p, k)
      BY <2>1, <3>2, FlushOfOne
    <3> QED
      BY <1>1, <3>1, <3>2 DEF Admission, SuspendTarget, AdoptSuspension, AwaitBrokers, AwaitClaim, Start
  <2>3. ~InPrimary(r) /\ ~InPrimary(r)' /\ phase[r] \notin Running
    BY <2>1, <2>2 DEF InPrimary, Running
  <2> QED
    BY <1>0, <2>1, <2>3, PassIsSound
<1>2. CASE Finish(r) \/ Finalize(r) \/ Submit(r) \/ Delete(r) \/ (\E b \in Brokers : RemoveJob(r, b))
  <2>1. UNCHANGED <<running, index, vol, leaving>>
    BY <1>2 DEF Finish, Finalize, Submit, Delete, RemoveJob, Collect, Resume, Give, Over, KeepWriter, EndRecovery,
       HoldDeletion, EndHeldDeletion, RemoveJobs, ReleaseHold, RemoveFinalizer, Finalizes
  <2>2. \A s \in Restores, b \in Brokers : job'[s][b] \in {job[s][b], "none"}
    <3>1. CASE job' = job
      BY <3>1
    <3>2. CASE job' = [job EXCEPT ![r] = [b \in Brokers |-> "none"]]
      BY <3>2, <1>t
    <3>3. CASE \E b \in Brokers : job' = [job EXCEPT ![r][b] = "none"]
      BY <3>3, <1>t
    <3> QED
      BY <1>2, <3>1, <3>2, <3>3 DEF Finish, Finalize, Submit, Delete, RemoveJob, Collect, Resume, Give, Over,
         KeepWriter, EndRecovery, HoldDeletion, EndHeldDeletion, RemoveJobs, ReleaseHold, RemoveFinalizer, Finalizes
  <2>3. phase'[r] = phase[r]
    <3>1. CASE NoFlush \/ UNCHANGED phase
      BY <3>1 DEF NoFlush
    <3>2. CASE \E k : Flush(r, phase[r], k)
      BY <3>2, FlushOfOne
    <3> QED
      BY <1>2, <3>1, <3>2 DEF Finish, Finalize, Submit, Delete, RemoveJob, Collect, Resume, Give, Over,
         KeepWriter, EndRecovery, HoldDeletion, EndHeldDeletion, RemoveJobs, ReleaseHold, RemoveFinalizer, Finalizes
  <2>4. ASSUME life[r] = "alive", phase[r] \in Running PROVE life'[r] = "alive" /\ kept' = kept
    <3>1. CASE Finish(r)
      BY <3>1, <2>4, <1>t DEF Finish, Collect, Resume, Give, Over, KeepWriter, EndRecovery, Terminal, Own, Recorded,
         Running, NoFlush
    <3>2. CASE Finalize(r) \/ Submit(r)
      BY <3>2, <2>4 DEF Finalize, Submit, HoldDeletion, EndHeldDeletion, FinalHeld, RemoveJobs, ReleaseHold,
         RemoveFinalizer, Finalizes
    <3>3. CASE Delete(r)
      <4>1. life'[r] = "deleting"
        BY <3>3, <1>t DEF Delete
      <4> QED
        BY <4>1, <2>3, <2>4 DEF Unspoilt, Running
    <3>4. CASE \E b \in Brokers : RemoveJob(r, b)
      BY <3>4, <2>4 DEF RemoveJob
    <3> QED
      BY <1>2, <3>1, <3>2, <3>3, <3>4
  <2>5. InPrimary(r)' => InPrimary(r)
    <3>1. ASSUME Submit(r) PROVE phase'[r] # "Primary"
      BY <3>1, <2>3, <1>t DEF Submit, Own, Recorded
    <3>2. ASSUME ~Submit(r), life'[r] = "alive" PROVE life[r] = "alive"
      BY <1>2, <3>2, <1>t DEF Finish, Finalize, Delete, RemoveJob, Collect, Resume, Give, Over,
         KeepWriter, EndRecovery, HoldDeletion, EndHeldDeletion, RemoveJobs, ReleaseHold, RemoveFinalizer, Finalizes
    <3> QED
      BY <2>3, <3>1, <3>2 DEF InPrimary
  <2>6. InPrimary(r) => InPrimary(r)' /\ kept'[r].names = kept[r].names /\ kept'[r].recreated = kept[r].recreated
    BY <2>3, <2>4 DEF InPrimary, Running
  <2> QED
    BY <1>0, <2>1, <2>2, <2>3, <2>4, <2>5, <2>6, PassIsSound
<1> QED
  BY <1>1, <1>2

(* A running restore: the volumes are replaced before the Jobs are named,  *)
(* and a restore whose Jobs are all done left the storage whole.           *)
LEMMA RunIsSound ==
  ASSUME TypeOK, Counted, ClusterInv, Unspoilt', RestoreIsSound, NEW r \in Restores, Run(r) \/ GraceOver(r)
  PROVE  RestoreIsSound'
<1> USE DEF cluster, work
<1>0. ActionOf(r)
  BY DEF ActionOf
<1>1. life[r] = "alive" /\ phase[r] \in Running /\ UNCHANGED <<life, running>>
  BY DEF Run, GraceOver, Validate, RecordRepository, RestoreIndices, TrackRestore, RecreateClaims,
     CreateJob, TrackJobs, Resolved, Runs, Running
<1>k. kept[r] \in Status /\ phase[r] \in Phases /\ StoragesOwned /\ Own(r) /\ ~running
      /\ vol \in [Brokers -> Storage] /\ leaving \subseteq Brokers /\ job \in [Restores -> [Brokers -> JobStates]]
  BY <1>1, RunnerFacts DEF TypeOK, ClusterInv, JobStates
<1>p. {"Pending", "Validating", "Secondary", "Primary", "Failed", "Completed"} = Phases
  BY DEF Phases, Running
<1>n. phase'[r] # "Failed"
  BY <1>1 DEF Unspoilt
<1>s. \A s \in Restores \ {r} : phase'[s] = phase[s] /\ kept'[s] = kept[s] /\ life'[s] = life[s]
  BY <1>0, PassMoves
<1>f. ASSUME Fail(r) PROVE phase'[r] = phase[r] /\ kept'[r] = kept[r]
  BY <1>f, <1>n, <1>k, <1>p, FailedRecord, Flushes DEF Fail
<1>q. ASSUME phase[r] # "Primary", phase'[r] \in Running, UNCHANGED <<vol, leaving, job>>,
             kept'[r].names = kept[r].names, kept'[r].recreated = kept[r].recreated
      PROVE  RestoreIsSound'
  <2>1. ~kept[r].names /\ kept[r].recreated = {}
    BY <1>q, <1>1, <1>k DEF Own, Recorded, Running
  <2>2. (life[r] = "alive" /\ phase[r] \in Running)'
    BY <1>q, <1>1
  <2>3. ~InPrimary(r)
    BY <1>q DEF InPrimary
  <2> QED
    BY <1>q, <1>0, <1>1, <2>1, <2>2, <2>3, PassIsSound
<1>e. ASSUME UNCHANGED <<vol, leaving, index, job>>, phase'[r] = phase[r], kept'[r] = kept[r] PROVE RestoreIsSound'
  BY <1>e, <1>0, <1>1, PassIsSound DEF InPrimary
<1>2. CASE Validate(r)
  <2>1. phase[r] = "Validating" /\ UNCHANGED <<index, vol, leaving, job>>
    BY <1>2 DEF Validate, Resolved, Runs
  <2>2. CASE Flush(r, "Secondary", kept[r])
    BY <2>1, <2>2, <1>k, <1>p, <1>q, Flushes DEF Running
  <2> QED
    BY <1>2, <2>1, <2>2, <1>f, <1>e DEF Validate
<1>3. CASE RecordRepository(r)
  <2> DEFINE k == [kept[r] EXCEPT !.repository = TRUE]
  <2>1. k \in Status /\ k.recreated = kept[r].recreated /\ k.names = kept[r].names
    BY <1>k DEF Status
  <2>2. Flush(r, "Secondary", k) /\ phase[r] = "Secondary" /\ UNCHANGED <<index, vol, leaving, job>>
    BY <1>3 DEF RecordRepository, Resolved, Runs
  <2> HIDE DEF k
  <2> QED
    BY <2>1, <2>2, <1>p, <1>q, Flushes DEF Running
<1>4. CASE RestoreIndices(r)
  <2> DEFINE k == [kept[r] EXCEPT !.snapshots = TRUE]
  <2>1. k \in Status /\ k.recreated = kept[r].recreated /\ k.names = kept[r].names
    BY <1>k DEF Status
  <2>2. (NoFlush \/ Flush(r, "Secondary", k)) /\ phase[r] = "Secondary" /\ UNCHANGED <<vol, leaving, job>>
    BY <1>4 DEF RestoreIndices, Resolved, Runs
  <2> HIDE DEF k
  <2>3. CASE NoFlush
    BY <2>2, <2>3, <1>q DEF NoFlush, Running
  <2>4. CASE Flush(r, "Secondary", k)
    BY <2>1, <2>2, <2>4, <1>p, <1>q, Flushes DEF Running
  <2> QED
    BY <2>2, <2>3, <2>4
<1>5. CASE TrackRestore(r)
  <2>1. phase[r] = "Secondary" /\ UNCHANGED <<index, vol, leaving, job>>
    BY <1>5 DEF TrackRestore, Resolved, Runs
  <2>2. CASE Flush(r, "Primary", kept[r])
    BY <2>1, <2>2, <1>k, <1>p, <1>q, Flushes DEF Running
  <2> QED
    BY <1>5, <2>1, <2>2, <1>f, <1>e DEF TrackRestore
<1>6. CASE RecreateClaims(r)
  <2> DEFINE unrecorded == Brokers \ (kept[r].recreated \cup Missing)
             recreated == kept[r].recreated \cup Missing \cup unrecorded
             n == unrecorded = {} /\ leaving \cap kept[r].recreated \subseteq Missing /\ recreated = kept[r].recreated
             k == [kept[r] EXCEPT !.recreated = recreated, !.names = n]
  <2>0. phase[r] = "Primary" /\ ~kept[r].names /\ UNCHANGED <<index, job>> /\ leaving' = leaving \cup unrecorded
        /\ vol' = [b \in Brokers |-> IF b \in Missing THEN Holding("empty", r) ELSE vol[b]]
        /\ Flush(r, "Primary", k)
    BY <1>6 DEF RecreateClaims, Resolved, Runs
  <2>1. k \in Status /\ k.recreated = Brokers /\ (k.names => unrecorded = {} /\ kept[r].recreated = Brokers
            /\ leaving \cap kept[r].recreated \subseteq Missing)
    <3>1. recreated = Brokers /\ n \in BOOLEAN
          /\ (n => unrecorded = {} /\ kept[r].recreated = Brokers /\ leaving \cap kept[r].recreated \subseteq Missing)
      BY <1>k DEF Status, Missing
    <3>2. k = [kept[r] EXCEPT !.recreated = recreated, !.names = n]
      OBVIOUS
    <3> HIDE DEF recreated, n, k
    <3>3. recreated \in SUBSET Brokers /\ n \in BOOLEAN /\ kept[r] \in Status
      BY <3>1, <1>k
    <3>4. /\ k \in Status /\ k.recreated = recreated /\ k.names = n
          /\ k.repository = kept[r].repository /\ k.snapshots = kept[r].snapshots /\ k.held = kept[r].held
      BY <3>2, <3>3 DEF Status
    <3> QED
      BY <3>1, <3>4
  <2> HIDE DEF k
  <2>2. phase'[r] = "Primary" /\ kept'[r] \in {kept[r], k}
    BY <2>0, <2>1, <1>p, Flushes
  <2>3. InPrimary(r) /\ InPrimary(r)' /\ Replaced(r)
    BY <2>0, <2>2, <1>1 DEF InPrimary, RestoreIsSound
  <2>4. \A b \in Brokers : /\ b \in Missing => vol'[b].data = "empty" /\ vol'[b].by = r
                           /\ b \notin Missing => vol'[b] = vol[b] /\ vol[b].data # "none"
    BY <2>0 DEF Holding, Missing
  <2>5. \A b \in Brokers : job'[r][b] = "none"
    BY <2>0, <1>k DEF Own, WrittenByRecord
  <2>6. ASSUME kept'[r].names
        PROVE  leaving' = {} /\ \A b \in Brokers : vol'[b].by = r /\ vol'[b].data \in {"empty", "part", "full"}
    <3>1. unrecorded = {} /\ kept[r].recreated = Brokers /\ leaving \cap kept[r].recreated \subseteq Missing
      BY <2>6, <2>0, <2>1, <2>2
    <3>2. leaving = {}
      BY <3>1, <1>k DEF StoragesOwned, Missing
    <3>3. leaving' = {}
      BY <3>1, <3>2, <2>0
    <3> QED
      BY <3>1, <3>2, <3>3, <2>3, <2>4 DEF Replaced
  <2>7. \A b \in Brokers : b \in leaving' \/ vol'[b].data = "none" \/
           (vol'[b].by = r /\ vol'[b].data \in {"empty", "part", "full"}) \/ b \notin kept[r].recreated \cup Missing \cup unrecorded
    BY <2>0, <2>3, <2>4 DEF Replaced
  <2>8. \A b \in Brokers : b \in leaving' \/ vol'[b].data = "none" \/
           (vol'[b].by = r /\ vol'[b].data \in {"empty", "part", "full"})
    BY <2>7
  <2>9. kept'[r].recreated \subseteq Brokers
    BY <2>1, <2>2, <1>k DEF Status
  <2>10. Replaced(r)'
    BY <2>5, <2>6, <2>8, <2>9 DEF Replaced
  <2>11. \A s \in Restores : InPrimary(s)' => s = r
    BY <1>1, <1>s, OneRuns DEF InPrimary, Running
  <2>12. leaving' # {} => InPrimary(r)' /\ ~kept'[r].names
    BY <2>3, <2>6
  <2>13. \A s \in Restores, b \in Brokers : job'[s][b] \in {"new", "active", "failed"} => InPrimary(s)'
    BY <2>0, <1>s, <2>3 DEF RestoreIsSound, InPrimary
  <2>14. life'[r] = "alive" /\ phase'[r] \in Running
    BY <1>1, <2>2 DEF Running
  <2> QED
    BY <2>10, <2>11, <2>12, <2>13, <2>14 DEF RestoreIsSound
<1>7. ASSUME NEW b \in Brokers, CreateJob(r, b) PROVE RestoreIsSound'
  <2>1. /\ UNCHANGED <<phase, kept, index, vol, leaving>> /\ phase[r] = "Primary"
        /\ job' = [job EXCEPT ![r][b] = "new"]
    BY <1>7 DEF CreateJob, NoFlush, Resolved, Runs
  <2>2. InPrimary(r) /\ InPrimary(r)'
    BY <2>1, <1>1 DEF InPrimary
  <2>3. \A s \in Restores, c \in Brokers :
           job'[s][c] \in {job[s][c], "none"} \/ (job'[s][c] = "new" /\ InPrimary(s))
    BY <2>1, <2>2, <1>k
  <2> QED
    BY <1>0, <1>1, <2>1, <2>2, <2>3, PassIsSound
<1>8. CASE TrackJobs(r)
  <2>1. phase[r] = "Primary" /\ kept[r].names /\ UNCHANGED <<index, vol, leaving, job>>
    BY <1>8 DEF TrackJobs, Resolved, Runs
  <2>2. CASE (\A b \in Brokers : job[r][b] = "done") /\ Flush(r, "Completed", kept[r])
    <3>1. \/ phase'[r] = "Completed" /\ kept'[r] = kept[r]
          \/ phase'[r] = phase[r] /\ kept'[r] = kept[r]
      BY <2>2, <1>k, <1>p, Flushes
    <3>2. CASE phase'[r] = "Completed" /\ kept'[r] = kept[r]
      <4>1. InPrimary(r) /\ Replaced(r)
        BY <2>1, <1>1 DEF InPrimary, RestoreIsSound
      <4>2. \A b \in Brokers : vol[b].by = r /\ vol[b].data = "full" /\ vol[b] \in Storage
        BY <2>1, <2>2, <4>1, <1>k DEF Replaced
      <4>3. \A b \in Brokers : vol[b] = Holding("full", r)
        BY <4>2 DEF Storage, Holding
      <4>4. index = Holding("full", r)
        BY <2>1, <1>1, <1>k DEF Own, IndexIsOwn
      <4>5. Whole(r)' /\ ~running'
        BY <2>1, <4>3, <4>4, <1>1, <1>k DEF Whole
      <4>6. \A s \in Restores : InPrimary(s) => s = r
        BY <1>1, OneRuns DEF InPrimary, Running
      <4>7. \A s \in Restores : ~InPrimary(s)'
        BY <3>2, <4>6, <1>s DEF InPrimary
      <4>8. leaving = {}
        BY <2>1, <4>6 DEF RestoreIsSound
      <4>9. \A s \in Restores, b \in Brokers : job'[s][b] \notin {"new", "active", "failed"}
        <5>1. ASSUME NEW s \in Restores, NEW b \in Brokers, job[s][b] \in {"new", "active", "failed"} PROVE FALSE
          BY <5>1, <4>6, <2>2 DEF RestoreIsSound
        <5> QED
          BY <5>1, <2>1
      <4> QED
        BY <4>5, <4>7, <4>8, <4>9, <2>1 DEF RestoreIsSound
    <3> QED
      BY <3>1, <3>2, <2>1, <1>e
  <2> QED
    BY <1>8, <2>1, <2>2, <1>f, <1>e DEF TrackJobs
<1>9. CASE GraceOver(r)
  BY <1>9, <1>f, <1>e DEF GraceOver
<1> QED
  BY <1>2, <1>3, <1>4, <1>5, <1>6, <1>7, <1>8, <1>9 DEF Run

(* The storage is sound from the start, and every step keeps it so.        *)
LEMMA SoundInit == Init => SoundInv
<1> SUFFICES ASSUME Init PROVE RestoreIsSound
  BY DEF SoundInv
<1>1. /\ \A r \in Restores : phase[r] = "Pending" /\ \A b \in Brokers : job[r][b] = "none"
      /\ leaving = {} /\ index = Holding("live", None) /\ \A b \in Brokers : vol[b] = Holding("live", None)
  BY DEF Init
<1>2. AllLive
  BY <1>1 DEF AllLive, Holding
<1> QED
  BY <1>1, <1>2 DEF RestoreIsSound, InPrimary

(* Every step keeps the storage sound, as long as nobody spoils a restore. *)
LEMMA SoundStep == TypeOK /\ Counted /\ ClusterInv /\ SoundInv /\ [Next]_vars => SoundInv'
<1> SUFFICES ASSUME TypeOK, Counted, ClusterInv, SoundInv, [Next]_vars, Unspoilt' PROVE RestoreIsSound'
  BY DEF SoundInv
<1>1. Unspoilt /\ RestoreIsSound
  BY UnspoiltBefore DEF SoundInv
<1>2. CASE UNCHANGED vars
  <2>1. UNCHANGED <<life, phase, kept, running, index, vol, leaving, job>>
    BY <1>2 DEF vars, cluster, work
  <2>2. \A s \in Restores : InPrimary(s) => Replaced(s)'
    BY <1>1, <2>1 DEF RestoreIsSound, Replaced
  <2>3. ~Busy => AllLive' \/ (~running' /\ \E r \in Restores : Whole(r)')
    BY <1>1, <2>1 DEF RestoreIsSound, Busy, AllLive, Whole
  <2>4. \A s \in Restores, b \in Brokers :
           job'[s][b] \in {"new", "active", "failed"} => job[s][b] \in {"new", "active", "failed"}
    BY <2>1
  <2> QED
    BY <1>1, <2>1, <2>2, <2>3, <2>4, BesideKeeps
<1> QED
  BY <1>1, <1>2, WorkloadIsSound, EndIsSound, RunIsSound DEF Next

(* Brokers never run over a storage that is half restored: what they find  *)
(* is their own data or a whole restore, unless somebody deleted a restore *)
(* before its end.                                                         *)
THEOREM BrokersFindWholeData == Spec => []NeverOverHalfRestored
<1>1. TypeOK /\ Counted /\ ClusterInv /\ SoundInv => NeverOverHalfRestored
  <2> SUFFICES ASSUME TypeOK, ClusterInv, SoundInv, running, ~AllLive,
                      \A r \in Restores : life[r] \in {"deleting", "gone"} => phase[r] = "Completed"
               PROVE  FALSE
    BY DEF NeverOverHalfRestored
  <2>1. \A r \in Restores : life[r] = "alive" => phase[r] \notin Running \cup {"Failed"}
    BY DEF ClusterInv, Own, HoldsBrokers, AtWork
  <2>2. Unspoilt
    BY <2>1 DEF Unspoilt
  <2> QED
    BY <2>1, <2>2 DEF SoundInv, RestoreIsSound
<1>2. Init => TypeOK /\ Counted /\ ClusterInv /\ SoundInv
  BY ClusterInit, SoundInit
<1>3. (TypeOK /\ Counted /\ ClusterInv /\ SoundInv) /\ [Next]_vars
        => (TypeOK /\ Counted /\ ClusterInv /\ SoundInv)'
  BY TypeStep, ClusterStep, SoundStep
<1> QED
  BY <1>1, <1>2, <1>3, PTL DEF Spec

-----------------------------------------------------------------------------
(* The restores of one cluster implement ExclusiveUse                      *)

(* A restore begins to use the cluster only when its admission starts it.  *)
LEMMA UseBegins ==
  ASSUME TypeOK, Counted, ClusterInv, ClusterInv', [Next]_vars, NEW s \in Restores, Using(s)', ~Using(s)
  PROVE  Start(s)
<1> USE DEF cluster, work, bounds
<1>o. Own(s) /\ Own(s)' /\ Exists(s)' /\ s \notin gaveUp'
      /\ (phase'[s] \in Running \/ (kept'[s].held = "yes" /\ index' = Holding("part", s)))
  BY DEF ClusterInv, Using
<1>h. \A r : Holding("part", r).data = "part" /\ Holding("part", r).by = r /\ Holding("none", r).data = "none"
  BY DEF Holding
<1>k. kept[s] \in Status /\ life \in [Restores -> {"absent", "alive", "deleting", "gone"}]
  BY DEF TypeOK
<1>u. ASSUME Exists(s), s \notin gaveUp, phase'[s] = phase[s], kept'[s].held = "yes" => kept[s].held = "yes",
             index' = index \/ index'.data # "part" \/ index'.by # s
      PROVE  FALSE
  BY <1>u, <1>o, <1>h DEF Using
<1>1. CASE Workload \/ UserSuspends \/ UNCHANGED vars
  <2>1. UNCHANGED <<life, phase, kept, gaveUp>>
    BY <1>1 DEF Workload, UserSuspends, vars, ScaleDown, ScaleUp, Recover, ClaimGone, JobStarts, JobEnds,
       PodGone, Status_
  <2>2. index' = index \/ \E d \in {"live", "full", "stranded"} : \E x : index' = Holding(d, x)
    BY <1>1 DEF Workload, UserSuspends, vars, ScaleDown, ScaleUp, Recover, ClaimGone, JobStarts, JobEnds,
       PodGone, Status_
  <2>3. \A d, x : Holding(d, x).data = d
    BY DEF Holding
  <2> QED
    BY <2>1, <2>2, <2>3, <1>o, <1>u DEF Exists
<1>2. ASSUME NEW q \in Restores \ {s}, ActionOf(q) PROVE FALSE
  <2>1. life'[s] = life[s] /\ phase'[s] = phase[s] /\ kept'[s] = kept[s]
    BY <1>2, PassMoves
  <2>2. gaveUp \subseteq gaveUp' /\ (index' = index \/ index'.data # "part" \/ index'.by = q)
    <3>1. CASE Admission(q)
      BY <3>1 DEF Admission, SuspendTarget, AdoptSuspension, AwaitBrokers, AwaitClaim, Start, StaysPending
    <3>2. CASE Run(q) \/ GraceOver(q)
      BY <3>2, <1>h DEF Run, GraceOver, Validate, RecordRepository, RestoreIndices, TrackRestore, RecreateClaims,
         CreateJob, TrackJobs, Resolved, Runs
    <3>3. CASE Finish(q) \/ Finalize(q) \/ Submit(q) \/ Delete(q) \/ (\E b \in Brokers : RemoveJob(q, b))
      BY <3>3 DEF Finish, Finalize, Submit, Delete, RemoveJob, Collect, Resume, Give, Over, KeepWriter, EndRecovery,
         RecoveryOver, HoldDeletion, EndHeldDeletion, RemoveJobs, ReleaseHold, RemoveFinalizer, Finalizes
    <3> QED
      BY <1>2, <3>1, <3>2, <3>3 DEF ActionOf
  <2> QED
    BY <2>1, <2>2, <1>o, <1>u DEF Exists
<1>3. ASSUME ActionOf(s) PROVE Start(s)
  <2>1. CASE Admission(s) /\ ~Start(s)
    <3>1. phase[s] = "Pending"
      BY <2>1 DEF Admission, SuspendTarget, AdoptSuspension, AwaitBrokers, AwaitClaim, Enters
    <3>2. phase'[s] = "Pending"
      <4>1. CASE NoFlush
        BY <3>1, <4>1 DEF NoFlush
      <4>2. CASE \E k : Flush(s, "Pending", k)
        BY <3>1, <4>2, FlushOfOne
      <4> QED
        BY <2>1, <4>1, <4>2 DEF Admission, SuspendTarget, AdoptSuspension, AwaitBrokers, AwaitClaim
    <3> QED
      BY <3>2, <1>o DEF Own, Recorded, Running
  <2>2. CASE Run(s) \/ GraceOver(s)
    <3>1. life[s] = "alive" /\ phase[s] \in Running
      BY <2>2 DEF Run, GraceOver, Validate, RecordRepository, RestoreIndices, TrackRestore, RecreateClaims,
         CreateJob, TrackJobs, Resolved, Runs, Running
    <3> QED
      BY <3>1, RunnerFacts DEF Using, Exists
  <2>3. CASE Submit(s)
    <3>1. phase'[s] = "Pending"
      BY <2>3, <1>o DEF Submit, Own, Recorded
    <3> QED
      BY <3>1, <1>o DEF Own, Recorded, Running
  <2>4. CASE Finish(s) \/ Finalize(s) \/ Delete(s) \/ (\E b \in Brokers : RemoveJob(s, b))
    <3> DEFINE k == [kept[s] EXCEPT !.held = "no"]
    <3>1. k.held = "no"
      BY <1>k DEF Status
    <3>2. Exists(s) /\ index' = index /\ gaveUp \subseteq gaveUp'
      BY <2>4, <1>o, <1>k DEF Finish, Finalize, Delete, RemoveJob, Collect, Resume, Give, Over, KeepWriter, EndRecovery,
         RecoveryOver, HoldDeletion, EndHeldDeletion, FinalHeld, RemoveJobs, ReleaseHold, RemoveFinalizer, Finalizes,
         Exists
    <3>3. CASE NoFlush \/ UNCHANGED <<phase, kept>>
      BY <3>2, <3>3, <1>o, <1>u DEF NoFlush
    <3>4. CASE Flush(s, phase[s], k)
      <4> HIDE DEF k
      <4>1. phase'[s] = phase[s] /\ (kept'[s] = kept[s] \/ kept'[s].held = "no")
        BY <3>4, <3>1, FlushOfOne
      <4> QED
        BY <4>1, <3>2, <1>o, <1>u
    <3>5. CASE HoldDeletion(s)
      <4>1. phase'[s] = phase[s] /\ UNCHANGED gaveUp
        BY <3>5, FlushOfOne DEF HoldDeletion
      <4>2. kept[s].held = "yes" \/ phase[s] \in Running
        <5>1. phase[s] \in Phases
          BY DEF TypeOK
        <5> QED
          BY <3>5, <5>1, <1>o DEF HoldDeletion, FinalHeld, Own, Recorded, Phases, Terminal
      <4>3. CASE phase[s] \in Running
        BY <3>2, <4>1, <4>3, <1>o DEF Using
      <4> QED
        BY <4>1, <4>2, <4>3, <3>2, <1>o, <1>u
    <3> QED
      BY <2>4, <3>3, <3>4, <3>5 DEF Finish, Finalize, Delete, RemoveJob, Collect, Resume, Give, Over, KeepWriter,
         EndRecovery, EndHeldDeletion, RemoveJobs, ReleaseHold, RemoveFinalizer, Finalizes
  <2> QED
    BY <1>3, <2>1, <2>2, <2>3, <2>4 DEF ActionOf
<1> QED
  BY <1>1, <1>2, <1>3 DEF Next, ActionOf

(* The restores of a cluster implement ExclusiveUse: one begins only while *)
(* none uses the cluster, on to the end of the recovery it asked for.      *)
THEOREM RestoresImplementExclusiveUse == Spec => ImplementsExclusiveUse
<1> DEFINE users == {r \in Restores : Using(r)}
<1>1. Init => Use!Init
  BY DEF Init, Using, Exists, Use!Init
<1>2. TypeOK /\ Counted /\ ClusterInv /\ (TypeOK /\ Counted /\ ClusterInv)' /\ [Next]_vars => [Use!Next]_users
  <2> SUFFICES ASSUME TypeOK, Counted, ClusterInv, ClusterInv', [Next]_vars, users' # users
               PROVE  \E r \in Restores : Use!Begin(r) \/ Use!End(r)
    BY DEF Use!Next
  <2>0. None \notin Restores
    BY EsRestoreConstants
  <2>1. \A r \in users : users = {r}
    BY DEF ClusterInv, Own, UsesByClaim
  <2>2. \A r \in users' : users' = {r}
    BY DEF ClusterInv, Own, UsesByClaim
  <2>3. ASSUME NEW s \in users', s \notin users PROVE users = {}
    <3>1. Start(s)
      BY <2>3, UseBegins
    <3>2. Claimable(s)
      BY <3>1 DEF Start, Enters
    <3>3. ASSUME NEW r \in Restores, Using(r) PROVE FALSE
      <4>1. claim = r /\ r # s
        BY <3>3, <2>3 DEF ClusterInv, Own, UsesByClaim
      <4>2. HolderActive(r)
        BY <3>3 DEF Using, HolderActive, Terminal, Running
      <4> QED
        BY <3>2, <4>1, <4>2 DEF Claimable
    <3> QED
      BY <3>3
  <2>4. CASE \E s \in users' : s \notin users
    BY <2>2, <2>3, <2>4 DEF Use!Begin
  <2>5. CASE \A s \in users' : s \in users
    <3>1. PICK r \in users : r \notin users'
      BY <2>5
    <3>2. users = {r} /\ users' = {}
      BY <2>1, <2>5, <3>1
    <3> QED
      BY <3>2 DEF Use!End
  <2> QED
    BY <2>4, <2>5
<1> QED
  BY <1>1, <1>2, RestoreInvariant, PTL DEF Spec, ImplementsExclusiveUse, Use!Spec
=============================================================================
