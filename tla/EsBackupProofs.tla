--------------------------- MODULE EsBackupProofs ---------------------------
(***************************************************************************)
(* Proofs about EsBackup, for every set of backups of a cluster, every     *)
(* order of them and every bound: type correctness, the claim covers the   *)
(* use, a pause has an owner and lasts while parts are taken, the          *)
(* refinement of ExclusiveUse, the consistency of a completed set, the     *)
(* completeness of a clean deletion, and an order among siblings that      *)
(* never blocks all of them.                                               *)
(***************************************************************************)
EXTENDS EsBackup, TLAPS, WellFoundedInduction

(* A backup that admission is about to start is pending, with the claim.   *)
StartHoldsClaim ==
  \A b \in Backups : pc[b] = "start" => status[b].phase = "pending" /\ holder = b

(* The finalizer releases the claim of an object that is gone.             *)
ReleasedIsGone == \A b \in Backups : pc[b] = "release" => status[b].phase = "gone"

(* No backup pinned a cluster that does not exist yet.                     *)
PinnedExisted == \A b \in Backups : status[b].uid <= cluster.uid

(* Only a part, or the pause, is waited for, and only a part requested.    *)
CallsOfStep ==
  \A b \in Backups :
    /\ pc[b] = "check" => status[b].step \in Parts \cup {"PauseExporting"}
    /\ pc[b] = "request" => status[b].step \in Parts

GoneIsNotPaused == cluster.state = "gone" => ~cluster.paused

(* The cleanup of a backup that can have left its cluster paused resumed   *)
(* it first, and nobody paused it since.                                   *)
CleanupResumedFirst ==
  \A b \in Backups :
    /\ pc[b] \in {"history", "records", "runtime", "remove"}
    /\ MayHoldExportingPaused(b)
    /\ status[b].uid = cluster.uid
    => ~cluster.paused

(* The protocol between the claim, the pause and the cluster.              *)
ProtocolInv ==
  /\ ClaimCoversUse
  /\ StartHoldsClaim
  /\ ReleasedIsGone
  /\ PinnedExisted
  /\ CallsOfStep
  /\ GoneIsNotPaused
  /\ CleanupResumedFirst
  /\ PauseHasOwner

-----------------------------------------------------------------------------
(* What a pass in the middle of the procedure writes: never the phase or   *)
(* the pinned cluster, and an allocated ID stays.                          *)
Edit(s, t) ==
  /\ t \in Statuses
  /\ t.phase = s.phase /\ t.uid = s.uid
  /\ s.step # "None" => t.step # "None"

(* Two edits in a row are an edit.                                         *)
LEMMA EditComposes ==
  ASSUME NEW s \in Statuses, NEW t, NEW u, Edit(s, t), Edit(t, u)
  PROVE  Edit(s, u)
BY DEF Edit

(* The helpers that build a status are edits.                              *)
LEMMA Edits ==
  ASSUME NEW s \in Statuses
  PROVE  /\ Edit(s, s) /\ Edit(s, FailStep(s)) /\ Edit(s, ClearClock(s))
         /\ \A t \in StageUnreachable(s) : Edit(s, t)
         /\ \A p \in Steps \ {"None"} : Edit(s, [ClearClock(s) EXCEPT !.step = p])
         /\ \A p \in Managed : Edit(s, [ClearClock(s) EXCEPT !.requested = @ \cup {p}])
         /\ Edit(s, [s EXCEPT !.named = TRUE])
<1>1. Edit(s, s)
  BY DEF Edit
<1>2. Edit(s, ClearClock(s))
  BY BackupConstants DEF Edit, ClearClock, Statuses
<1>3. Edit(s, FailStep(s))
  <2>1. s.attempts \in 0..ResumeBound /\ 0 \in 0..ResumeBound
    BY BackupConstants DEF Statuses
  <2>2. FailStep(s) \in Statuses
    BY <2>1 DEF FailStep, Statuses, Steps
  <2>3. FailStep(s).phase = s.phase /\ FailStep(s).uid = s.uid /\ FailStep(s).step = "ResumeExporting"
    BY DEF FailStep, Statuses
  <2> QED
    BY <2>2, <2>3 DEF Edit
<1>4. s.since < UnreachableBound => Edit(s, [s EXCEPT !.since = s.since + 1])
  BY BackupConstants DEF Edit, Statuses
<1>5. \A t \in StageUnreachable(s) : Edit(s, t)
  BY <1>3, <1>4 DEF StageUnreachable
<1>t. ClearClock(s) \in Statuses /\ ClearClock(s).phase = s.phase /\ ClearClock(s).uid = s.uid
      /\ ClearClock(s).step = s.step
  BY BackupConstants DEF ClearClock, Statuses
<1>6. \A p \in Steps \ {"None"} : Edit(s, [ClearClock(s) EXCEPT !.step = p])
  BY <1>t DEF Edit, Statuses
<1>7. \A p \in Managed : Edit(s, [ClearClock(s) EXCEPT !.requested = @ \cup {p}])
  BY <1>t DEF Edit, Statuses
<1>8. Edit(s, [s EXCEPT !.named = TRUE])
  BY DEF Edit, Statuses
<1> QED
  BY <1>1, <1>2, <1>3, <1>5, <1>6, <1>7, <1>8

StatusOK == status \in [Backups -> Statuses]

(* Only the status of b changes, by an edit.                               *)
EditsOnly(b) ==
  /\ StatusOK'
  /\ Edit(status[b], status'[b])
  /\ \A d \in Backups \ {b} : status'[d] = status[d]

(* A flush of an edit, and a pass without a write, edit one status.        *)
LEMMA Writes ==
  ASSUME StatusOK, NEW b \in Backups
  PROVE  /\ \A s : Edit(status[b], s) /\ Flush(b, s) => EditsOnly(b)
         /\ UNCHANGED status => EditsOnly(b)
<1>0. Edit(status[b], status[b])
  BY Edits DEF StatusOK
<1>1. ASSUME NEW s, Edit(status[b], s), Flush(b, s) PROVE EditsOnly(b)
  <2>1. CASE deleting[b]
    BY <1>0, <1>1, <2>1 DEF Flush, EditsOnly, StatusOK
  <2>2. CASE ~deleting[b]
    BY <1>1, <2>2 DEF Flush, EditsOnly, StatusOK, Edit
  <2> QED
    BY <2>1, <2>2
<1>2. ASSUME UNCHANGED status PROVE EditsOnly(b)
  BY <1>0, <1>2 DEF EditsOnly, StatusOK
<1> QED
  BY <1>1, <1>2

-----------------------------------------------------------------------------
CleanupPoints == {"history", "records", "runtime", "remove"}

(* The steps of b that leave the claim, the cluster and every phase alone. *)
Pass(b) ==
  \/ BrokenDependency(b) \/ QueryPart(b) \/ Judgement(b) \/ Request(b)
  \/ FinalizeUnstarted(b) \/ FinalizeUnreachable(b) \/ FinalizeContractGone(b)
  \/ FinalizeHistory(b) \/ FinalizeRecords(b) \/ FinalizeRuntime(b) \/ FinalizeHolds(b)

PassFrame(b) ==
  /\ EditsOnly(b)
  /\ UNCHANGED <<holder, cluster>>
  /\ \A d \in Backups \ {b} : pc'[d] = pc[d]
  /\ pc'[b] \notin {"start", "release"}
  /\ pc'[b] \in {"check", "request"} => UNCHANGED status /\ status[b].step \in Parts
  /\ pc'[b] \in CleanupPoints =>
       UNCHANGED status /\ (pc[b] \in CleanupPoints \/ ~MayHoldExportingPaused(b))

(* A pass of a started backup leaves the claim, the cluster and its        *)
(* siblings alone, and enters the cleanup only past the resume.            *)
LEMMA PassKeepsFrame ==
  ASSUME TypeOK, CallsOfStep, NEW b \in Backups, Pass(b)
  PROVE  PassFrame(b)
<1> USE DEF CleanupPoints
<1>s. StatusOK /\ status[b] \in Statuses /\ pc \in [Backups -> Points]
  BY DEF TypeOK, StatusOK
<1>g. ASSUME NEW q, Goto(b, q)
      PROVE  pc'[b] = q /\ \A d \in Backups \ {b} : pc'[d] = pc[d]
  BY <1>g, <1>s DEF Goto
<1>c. ASSUME NEW s, Edit(status[b], s), Conclude(b, s) PROVE PassFrame(b)
  <2>1. Goto(b, "idle") /\ Flush(b, s) /\ UNCHANGED <<holder, cluster>>
    BY <1>c DEF Conclude
  <2>2. pc'[b] = "idle" /\ \A d \in Backups \ {b} : pc'[d] = pc[d]
    BY <2>1, <1>g
  <2>3. EditsOnly(b)
    BY <2>1, <1>c, <1>s, Writes
  <2> QED
    BY <2>1, <2>2, <2>3 DEF PassFrame
<1>w. WithNames(b) \in Statuses /\ Edit(status[b], WithNames(b))
  BY <1>s, Edits DEF WithNames, Edit
<1>t. /\ Edit(status[b], ClearClock(status[b]))
      /\ Edit(status[b], ClearClock(WithNames(b)))
      /\ Edit(status[b], FailStep(status[b]))
      /\ Edit(status[b], FailStep(WithNames(b)))
      /\ Edit(status[b], FailStep(ClearClock(status[b])))
  <2>1. Edit(status[b], ClearClock(status[b])) /\ Edit(status[b], FailStep(status[b]))
    BY <1>s, Edits
  <2>2. Edit(WithNames(b), ClearClock(WithNames(b))) /\ Edit(WithNames(b), FailStep(WithNames(b)))
    BY <1>w, Edits
  <2>3. ClearClock(status[b]) \in Statuses
    BY <2>1 DEF Edit
  <2>4. Edit(ClearClock(status[b]), FailStep(ClearClock(status[b])))
    BY <2>3, Edits
  <2> QED
    BY <1>s, <1>w, <2>1, <2>2, <2>4, EditComposes
<1>1. CASE BrokenDependency(b)
  BY <1>1, <1>s, <1>t, Writes DEF BrokenDependency, PassBegins, PassFrame
<1>2. CASE QueryPart(b)
  BY <1>2, <1>s, Writes DEF QueryPart, Answered, PassFrame
<1>3. CASE Judgement(b)
  <2>1. CASE WorkloadChanged(b)
    BY <2>1, <1>c, <1>t DEF WorkloadChanged
  <2>2. CASE EndpointUnreachable(b)
    BY <2>2, <1>c, <1>s, Edits DEF EndpointUnreachable
  <2>3. CASE PauseAnswered(b)
    <3>1. Edit(status[b], [ClearClock(status[b]) EXCEPT !.step = "BackupHistory"])
      BY <1>s, Edits DEF Steps, Parts
    <3> QED
      BY <2>3, <3>1, <1>c DEF PauseAnswered
  <2>4. CASE PartFailed(b)
    BY <2>4, <1>c, <1>t DEF PartFailed
  <2>5. CASE PartInProgress(b)
    BY <2>5, <1>c, <1>t DEF PartInProgress
  <2>6. CASE PartCompleted(b)
    <3>1. status[b].step \in Parts \cup {"PauseExporting"}
      BY <2>6 DEF PartCompleted, Conclude, CallsOfStep
    <3>2. NextStep[status[b].step] \in Steps \ {"None"}
      BY <3>1 DEF NextStep, Steps, Parts
    <3>3. Edit(WithNames(b), [ClearClock(WithNames(b)) EXCEPT !.step = NextStep[status[b].step]])
      BY <3>2, <1>w, Edits
    <3>4. Edit(status[b], [ClearClock(WithNames(b)) EXCEPT !.step = NextStep[status[b].step]])
      BY <3>3, <1>s, <1>w, EditComposes
    <3> QED
      BY <2>6, <3>4, <1>c DEF PartCompleted
  <2>7. CASE RecordIntent(b)
    <3>1. status[b].step \in Managed
      BY <2>7 DEF RecordIntent
    <3>2. Edit(status[b], [ClearClock(status[b]) EXCEPT !.requested = @ \cup {status[b].step}])
      BY <3>1, <1>s, Edits
    <3> QED
      BY <2>7, <3>2, <1>c DEF RecordIntent
  <2>8. CASE AwaitRegistration(b)
    BY <2>8, <1>c, <1>t DEF AwaitRegistration
  <2>9. CASE RegistrationFailed(b)
    BY <2>9, <1>c, <1>t DEF RegistrationFailed
  <2>10. CASE GoOnToRequest(b)
    <3>1. Goto(b, "request") /\ UNCHANGED <<status, holder, cluster>>
      BY <2>10 DEF GoOnToRequest
    <3>2. status[b].step \in Parts
      <4>1. status[b].requested \subseteq Managed
        BY <1>s DEF Statuses
      <4> QED
        BY <4>1, <2>10 DEF GoOnToRequest, Managed, Parts
    <3> QED
      BY <3>1, <3>2, <1>s, <1>g, Writes DEF PassFrame
  <2> QED
    BY <1>3, <2>1, <2>2, <2>3, <2>4, <2>5, <2>6, <2>7, <2>8, <2>9, <2>10 DEF Judgement
<1>4. CASE Request(b)
  <2>0. Requesting(b) /\ UNCHANGED <<holder, cluster>>
    BY <1>4 DEF Request, RequestAccepted, SnapshotCreated, RequestWriteLost, RequestUnreachable, RequestRejected
  <2>1. pc'[b] = "idle" /\ \A d \in Backups \ {b} : pc'[d] = pc[d]
    BY <2>0, <1>g DEF Requesting
  <2>2. EditsOnly(b)
    <3>1. CASE RequestAccepted(b)
      <4>1. PICK complete \in BOOLEAN :
              status' = [status EXCEPT
                ![b].accepted = @ \cup {status[b].step}, ![b].since = 0,
                ![b].named = @ \/ (complete /\ status[b].step = "BackupHistory")]
        BY <3>1 DEF RequestAccepted
      <4> DEFINE t == [status[b] EXCEPT
                        !.accepted = @ \cup {status[b].step}, !.since = 0,
                        !.named = @ \/ (complete /\ status[b].step = "BackupHistory")]
      <4>2. status' = [status EXCEPT ![b] = t]
        BY <4>1, <1>s, Zenon DEF StatusOK
      <4>3. status[b].step \in Managed
        BY <3>1 DEF RequestAccepted
      <4>4. 0 \in 0..UnreachableBound
        BY BackupConstants
      <4>5. t \in Statuses
        BY <4>3, <4>4, <1>s DEF Statuses
      <4>6. Edit(status[b], t)
        BY <4>5, <1>s DEF Edit, Statuses
      <4> QED
        BY <4>2, <4>5, <4>6, <1>s DEF EditsOnly, StatusOK
    <3>2. CASE SnapshotCreated(b)
      BY <3>2, <1>s, <1>t, Writes DEF SnapshotCreated
    <3>3. CASE RequestWriteLost(b)
      BY <3>3, <1>s, Writes DEF RequestWriteLost
    <3>4. CASE RequestUnreachable(b)
      BY <3>4, <1>s, Edits, Writes DEF RequestUnreachable
    <3>5. CASE RequestRejected(b)
      BY <3>5, <1>s, <1>t, Writes DEF RequestRejected
    <3> QED
      BY <1>4, <3>1, <3>2, <3>3, <3>4, <3>5 DEF Request
  <2> QED
    BY <2>0, <2>1, <2>2 DEF PassFrame
<1>5. CASE FinalizeUnstarted(b) \/ FinalizeUnreachable(b) \/ FinalizeContractGone(b)
  <2>1. Goto(b, "remove") /\ UNCHANGED <<status, holder, cluster>>
    BY <1>5 DEF FinalizeUnstarted, FinalizeUnreachable, FinalizeContractGone, EndCleanup
  <2>2. pc[b] \in CleanupPoints \/ ~MayHoldExportingPaused(b)
    BY <1>5 DEF FinalizeUnstarted, FinalizeUnreachable, FinalizeContractGone, MayHoldExportingPaused
  <2> QED
    BY <2>1, <2>2, <1>s, <1>g, Writes DEF PassFrame
<1>6. CASE FinalizeHistory(b)
  <2>0. UNCHANGED <<holder, cluster>> /\ pc[b] = "history"
    BY <1>6 DEF FinalizeHistory
  <2>1. CASE Goto(b, "records") /\ UNCHANGED status
    BY <2>0, <2>1, <1>s, <1>g, Writes DEF PassFrame
  <2>2. CASE Goto(b, "idle") /\ status' = [status EXCEPT ![b].named = TRUE]
    <3>1. EditsOnly(b)
      BY <2>2, <1>s DEF EditsOnly, Edit, StatusOK, Statuses
    <3> QED
      BY <3>1, <2>0, <2>2, <1>g DEF PassFrame
  <2> QED
    BY <1>6, <2>1, <2>2 DEF FinalizeHistory
<1>7. CASE FinalizeRecords(b) \/ FinalizeRuntime(b) \/ FinalizeHolds(b)
  <2>1. UNCHANGED <<status, holder, cluster>>
    BY <1>7 DEF FinalizeRecords, FinalizeRuntime, FinalizeHolds
  <2>2. Goto(b, "idle") \/ (pc[b] \in CleanupPoints /\ (Goto(b, "runtime") \/ Goto(b, "remove")))
    BY <1>7 DEF FinalizeRecords, FinalizeRuntime, FinalizeHolds, EndCleanup
  <2> QED
    BY <2>1, <2>2, <1>s, <1>g, Writes DEF PassFrame
<1> QED
  BY <1>1, <1>2, <1>3, <1>4, <1>5, <1>6, <1>7 DEF Pass

(* What comes in the way of the calls, or goes, moves neither a backup nor *)
(* its claim nor the pause.                                                *)
LEMMA HindranceOnly ==
  ASSUME TypeOK, Hindrance
  PROVE  /\ UNCHANGED <<status, deleting, pc, answer, holder, artifact, cleanup, suspensions>>
         /\ cluster' \in Clusters /\ failures' \in 0..MaxFailures
         /\ cluster'.uid = cluster.uid /\ cluster'.state = cluster.state
         /\ cluster'.paused = cluster.paused /\ cluster'.config = cluster.config
<1>1. cluster \in Clusters /\ failures \in 0..MaxFailures
  BY DEF TypeOK
<1>2. Fault => failures' \in 0..MaxFailures
  BY <1>1, BackupConstants DEF Fault
<1>3. CASE Obstruct \/ Repair
  <2>1. PICK o \in {"none", "client", "refused"} : cluster' = [cluster EXCEPT !.obstacle = o]
    BY <1>3, BackupConstants DEF Obstruct, Repair
  <2>2. /\ UNCHANGED <<status, deleting, pc, answer, holder, artifact, cleanup, suspensions>>
        /\ Fault \/ UNCHANGED failures
    BY <1>3 DEF Obstruct, Repair
  <2> QED
    BY <1>1, <1>2, <2>1, <2>2 DEF Clusters
<1>4. ASSUME NEW b \in Backups, MoveAway(b) \/ MoveBack(b)
      PROVE  /\ UNCHANGED <<status, deleting, pc, answer, holder, artifact, cleanup, suspensions>>
             /\ Fault \/ UNCHANGED failures
             /\ \E m \in SUBSET Backups : cluster' = [cluster EXCEPT !.moved = m]
  <2>1. cluster.moved \cup {b} \in SUBSET Backups /\ cluster.moved \ {b} \in SUBSET Backups
    BY <1>1 DEF Clusters
  <2> QED
    BY <1>4, <2>1 DEF MoveAway, MoveBack
<1>5. ASSUME NEW b \in Backups, MoveAway(b) \/ MoveBack(b)
      PROVE  /\ cluster' \in Clusters
             /\ cluster'.uid = cluster.uid /\ cluster'.state = cluster.state
             /\ cluster'.paused = cluster.paused /\ cluster'.config = cluster.config
  BY <1>1, <1>4, <1>5 DEF Clusters
<1> QED
  BY <1>1, <1>2, <1>3, <1>4, <1>5 DEF Hindrance

-----------------------------------------------------------------------------
(* The type of everything but the statuses. *)
RestOK ==
  /\ deleting \in [Backups -> BOOLEAN]
  /\ pc \in [Backups -> Points]
  /\ answer \in [Backups -> Answers]
  /\ holder \in Backups \cup {NoHolder}
  /\ cluster \in Clusters
  /\ artifact \in [Backups -> [Parts -> Artifacts]]
  /\ cleanup \in [Backups -> {"none", "clean", "abandoned"}]
  /\ suspensions \in 0..MaxSuspensions
  /\ failures \in 0..MaxFailures

(* The type invariant, split in the statuses and the rest.                 *)
LEMMA Types == TypeOK <=> StatusOK /\ RestOK
BY DEF TypeOK, StatusOK, RestOK

(* The helpers keep the program counter and the answer in their types, and *)
(* a fault stays in its bound.                                             *)
LEMMA HelperTypes ==
  ASSUME RestOK, NEW b \in Backups
  PROVE  /\ \A q \in Points : Goto(b, q) => pc' \in [Backups -> Points] /\ answer' \in [Backups -> Answers]
         /\ \A a \in Answers : Answered(b, a) => pc' \in [Backups -> Points] /\ answer' \in [Backups -> Answers]
         /\ \A how \in {"clean", "abandoned"} : EndCleanup(b, how) =>
              /\ pc' \in [Backups -> Points] /\ answer' \in [Backups -> Answers]
              /\ cleanup' \in [Backups -> {"none", "clean", "abandoned"}]
         /\ Fault => failures' \in 0..MaxFailures
         /\ \A paused \in BOOLEAN : [cluster EXCEPT !.paused = paused] \in Clusters
         /\ cluster.paused \in BOOLEAN
         /\ None \in Artifacts
<1>0. "none" \in Answers /\ "check" \in Points /\ "remove" \in Points
  BY DEF Answers, Points
<1>1. \A q \in Points : Goto(b, q) => pc' \in [Backups -> Points] /\ answer' \in [Backups -> Answers]
  BY <1>0 DEF RestOK, Goto
<1>2. \A a \in Answers : Answered(b, a) => pc' \in [Backups -> Points] /\ answer' \in [Backups -> Answers]
  BY <1>0 DEF RestOK, Answered
<1>3. \A how \in {"clean", "abandoned"} : EndCleanup(b, how) =>
        /\ pc' \in [Backups -> Points] /\ answer' \in [Backups -> Answers]
        /\ cleanup' \in [Backups -> {"none", "clean", "abandoned"}]
  BY <1>0, <1>1 DEF RestOK, EndCleanup
<1>4. Fault => failures' \in 0..MaxFailures
  BY BackupConstants DEF RestOK, Fault
<1>5. /\ \A paused \in BOOLEAN : [cluster EXCEPT !.paused = paused] \in Clusters
      /\ cluster.paused \in BOOLEAN
  BY DEF RestOK, Clusters
<1>6. None \in Artifacts
  BY BackupConstants DEF None, Artifacts
<1> QED
  BY <1>1, <1>2, <1>3, <1>4, <1>5, <1>6

(* An artifact is replaced by one of its type.                             *)
LEMMA ArtifactTypes ==
  ASSUME RestOK, NEW b \in Backups, NEW p \in Parts, NEW x \in Artifacts
  PROVE  /\ [artifact EXCEPT ![b][p] = x] \in [Backups -> [Parts -> Artifacts]]
         /\ artifact[b][p] \in Artifacts
BY DEF RestOK

(* Types are preserved by the passes of a backup.                          *)
LEMMA RestPass ==
  ASSUME TypeOK, CallsOfStep, NEW b \in Backups, Pass(b)
  PROVE  RestOK'
<1>r. RestOK /\ status[b] \in Statuses
  BY DEF TypeOK, RestOK
<1>p. {"idle", "request", "history", "records", "runtime", "remove"} \subseteq Points
  BY DEF Points
<1>m. "BackupHistory" \in Parts /\ "SnapshotRecords" \in Parts /\ "BackupRuntime" \in Parts
  BY DEF Parts
<1>1. CASE BrokenDependency(b)
  BY <1>1, <1>r, HelperTypes DEF BrokenDependency, RestOK
<1>2. CASE QueryPart(b)
  <2>1. status[b].step \in Parts
    BY <1>2 DEF QueryPart
  <2>2. Reported(status[b].step, artifact[b][status[b].step]) \in Answers
    BY <2>1, <1>r DEF RestOK, Artifacts, Reported, Answers
  <2>3. {"unreachable", "rejected"} \subseteq Answers
    BY DEF Answers
  <2> QED
    BY <1>2, <2>2, <2>3, <1>r, HelperTypes DEF QueryPart, RestOK
<1>3. CASE Judgement(b)
  <2>1. (Goto(b, "idle") \/ Goto(b, "request"))
        /\ UNCHANGED <<deleting, holder, cluster, artifact, cleanup, suspensions, failures>>
    BY <1>3 DEF Judgement, Conclude, WorkloadChanged, EndpointUnreachable, PauseAnswered,
       PartFailed, PartInProgress, PartCompleted, RecordIntent, AwaitRegistration,
       RegistrationFailed, GoOnToRequest
  <2> QED
    BY <2>1, <1>r, <1>p, HelperTypes DEF RestOK
<1>4. CASE Request(b)
  <2>1. status[b].step \in Parts /\ Goto(b, "idle")
        /\ UNCHANGED <<deleting, holder, cluster, cleanup, suspensions>>
    BY <1>4 DEF Request, RequestAccepted, SnapshotCreated, RequestWriteLost, RequestUnreachable,
       RequestRejected, Requesting, CallsOfStep
  <2>2. Create(b) \/ UNCHANGED artifact
    BY <1>4 DEF Request, RequestAccepted, SnapshotCreated, RequestWriteLost, RequestUnreachable,
       RequestRejected
  <2>3. Fault \/ UNCHANGED failures
    BY <1>4 DEF Request, RequestAccepted, SnapshotCreated, RequestWriteLost, RequestUnreachable,
       RequestRejected
  <2>4. artifact' \in [Backups -> [Parts -> Artifacts]]
    <3>1. ASSUME Create(b) PROVE artifact' \in [Backups -> [Parts -> Artifacts]]
      <4>1. [by |-> "self", config |-> 0,
             state |-> IF status[b].step \in Managed THEN "accepted" ELSE "running"] \in Artifacts
        BY BackupConstants DEF Artifacts
      <4> QED
        BY <3>1, <4>1, <2>1, <1>r, ArtifactTypes DEF Create
    <3> QED
      BY <2>2, <3>1, <1>r DEF RestOK
  <2> QED
    BY <2>1, <2>3, <2>4, <1>r, <1>p, HelperTypes DEF RestOK
<1>5. CASE FinalizeUnstarted(b) \/ FinalizeUnreachable(b) \/ FinalizeContractGone(b)
  BY <1>5, <1>r, HelperTypes DEF FinalizeUnstarted, FinalizeUnreachable, FinalizeContractGone, RestOK
<1>6. CASE FinalizeHistory(b)
  <2>1. Goto(b, "records") \/ Goto(b, "idle")
    BY <1>6 DEF FinalizeHistory
  <2>2. artifact' \in [Backups -> [Parts -> Artifacts]]
    <3> DEFINE x == artifact[b]["BackupHistory"]
               y == IF Reported("BackupHistory", x) = "absent" THEN x ELSE None
    <3>1. y \in Artifacts
      BY <1>r, <1>m, HelperTypes DEF RestOK
    <3>2. [artifact EXCEPT ![b]["BackupHistory"] = y] \in [Backups -> [Parts -> Artifacts]]
      BY <3>1, <1>r, <1>m, ArtifactTypes
    <3> QED
      BY <3>2, <1>6, <1>r DEF FinalizeHistory, RestOK
  <2>3. UNCHANGED <<deleting, holder, cluster, cleanup, suspensions, failures>>
    BY <1>6 DEF FinalizeHistory
  <2> QED
    BY <2>1, <2>2, <2>3, <1>r, <1>p, HelperTypes DEF RestOK
<1>7. CASE FinalizeRecords(b)
  <2>1. artifact' \in [Backups -> [Parts -> Artifacts]]
    BY <1>7, <1>r, <1>m, HelperTypes DEF FinalizeRecords, RestOK
  <2>2. (Goto(b, "runtime") /\ UNCHANGED cleanup) \/ EndCleanup(b, "clean")
    BY <1>7 DEF FinalizeRecords
  <2>3. UNCHANGED <<deleting, holder, cluster, suspensions, failures>>
    BY <1>7 DEF FinalizeRecords
  <2> QED
    BY <2>1, <2>2, <2>3, <1>r, <1>p, HelperTypes DEF RestOK
<1>8. CASE FinalizeRuntime(b)
  <2>1. artifact' \in [Backups -> [Parts -> Artifacts]]
    <3> DEFINE x == artifact[b]["BackupRuntime"]
               y == IF Reported("BackupRuntime", x) = "absent" THEN x ELSE None
    <3>1. y \in Artifacts
      BY <1>r, <1>m, HelperTypes DEF RestOK
    <3>2. [artifact EXCEPT ![b]["BackupRuntime"] = y] \in [Backups -> [Parts -> Artifacts]]
      BY <3>1, <1>r, <1>m, ArtifactTypes
    <3> QED
      BY <3>2, <1>8 DEF FinalizeRuntime
  <2>2. EndCleanup(b, "clean")
        /\ UNCHANGED <<deleting, holder, cluster, suspensions, failures>>
    BY <1>8 DEF FinalizeRuntime
  <2> QED
    BY <2>1, <2>2, <1>r, HelperTypes DEF RestOK
<1>9. CASE FinalizeHolds(b)
  BY <1>9, <1>r, <1>p, HelperTypes DEF FinalizeHolds, RestOK
<1> QED
  BY <1>1, <1>2, <1>3, <1>4, <1>5, <1>6, <1>7, <1>8, <1>9 DEF Pass

-----------------------------------------------------------------------------
(* The steps that move a phase, the claim, the pause or the cluster.       *)
Moves(b) ==
  \/ Submit(b) \/ ClaimCluster(b) \/ Start(b) \/ LeaveAdmission(b) \/ FailClusterLost(b)
  \/ PauseExporting(b) \/ ResumeExporting(b) \/ ResumeWriteLost(b) \/ ResumeAttemptFailed(b)
  \/ ReleaseClaim(b) \/ Delete(b) \/ FinalizeClusterLost(b) \/ FinalizeResume(b)
  \/ RemoveFinalizer(b) \/ ReleaseAfterRemoval(b) \/ Crash(b)

(* Every step of the system is a pass, a move or of the environment.       *)
LEMMA NextCases == Next => (\E b \in Backups : Pass(b) \/ Moves(b)) \/ Environment
BY DEF Next, Pass, Moves, Admission, Run, Finalize

(* Type correctness is preserved by every step.                            *)
LEMMA TypeStep == TypeOK /\ CallsOfStep /\ [Next]_vars => TypeOK'
<1> SUFFICES ASSUME TypeOK, CallsOfStep, [Next]_vars PROVE TypeOK'
  OBVIOUS
<1>r. RestOK /\ StatusOK
  BY DEF TypeOK, RestOK, StatusOK
<1>p. {"idle", "start", "remove", "history", "release", "check"} \subseteq Points
  BY DEF Points
<1>f. ASSUME NEW b \in Backups, NEW s \in Statuses, Flush(b, s) PROVE StatusOK'
  BY <1>f, <1>r DEF Flush, StatusOK
<1>c. RestOK /\ UNCHANGED <<deleting, pc, answer, holder, artifact, cleanup, suspensions, failures>>
      /\ cluster' \in Clusters => RestOK'
  BY DEF RestOK
<1>1. ASSUME NEW b \in Backups, Pass(b) PROVE TypeOK'
  <2>1. StatusOK'
    BY <1>1, PassKeepsFrame DEF PassFrame, EditsOnly
  <2> QED
    BY <1>1, <2>1, RestPass DEF TypeOK, StatusOK, RestOK
<1>2. ASSUME NEW b \in Backups, Moves(b) PROVE TypeOK'
  <2>s. status[b] \in Statuses
    BY <1>r DEF StatusOK
  <2>1. CASE Submit(b)
    <3>1. [status[b] EXCEPT !.phase = "pending"] \in Statuses
      BY <2>s DEF Statuses, Phases
    <3>2. StatusOK'
      BY <2>1, <3>1, <1>r DEF Submit, StatusOK
    <3>3. RestOK'
      BY <2>1, <1>r DEF Submit, RestOK
    <3> QED
      BY <3>2, <3>3 DEF TypeOK, StatusOK, RestOK
  <2>2. CASE ClaimCluster(b)
    BY <2>2, <1>r, <1>p, HelperTypes DEF ClaimCluster, TypeOK, RestOK
  <2>3. CASE Start(b)
    <3>1. cluster.uid \in 0..MaxClusters /\ cluster.config \in 0..MaxConfig
      BY <1>r, BackupConstants DEF RestOK, Clusters
    <3>2. [status[b] EXCEPT !.phase = "running", !.step = "PauseExporting",
                            !.uid = cluster.uid, !.config = cluster.config] \in Statuses
      BY <2>s, <3>1 DEF Statuses, Phases, Steps
    <3>3. StatusOK'
      BY <2>3, <3>2, <1>f DEF Start
    <3>4. RestOK'
      BY <2>3, <1>r, <1>p, HelperTypes DEF Start, RestOK
    <3> QED
      BY <3>3, <3>4 DEF TypeOK, StatusOK, RestOK
  <2>4. CASE LeaveAdmission(b)
    BY <2>4, <1>r, <1>p, HelperTypes DEF LeaveAdmission, TypeOK, RestOK
  <2>5. CASE FailClusterLost(b)
    <3>1. [status[b] EXCEPT !.phase = "Failed", !.failed = TRUE] \in Statuses
      BY <2>s DEF Statuses, Phases
    <3>2. StatusOK'
      BY <2>5, <3>1, <1>f DEF FailClusterLost
    <3>3. RestOK'
      BY <2>5, <1>r DEF FailClusterLost, RestOK
    <3> QED
      BY <3>2, <3>3 DEF TypeOK, StatusOK, RestOK
  <2>6. CASE PauseExporting(b)
    <3>1. cluster' \in Clusters
      BY <2>6, <1>r, HelperTypes DEF PauseExporting
    <3>2. {"ok", "unreachable", "rejected"} \subseteq Answers
      BY DEF Answers
    <3>3. RestOK'
      BY <2>6, <3>1, <3>2, <1>r, HelperTypes DEF PauseExporting, RestOK
    <3> QED
      BY <2>6, <3>3, <1>r DEF PauseExporting, TypeOK, StatusOK, RestOK
  <2>7. CASE ResumeExporting(b)
    <3>1. [status[b] EXCEPT !.phase = IF status[b].failed THEN "Failed" ELSE "Completed"] \in Statuses
      BY <2>s DEF Statuses, Phases
    <3>2. StatusOK'
      BY <2>7, <3>1, <1>f DEF ResumeExporting
    <3>3. RestOK'
      BY <2>7, <1>r, <1>c, HelperTypes DEF ResumeExporting
    <3> QED
      BY <3>2, <3>3 DEF TypeOK, StatusOK, RestOK
  <2>8. CASE ResumeWriteLost(b)
    BY <2>8, <1>r, HelperTypes DEF ResumeWriteLost, TypeOK, RestOK
  <2>9. CASE ResumeAttemptFailed(b)
    <3>1. status[b].attempts < ResumeBound => [status[b] EXCEPT !.attempts = @ + 1] \in Statuses
      BY <2>s, BackupConstants DEF Statuses
    <3>2. [status[b] EXCEPT !.phase = "ResumeFailed", !.failed = TRUE] \in Statuses
      BY <2>s DEF Statuses, Phases
    <3>3. StatusOK'
      BY <2>9, <3>1, <3>2, <1>f DEF ResumeAttemptFailed
    <3>4. RestOK'
      BY <2>9, <1>r, <1>c, HelperTypes DEF ResumeAttemptFailed
    <3> QED
      BY <3>3, <3>4 DEF TypeOK, StatusOK, RestOK
  <2>10. CASE ReleaseClaim(b)
    BY <2>10 DEF ReleaseClaim, TypeOK
  <2>11. CASE Delete(b)
    BY <2>11 DEF Delete, TypeOK
  <2>12. CASE FinalizeClusterLost(b)
    <3>1. PICK done \in SUBSET Parts :
            artifact' = [artifact EXCEPT ![b] = [p \in Parts |-> IF p \in done THEN None ELSE @[p]]]
      BY <2>12 DEF FinalizeClusterLost, Parts
    <3>2. [p \in Parts |-> IF p \in done THEN None ELSE artifact[b][p]] \in [Parts -> Artifacts]
      BY <1>r, HelperTypes DEF RestOK
    <3>3. artifact' \in [Backups -> [Parts -> Artifacts]]
      BY <3>1, <3>2, <1>r DEF RestOK
    <3> QED
      BY <2>12, <3>3, <1>r, HelperTypes DEF FinalizeClusterLost, TypeOK, RestOK
  <2>13. CASE FinalizeResume(b)
    BY <2>13, <1>r, <1>p, HelperTypes DEF FinalizeResume, TypeOK, RestOK
  <2>14. CASE RemoveFinalizer(b)
    <3>1. status[b].accepted \subseteq Managed
      BY <2>s DEF Statuses
    <3>2. [NoStatus EXCEPT !.phase = "gone", !.accepted = status[b].accepted] \in Statuses
      <4>1. 0 \in 0..UnreachableBound /\ 0 \in 0..ResumeBound /\ 0 \in 0..MaxClusters /\ 0 \in 0..MaxConfig
        BY BackupConstants
      <4>2. NoStatus \in Statuses
        BY <4>1 DEF NoStatus, Statuses, Phases, Steps
      <4> QED
        BY <3>1, <4>2 DEF Statuses, Phases
    <3>3. StatusOK'
      BY <2>14, <3>2, <1>r DEF RemoveFinalizer, StatusOK
    <3>4. RestOK'
      BY <2>14, <1>r, <1>p, HelperTypes DEF RemoveFinalizer, RestOK
    <3> QED
      BY <3>3, <3>4 DEF TypeOK, StatusOK, RestOK
  <2>15. CASE ReleaseAfterRemoval(b)
    BY <2>15, <1>r, <1>p, HelperTypes DEF ReleaseAfterRemoval, TypeOK, RestOK
  <2>16. CASE Crash(b)
    BY <2>16, <1>r, <1>p, HelperTypes DEF Crash, TypeOK, RestOK
  <2> QED
    BY <1>2, <2>1, <2>2, <2>3, <2>4, <2>5, <2>6, <2>7, <2>8, <2>9, <2>10, <2>11, <2>12,
       <2>13, <2>14, <2>15, <2>16 DEF Moves
<1>3. CASE Environment
  <2>0. CASE Hindrance
    BY <2>0, <1>r, HindranceOnly DEF TypeOK
  <2>1. CASE Rollout \/ Suspend \/ Unsuspend \/ ClusterDeleted \/ ClusterRecreated
    <3>1. cluster' \in Clusters
      <4>1. cluster \in Clusters
        BY <1>r DEF RestOK
      <4>2. CASE Rollout
        <5>1. cluster.config + 1 \in 1..MaxConfig
          BY <4>1, <4>2, BackupConstants DEF Rollout, Clusters
        <5>2. [cluster EXCEPT !.config = cluster.config + 1] \in Clusters
          BY <4>1, <5>1 DEF Clusters
        <5> QED
          BY <4>2, <5>2 DEF Rollout
      <4>3. CASE Suspend \/ Unsuspend
        BY <4>1, <4>3 DEF Suspend, Unsuspend, Clusters
      <4>4. CASE ClusterDeleted
        BY <4>1, <4>4 DEF ClusterDeleted, Clusters
      <4>5. CASE ClusterRecreated
        <5>1. cluster.uid + 1 \in 1..MaxClusters
          BY <4>1, <4>5, BackupConstants DEF ClusterRecreated, Clusters
        <5>2. [cluster EXCEPT !.uid = cluster.uid + 1, !.state = "up"] \in Clusters
          BY <4>1, <5>1 DEF Clusters
        <5> QED
          BY <4>5, <5>2 DEF ClusterRecreated
      <4> QED
        BY <2>1, <4>2, <4>3, <4>4, <4>5
    <3>2. suspensions' \in 0..MaxSuspensions
      BY <2>1, <1>r, BackupConstants DEF Rollout, Suspend, Unsuspend, ClusterDeleted,
         ClusterRecreated, RestOK
    <3>3. UNCHANGED <<status, deleting, pc, answer, holder, artifact, cleanup, failures>>
      BY <2>1 DEF Rollout, Suspend, Unsuspend, ClusterDeleted, ClusterRecreated
    <3> QED
      BY <3>1, <3>2, <3>3 DEF TypeOK
  <2>2. ASSUME NEW b \in Backups, NEW p \in Parts, Progress(b, p) PROVE TypeOK'
    <3> DEFINE x == artifact[b][p]
    <3>0. x \in Artifacts /\ cluster.config \in 0..MaxConfig
      BY <1>r, BackupConstants DEF RestOK, Clusters
    <3>1. \A t \in {"running", "lost", "failed"} : [x EXCEPT !.state = t] \in Artifacts
      BY <3>0 DEF Artifacts
    <3>2. [x EXCEPT !.state = "completed", !.config = cluster.config] \in Artifacts
      BY <3>0 DEF Artifacts
    <3>3. artifact' \in [Backups -> [Parts -> Artifacts]]
      <4>1. \A t : [artifact EXCEPT ![b][p].state = t] = [artifact EXCEPT ![b][p] = [x EXCEPT !.state = t]]
        BY <1>r DEF RestOK
      <4>2. \A t \in {"running", "lost", "failed"} :
              [artifact EXCEPT ![b][p].state = t] \in [Backups -> [Parts -> Artifacts]]
        BY <4>1, <3>1, <1>r, ArtifactTypes
      <4>3. [artifact EXCEPT ![b][p] = [x EXCEPT !.state = "completed", !.config = cluster.config]]
              \in [Backups -> [Parts -> Artifacts]]
        BY <3>2, <1>r, ArtifactTypes
      <4> QED
        BY <2>2, <4>2, <4>3 DEF Progress
    <3>4. failures' \in 0..MaxFailures
      BY <2>2, <1>r, HelperTypes DEF Progress, RestOK
    <3> QED
      BY <2>2, <3>3, <3>4 DEF Progress, TypeOK
  <2>3. ASSUME NEW b \in Backups, NEW p \in Parts, ForeignArtifact(b, p) PROVE TypeOK'
    <3>1. [by |-> "foreign", state |-> "running", config |-> 0] \in Artifacts
      BY BackupConstants DEF Artifacts
    <3>2. artifact' \in [Backups -> [Parts -> Artifacts]]
      BY <2>3, <3>1, <1>r, ArtifactTypes DEF ForeignArtifact
    <3> QED
      BY <2>3, <3>2, <1>r, HelperTypes DEF ForeignArtifact, TypeOK
  <2> QED
    BY <1>3, <2>0, <2>1, <2>2, <2>3 DEF Environment
<1>4. CASE UNCHANGED vars
  BY <1>4 DEF vars, TypeOK
<1> QED
  BY <1>1, <1>2, <1>3, <1>4, NextCases

-----------------------------------------------------------------------------
(* A step of b leaves the other backups alone.                             *)
OthersSame(b) == \A d \in Backups \ {b} : status'[d] = status[d] /\ pc'[d] = pc[d]

(* The passes preserve the protocol invariant.                             *)
LEMMA PassStep ==
  ASSUME TypeOK, ProtocolInv, NEW b \in Backups, Pass(b)
  PROVE  ProtocolInv'
<1>1. PassFrame(b)
  BY PassKeepsFrame DEF ProtocolInv
<1>2. /\ OthersSame(b) /\ UNCHANGED <<holder, cluster>>
      /\ status'[b].phase = status[b].phase /\ status'[b].uid = status[b].uid
      /\ status[b].step # "None" => status'[b].step # "None"
      /\ pc'[b] \notin {"start", "release"}
      /\ pc'[b] \in {"check", "request"} => UNCHANGED status /\ status[b].step \in Parts
      /\ pc'[b] \in CleanupPoints =>
           UNCHANGED status /\ (pc[b] \in CleanupPoints \/ ~MayHoldExportingPaused(b))
  BY <1>1 DEF PassFrame, EditsOnly, Edit, OthersSame
<1>3. \A d \in Backups : MayHoldExportingPaused(d) => MayHoldExportingPaused(d)'
  BY <1>2 DEF OthersSame, MayHoldExportingPaused
<1>4. ClaimCoversUse' /\ StartHoldsClaim' /\ ReleasedIsGone' /\ PinnedExisted' /\ CallsOfStep' /\ GoneIsNotPaused'
  BY <1>2 DEF OthersSame, ProtocolInv, ClaimCoversUse, StartHoldsClaim, ReleasedIsGone,
     PinnedExisted, CallsOfStep, GoneIsNotPaused
<1>5. CleanupResumedFirst'
  BY <1>2 DEF OthersSame, ProtocolInv, CleanupResumedFirst, MayHoldExportingPaused, CleanupPoints
<1>6. PauseHasOwner'
  BY <1>2, <1>3 DEF OthersSame, ProtocolInv, PauseHasOwner
<1> QED
  BY <1>4, <1>5, <1>6 DEF ProtocolInv

(* Where the cluster is paused, the claim is with the owner of the pause,  *)
(* and while some backup uses the cluster nobody else can.                 *)
LEMMA OwnerFacts ==
  ASSUME ProtocolInv, NEW b \in Backups
  PROVE  /\ MayHoldExportingPaused(b) => holder = b
         /\ cluster.paused => holder \in Backups /\ MayHoldExportingPaused(holder)
                                /\ status[holder].uid = cluster.uid
         /\ cluster.paused => cluster.state # "gone"
BY DEF ProtocolInv, ClaimCoversUse, PauseHasOwner, GoneIsNotPaused, MayHoldExportingPaused

(* Admission, pause, resume, release and the finalizer preserve the        *)
(* protocol invariant.                                                     *)
LEMMA MovesStep ==
  ASSUME TypeOK, ProtocolInv, NEW b \in Backups, Moves(b)
  PROVE  ProtocolInv'
<1>t. /\ status \in [Backups -> Statuses] /\ status[b] \in Statuses
      /\ pc \in [Backups -> Points] /\ cluster \in Clusters
      /\ NoHolder \notin Backups
  BY BackupConstants DEF TypeOK
<1>u. cluster.uid \in Nat /\ cluster.paused \in BOOLEAN
  BY <1>t DEF Clusters
<1>o. /\ \A d \in Backups : MayHoldExportingPaused(d) => holder = d
      /\ cluster.paused => holder \in Backups /\ MayHoldExportingPaused(holder)
                             /\ status[holder].uid = cluster.uid
      /\ cluster.paused => cluster.state # "gone"
  BY OwnerFacts
<1>1. CASE Submit(b)
  <2>1. /\ OthersSame(b) /\ UNCHANGED <<holder, cluster, pc>> /\ status[b].phase = "absent"
        /\ status'[b].phase = "pending" /\ status'[b].uid = status[b].uid
        /\ status'[b].step = status[b].step
    BY <1>1, <1>t DEF Submit, OthersSame, Statuses
  <2> QED
    BY <2>1, <1>t, <1>o DEF OthersSame, ProtocolInv, ClaimCoversUse, StartHoldsClaim, ReleasedIsGone,
         PinnedExisted, CallsOfStep, GoneIsNotPaused, CleanupResumedFirst, PauseHasOwner,
         MayHoldExportingPaused
<1>2. CASE ClaimCluster(b)
  <2>1. /\ OthersSame(b) /\ UNCHANGED <<status, cluster>> /\ holder' = b
        /\ pc'[b] = "start" /\ status[b].phase = "pending"
        /\ \A d \in Backups : status[d].phase \in {"running", "ResumeFailed", "pending"} => holder # d \/ d = b
    BY <1>2, <1>t DEF ClaimCluster, OthersSame, Goto, HolderActive
  <2> QED
    BY <2>1, <1>t, <1>o DEF OthersSame, ProtocolInv, ClaimCoversUse, StartHoldsClaim, ReleasedIsGone,
         PinnedExisted, CallsOfStep, GoneIsNotPaused, CleanupResumedFirst, PauseHasOwner,
         MayHoldExportingPaused
<1>3. CASE Start(b)
  <2>1. /\ OthersSame(b) /\ UNCHANGED <<holder, cluster>> /\ pc[b] = "start" /\ pc'[b] = "idle"
        /\ \/ status'[b] = status[b]
           \/ status'[b].phase = "running" /\ status'[b].uid = cluster.uid
    BY <1>3, <1>t DEF Start, OthersSame, Goto, Flush, Statuses
  <2> QED
    BY <2>1, <1>t, <1>o, <1>u DEF OthersSame, ProtocolInv, ClaimCoversUse, StartHoldsClaim, ReleasedIsGone,
         PinnedExisted, CallsOfStep, GoneIsNotPaused, CleanupResumedFirst, PauseHasOwner,
         MayHoldExportingPaused
<1>4. CASE LeaveAdmission(b)
  <2>1. /\ OthersSame(b) /\ UNCHANGED <<status, cluster>> /\ pc'[b] = "idle"
        /\ status[b].phase = "pending" /\ holder = b /\ holder' = NoHolder
    BY <1>4, <1>t DEF LeaveAdmission, OthersSame, Goto
  <2> QED
    BY <2>1, <1>t, <1>o DEF OthersSame, ProtocolInv, ClaimCoversUse, StartHoldsClaim, ReleasedIsGone,
         PinnedExisted, CallsOfStep, GoneIsNotPaused, CleanupResumedFirst, PauseHasOwner,
         MayHoldExportingPaused
<1>5. CASE FailClusterLost(b)
  <2>1. /\ OthersSame(b) /\ UNCHANGED <<holder, cluster, pc>> /\ pc[b] = "idle"
        /\ cluster.state = "gone" \/ cluster.uid # status[b].uid
        /\ \/ status'[b] = status[b]
           \/ status'[b].phase = "Failed" /\ status'[b].uid = status[b].uid
    BY <1>5, <1>t DEF FailClusterLost, OthersSame, PassBegins, ClusterIsLost, Flush, Statuses
  <2> QED
    BY <2>1, <1>t, <1>o DEF OthersSame, ProtocolInv, ClaimCoversUse, StartHoldsClaim, ReleasedIsGone,
         PinnedExisted, CallsOfStep, GoneIsNotPaused, CleanupResumedFirst, PauseHasOwner,
         MayHoldExportingPaused
<1>6. CASE PauseExporting(b)
  <2>1. /\ OthersSame(b) /\ UNCHANGED <<status, holder>> /\ pc'[b] = "check" /\ pc[b] = "idle"
        /\ status[b].phase = "running" /\ status[b].step = "PauseExporting"
        /\ cluster'.uid = cluster.uid /\ cluster.uid = status[b].uid
        /\ cluster'.state = "up"
    BY <1>6, <1>t DEF PauseExporting, OthersSame, PassBegins, Addressable, Answered, Clusters
  <2> QED
    BY <2>1, <1>t, <1>o DEF OthersSame, ProtocolInv, ClaimCoversUse, StartHoldsClaim, ReleasedIsGone,
         PinnedExisted, CallsOfStep, GoneIsNotPaused, CleanupResumedFirst, PauseHasOwner,
         MayHoldExportingPaused
<1>7. CASE ResumeExporting(b)
  <2>1. /\ OthersSame(b) /\ UNCHANGED <<holder, pc>> /\ pc[b] = "idle"
        /\ cluster'.uid = cluster.uid /\ cluster'.paused = FALSE
        /\ \/ status'[b] = status[b]
           \/ status'[b].phase \in {"Failed", "Completed"} /\ status'[b].uid = status[b].uid
    BY <1>7, <1>t DEF ResumeExporting, OthersSame, PassBegins, Flush, Statuses, Clusters
  <2> QED
    BY <2>1, <1>t, <1>o DEF OthersSame, ProtocolInv, ClaimCoversUse, StartHoldsClaim, ReleasedIsGone,
         PinnedExisted, CallsOfStep, GoneIsNotPaused, CleanupResumedFirst, PauseHasOwner,
         MayHoldExportingPaused
<1>8. CASE ResumeWriteLost(b)
  <2>1. /\ OthersSame(b) /\ UNCHANGED <<status, holder, pc>>
        /\ cluster'.uid = cluster.uid /\ cluster'.paused = FALSE
    BY <1>8, <1>t DEF ResumeWriteLost, OthersSame, Clusters
  <2> QED
    BY <2>1, <1>t, <1>o DEF OthersSame, ProtocolInv, ClaimCoversUse, StartHoldsClaim, ReleasedIsGone,
         PinnedExisted, CallsOfStep, GoneIsNotPaused, CleanupResumedFirst, PauseHasOwner,
         MayHoldExportingPaused
<1>9. CASE ResumeAttemptFailed(b)
  <2>1. /\ OthersSame(b) /\ UNCHANGED <<holder, pc>> /\ pc[b] = "idle" /\ status[b].phase = "running"
        /\ cluster'.uid = cluster.uid /\ cluster'.state = cluster.state
        /\ cluster'.paused = cluster.paused \/ cluster'.paused = FALSE
        /\ status[b].step = "ResumeExporting"
        /\ status'[b].phase \in {"running", "ResumeFailed"} /\ status'[b].uid = status[b].uid
        /\ status'[b].step = status[b].step
    BY <1>9, <1>t DEF ResumeAttemptFailed, OthersSame, PassBegins, Flush, Statuses, Clusters
  <2> QED
    BY <2>1, <1>t, <1>o DEF OthersSame, ProtocolInv, ClaimCoversUse, StartHoldsClaim, ReleasedIsGone,
         PinnedExisted, CallsOfStep, GoneIsNotPaused, CleanupResumedFirst, PauseHasOwner,
         MayHoldExportingPaused
<1>10. CASE ReleaseClaim(b)
  <2>1. /\ OthersSame(b) /\ UNCHANGED <<status, cluster, pc>>
        /\ status[b].phase \in {"Completed", "Failed"} /\ holder = b /\ holder' = NoHolder /\ pc[b] = "idle"
    BY <1>10, <1>t DEF ReleaseClaim, OthersSame
  <2> QED
    BY <2>1, <1>t, <1>o DEF OthersSame, ProtocolInv, ClaimCoversUse, StartHoldsClaim, ReleasedIsGone,
         PinnedExisted, CallsOfStep, GoneIsNotPaused, CleanupResumedFirst, PauseHasOwner,
         MayHoldExportingPaused
<1>11. CASE Delete(b)
  <2>1. UNCHANGED <<status, cluster, pc, holder>>
    BY <1>11, <1>t DEF Delete, OthersSame
  <2> QED
    BY <2>1, <1>t, <1>o DEF OthersSame, ProtocolInv, ClaimCoversUse, StartHoldsClaim, ReleasedIsGone,
         PinnedExisted, CallsOfStep, GoneIsNotPaused, CleanupResumedFirst, PauseHasOwner,
         MayHoldExportingPaused
<1>12. CASE FinalizeClusterLost(b)
  <2>1. /\ OthersSame(b) /\ UNCHANGED <<status, cluster, holder>> /\ pc'[b] = "remove"
        /\ cluster.state = "gone" \/ cluster.uid # status[b].uid
    BY <1>12, <1>t DEF FinalizeClusterLost, OthersSame, ClusterIsLost, EndCleanup, Goto
  <2> QED
    BY <2>1, <1>t, <1>o DEF OthersSame, ProtocolInv, ClaimCoversUse, StartHoldsClaim, ReleasedIsGone,
         PinnedExisted, CallsOfStep, GoneIsNotPaused, CleanupResumedFirst, PauseHasOwner,
         MayHoldExportingPaused
<1>13. CASE FinalizeResume(b)
  <2>1. /\ OthersSame(b) /\ UNCHANGED <<status, holder>> /\ pc[b] = "idle" /\ pc'[b] \in {"idle", "history"}
        /\ cluster'.uid = cluster.uid /\ cluster'.state = cluster.state
        /\ \/ MayHoldExportingPaused(b) /\ cluster'.paused = FALSE
           \/ ~MayHoldExportingPaused(b) /\ cluster' = cluster
    BY <1>13, <1>t DEF FinalizeResume, OthersSame, FinalizerBegins, Goto, Clusters
  <2> QED
    BY <2>1, <1>t, <1>o DEF OthersSame, ProtocolInv, ClaimCoversUse, StartHoldsClaim, ReleasedIsGone,
         PinnedExisted, CallsOfStep, GoneIsNotPaused, CleanupResumedFirst, PauseHasOwner,
         MayHoldExportingPaused
<1>14. CASE RemoveFinalizer(b)
  <2>1. /\ OthersSame(b) /\ UNCHANGED <<cluster, holder>> /\ pc[b] = "remove" /\ pc'[b] = "release"
        /\ status'[b].phase = "gone" /\ status'[b].uid = 0
    BY <1>14, <1>t DEF RemoveFinalizer, OthersSame, NoStatus, Goto
  <2> QED
    BY <2>1, <1>t, <1>o, <1>u DEF OthersSame, ProtocolInv, ClaimCoversUse, StartHoldsClaim, ReleasedIsGone,
         PinnedExisted, CallsOfStep, GoneIsNotPaused, CleanupResumedFirst, PauseHasOwner,
         MayHoldExportingPaused
<1>15. CASE ReleaseAfterRemoval(b)
  <2>1. /\ OthersSame(b) /\ UNCHANGED <<status, cluster>> /\ pc[b] = "release" /\ pc'[b] = "idle"
        /\ holder' = IF holder = b THEN NoHolder ELSE holder
    BY <1>15, <1>t DEF ReleaseAfterRemoval, OthersSame, Goto
  <2> QED
    BY <2>1, <1>t, <1>o DEF OthersSame, ProtocolInv, ClaimCoversUse, StartHoldsClaim, ReleasedIsGone,
         PinnedExisted, CallsOfStep, GoneIsNotPaused, CleanupResumedFirst, PauseHasOwner,
         MayHoldExportingPaused
<1>16. CASE Crash(b)
  <2>1. /\ OthersSame(b) /\ UNCHANGED <<status, cluster, holder>> /\ pc'[b] = "idle"
    BY <1>16, <1>t DEF Crash, OthersSame, Goto
  <2> QED
    BY <2>1, <1>t, <1>o DEF OthersSame, ProtocolInv, ClaimCoversUse, StartHoldsClaim, ReleasedIsGone,
         PinnedExisted, CallsOfStep, GoneIsNotPaused, CleanupResumedFirst, PauseHasOwner,
         MayHoldExportingPaused
<1> QED
  BY <1>1, <1>2, <1>3, <1>4, <1>5, <1>6, <1>7, <1>8, <1>9, <1>10, <1>11, <1>12, <1>13, <1>14, <1>15, <1>16 DEF Moves

(* No step of the cluster or of another actor breaks the protocol: only a  *)
(* deletion changes the pause, and a new cluster has another UID.          *)
LEMMA EnvironmentStep ==
  ASSUME TypeOK, ProtocolInv, Environment
  PROVE  ProtocolInv'
<1>1. UNCHANGED <<status, pc, holder>>
  BY HindranceOnly DEF Environment, Rollout, Suspend, Unsuspend, ClusterDeleted, ClusterRecreated, Progress, ForeignArtifact
<1>2. /\ cluster.uid \in Nat /\ cluster'.uid \in {cluster.uid, cluster.uid + 1}
      /\ cluster'.paused => cluster.paused /\ cluster'.uid = cluster.uid /\ cluster'.state # "gone"
      /\ \A b \in Backups : status[b].uid \in Nat
  <2>0. cluster \in Clusters /\ \A b \in Backups : status[b] \in Statuses
    BY DEF TypeOK
  <2>1. cluster.uid \in Nat /\ \A b \in Backups : status[b].uid \in Nat
    BY <2>0 DEF Clusters, Statuses
  <2>2. CASE UNCHANGED cluster
    BY <2>1, <2>2 DEF ProtocolInv, GoneIsNotPaused
  <2>3. CASE Rollout \/ Suspend \/ Unsuspend
    BY <2>0, <2>1, <2>3 DEF Rollout, Suspend, Unsuspend, Clusters
  <2>4. CASE ClusterDeleted
    BY <2>0, <2>1, <2>4 DEF ClusterDeleted, Clusters
  <2>5. CASE ClusterRecreated
    BY <2>0, <2>1, <2>5 DEF ClusterRecreated, Clusters, ProtocolInv, GoneIsNotPaused
  <2>6. CASE Hindrance
    BY <2>1, <2>6, HindranceOnly DEF ProtocolInv, GoneIsNotPaused
  <2> QED
    BY <2>2, <2>3, <2>4, <2>5, <2>6 DEF Environment, Progress, ForeignArtifact
<1>3. ClaimCoversUse' /\ StartHoldsClaim' /\ ReleasedIsGone' /\ CallsOfStep'
  BY <1>1 DEF ProtocolInv, ClaimCoversUse, StartHoldsClaim, ReleasedIsGone, CallsOfStep
<1>4. PinnedExisted' /\ GoneIsNotPaused'
  BY <1>1, <1>2 DEF ProtocolInv, PinnedExisted, GoneIsNotPaused
<1>5. CleanupResumedFirst' /\ PauseHasOwner'
  BY <1>1, <1>2 DEF ProtocolInv, CleanupResumedFirst, PauseHasOwner, MayHoldExportingPaused
<1> QED
  BY <1>3, <1>4, <1>5 DEF ProtocolInv

-----------------------------------------------------------------------------
(* The inductive invariant *)

(* The initial states are typed and satisfy the protocol invariant.        *)
LEMMA InitInv == Init => TypeOK /\ ProtocolInv
<1> SUFFICES ASSUME Init PROVE TypeOK /\ ProtocolInv
  OBVIOUS
<1>0. 0 \in 0..UnreachableBound /\ 0 \in 0..ResumeBound /\ 0 \in 0..MaxClusters /\ 0 \in 0..MaxConfig
      /\ 1 \in 1..MaxClusters /\ 1 \in 1..MaxConfig /\ 0 \in 0..MaxSuspensions /\ 0 \in 0..MaxFailures
  BY BackupConstants
<1>1. NoStatus \in Statuses /\ NoStatus.phase = "absent" /\ NoStatus.uid = 0
  BY <1>0 DEF NoStatus, Statuses, Phases, Steps
<1>2. None \in Artifacts
  BY <1>0 DEF None, Artifacts
<1>3. cluster \in Clusters /\ cluster.uid = 1 /\ ~cluster.paused
  BY <1>0 DEF Init, Clusters
<1>4. TypeOK
  BY <1>0, <1>1, <1>2, <1>3 DEF Init, TypeOK, Answers, Points
<1>5. ProtocolInv
  BY <1>1, <1>3 DEF Init, ProtocolInv, ClaimCoversUse, StartHoldsClaim, ReleasedIsGone,
     PinnedExisted, CallsOfStep, GoneIsNotPaused, CleanupResumedFirst, PauseHasOwner
<1> QED
  BY <1>4, <1>5

(* The invariant holds in every reachable state: reconciles may interleave *)
(* in any order, and crash between any two of their requests.              *)
THEOREM BackupInvariant == Spec => [](TypeOK /\ ProtocolInv)
<1>1. TypeOK /\ ProtocolInv /\ [Next]_vars => (TypeOK /\ ProtocolInv)'
  <2> SUFFICES ASSUME TypeOK, ProtocolInv, [Next]_vars PROVE (TypeOK /\ ProtocolInv)'
    OBVIOUS
  <2>1. TypeOK'
    BY TypeStep DEF ProtocolInv
  <2>2. CASE UNCHANGED vars
    BY <2>1, <2>2 DEF vars, ProtocolInv, ClaimCoversUse, StartHoldsClaim, ReleasedIsGone,
       PinnedExisted, CallsOfStep, GoneIsNotPaused, CleanupResumedFirst, PauseHasOwner,
       MayHoldExportingPaused
  <2>3. CASE Environment
    BY <2>1, <2>3, EnvironmentStep
  <2>4. ASSUME NEW b \in Backups, Pass(b) PROVE ProtocolInv'
    BY <2>4, PassStep
  <2>5. ASSUME NEW b \in Backups, Moves(b) PROVE ProtocolInv'
    BY <2>5, MovesStep
  <2> QED
    BY <2>1, <2>2, <2>3, <2>4, <2>5, NextCases
<1> QED
  BY <1>1, InitInv, PTL DEF Spec

(* Type correctness of the backups, for every bound.                       *)
THEOREM BackupTypeCorrect == Spec => []TypeOK
BY BackupInvariant, PTL

(* A backup that works on the cluster, or left it paused, has the claim,   *)
(* however many siblings wait for it.                                      *)
THEOREM BackupClaimCoversUse == Spec => []ClaimCoversUse
<1>1. ProtocolInv => ClaimCoversUse
  BY DEF ProtocolInv
<1> QED
  BY <1>1, BackupInvariant, PTL

(* Exporting is never left paused without a resource that resumes it, nor  *)
(* does any finalizer go away before it resumed.                           *)
THEOREM PauseIsOwned == Spec => []PauseHasOwner
<1>1. ProtocolInv => PauseHasOwner
  BY DEF ProtocolInv
<1> QED
  BY <1>1, BackupInvariant, PTL

(* The backups of a cluster implement ExclusiveUse: one begins only while  *)
(* none runs and none left the cluster paused.                             *)
THEOREM BackupsImplementExclusiveUse == Spec => ImplementsExclusiveUse
<1> DEFINE Using(b) == status[b].phase \in {"running", "ResumeFailed"}
           users == {b \in Backups : Using(b)}
<1>1. Init => Use!Init
  BY DEF Init, NoStatus, Use!Init
<1>2. TypeOK /\ ProtocolInv /\ (TypeOK /\ ProtocolInv)' /\ [Next]_vars => [Use!Next]_users
  <2> SUFFICES ASSUME TypeOK, ProtocolInv, ProtocolInv', [Next]_vars, users' # users
               PROVE  \E b \in Backups : Use!Begin(b) \/ Use!End(b)
    BY DEF Use!Next
  <2>0. NoHolder \notin Backups
    BY BackupConstants
  <2>1. \A b \in users : users = {b}
    BY DEF ProtocolInv, ClaimCoversUse
  <2>2. \A b \in users' : users' = {b}
    BY DEF ProtocolInv, ClaimCoversUse
  <2>3. PICK b \in Backups : \A d \in Backups \ {b} : status'[d] = status[d]
    <3>1. ASSUME NEW b \in Backups, Pass(b) PROVE \A d \in Backups \ {b} : status'[d] = status[d]
      BY <3>1, PassKeepsFrame DEF ProtocolInv, PassFrame, EditsOnly
    <3>2. ASSUME NEW b \in Backups, Moves(b) PROVE \A d \in Backups \ {b} : status'[d] = status[d]
      BY <3>2 DEF Moves, Submit, ClaimCluster, Start, LeaveAdmission, FailClusterLost,
         PauseExporting, ResumeExporting, ResumeWriteLost, ResumeAttemptFailed, ReleaseClaim,
         Delete, FinalizeClusterLost, FinalizeResume, RemoveFinalizer, ReleaseAfterRemoval,
         Crash, Flush, TypeOK
    <3>3. ~UNCHANGED status
      OBVIOUS
    <3>4. ~Environment
      BY <3>3, HindranceOnly DEF Environment, Rollout, Suspend, Unsuspend, ClusterDeleted, ClusterRecreated,
         Progress, ForeignArtifact
    <3> QED
      BY <3>1, <3>2, <3>3, <3>4, NextCases DEF vars
  <2>4. \A d \in Backups \ {b} : d \in users' <=> d \in users
    BY <2>3
  <2>5. CASE b \in users
    BY <2>1, <2>2, <2>4, <2>5 DEF Use!End
  <2>6. CASE b \notin users
    BY <2>1, <2>2, <2>4, <2>6 DEF Use!Begin
  <2> QED
    BY <2>5, <2>6
<1> QED
  BY <1>1, <1>2, BackupInvariant, PTL DEF Spec, ImplementsExclusiveUse, Use!Spec

-----------------------------------------------------------------------------
(* Exporting stays paused while parts are taken                            *)

(* The cluster that b pinned exists, and nobody asked for the end of b.    *)
Undisturbed(b) ==
  ~deleting[b] /\ status[b].uid = cluster.uid /\ cluster.state # "gone"

(* A pass that waits for its judgement is of a running backup.             *)
JudgedRuns == \A b \in Backups : pc[b] = "check" => status[b].phase = "running"

(* The request to pause has no other answers.                              *)
PauseAnswers ==
  \A b \in Backups :
    pc[b] = "check" /\ status[b].step = "PauseExporting"
      => answer[b] \in {"ok", "unreachable", "rejected"}

(* A pause that was answered and not judged yet is still in effect.        *)
PauseTookEffect ==
  \A b \in Backups :
    pc[b] = "check" /\ answer[b] = "ok" /\ Undisturbed(b) => cluster.paused

TakenInv == JudgedRuns /\ PauseAnswers /\ PauseTookEffect /\ PausedWhileTaken

(* Only the judgement of an answered pause leads to the first part.        *)
LEMMA FirstPart ==
  ASSUME TypeOK, CallsOfStep, PauseAnswers, NEW b \in Backups, Pass(b),
         status[b].step \notin Parts, status'[b].step \in Parts
  PROVE  pc[b] = "check" /\ answer[b] = "ok"
<1>s. status \in [Backups -> Statuses] /\ status[b] \in Statuses
  BY DEF TypeOK
<1>f. \A s \in Statuses : FailStep(s).step = "ResumeExporting" /\ ClearClock(s).step = s.step
  BY DEF FailStep, ClearClock, Statuses
<1>w. WithNames(b) \in Statuses /\ WithNames(b).step = status[b].step
  BY <1>s DEF WithNames, Statuses
<1>n. "ResumeExporting" \notin Parts
  BY DEF Parts
<1>l. \A s : Flush(b, s) => status'[b] \in {s, status[b]}
  BY <1>s DEF Flush
<1>c. \A s : Conclude(b, s) => status'[b] \in {s, status[b]} /\ pc[b] = "check"
  BY <1>l DEF Conclude
<1>t. ClearClock(status[b]) \in Statuses /\ ClearClock(WithNames(b)) \in Statuses
  BY <1>s, <1>w, Edits DEF Edit
<1>1. CASE BrokenDependency(b)
  BY <1>1, <1>l, <1>f, <1>s, <1>n DEF BrokenDependency
<1>2. CASE Judgement(b)
  <2>1. CASE PauseAnswered(b)
    BY <2>1 DEF PauseAnswered, Conclude
  <2>2. CASE PartCompleted(b)
    BY <2>2, <1>c DEF PartCompleted, CallsOfStep, PauseAnswers
  <2>3. CASE EndpointUnreachable(b)
    <3>1. \A t \in StageUnreachable(status[b]) : t.step \in {status[b].step, "ResumeExporting"}
      BY <1>s, <1>f DEF StageUnreachable, Statuses
    <3> QED
      BY <2>3, <3>1, <1>c, <1>n DEF EndpointUnreachable
  <2>4. CASE RecordIntent(b)
    BY <2>4, <1>s DEF RecordIntent, Managed, Parts
  <2>5. CASE WorkloadChanged(b) \/ PartFailed(b) \/ RegistrationFailed(b)
    BY <2>5, <1>c, <1>f, <1>w, <1>s, <1>t, <1>n DEF WorkloadChanged, PartFailed, RegistrationFailed
  <2>6. CASE PartInProgress(b) \/ AwaitRegistration(b)
    BY <2>6, <1>c, <1>f, <1>w, <1>s DEF PartInProgress, AwaitRegistration
  <2>7. CASE GoOnToRequest(b)
    BY <2>7 DEF GoOnToRequest
  <2> QED
    BY <1>2, <2>1, <2>2, <2>3, <2>4, <2>5, <2>6, <2>7 DEF Judgement
<1>3. CASE Request(b)
  BY <1>3 DEF Request, RequestAccepted, SnapshotCreated, RequestWriteLost, RequestUnreachable,
     RequestRejected, Requesting, CallsOfStep
<1>4. CASE FinalizeHistory(b)
  BY <1>4, <1>s DEF FinalizeHistory, Statuses
<1>5. CASE UNCHANGED status
  BY <1>5
<1> QED
  BY <1>1, <1>2, <1>3, <1>4, <1>5 DEF Pass, QueryPart, FinalizeUnstarted, FinalizeUnreachable,
     FinalizeContractGone, FinalizeRecords, FinalizeRuntime, FinalizeHolds

(* A pass takes up a part only after a pause that took effect.             *)
LEMMA TakenPass ==
  ASSUME TypeOK, ProtocolInv, TakenInv, NEW b \in Backups, Pass(b)
  PROVE  TakenInv'
<1>0. PassFrame(b)
  BY PassKeepsFrame DEF ProtocolInv
<1>1. /\ OthersSame(b) /\ UNCHANGED cluster
      /\ status'[b].phase = status[b].phase /\ status'[b].uid = status[b].uid
  BY <1>0 DEF PassFrame, EditsOnly, Edit, OthersSame
<1>2. UNCHANGED deleting
  BY DEF Pass, BrokenDependency, QueryPart, Judgement, Request, FinalizeUnstarted,
     FinalizeUnreachable, FinalizeContractGone, FinalizeHistory, FinalizeRecords,
     FinalizeRuntime, FinalizeHolds, Conclude, WorkloadChanged, EndpointUnreachable,
     PauseAnswered, PartFailed, PartInProgress, PartCompleted, RecordIntent,
     AwaitRegistration, RegistrationFailed, GoOnToRequest, RequestAccepted, SnapshotCreated,
     RequestWriteLost, RequestUnreachable, RequestRejected
<1>3. CASE QueryPart(b)
  <2>1. /\ UNCHANGED status /\ status[b].phase = "running" /\ status[b].step \in Parts
        /\ \A d \in Backups \ {b} : answer'[d] = answer[d]
    BY <1>3 DEF QueryPart, PassBegins, Answered, TypeOK
  <2>2. artifact[b][status[b].step] \in Artifacts
    BY <2>1 DEF TypeOK
  <2>3. Reported(status[b].step, artifact[b][status[b].step]) # "ok"
    BY <2>2 DEF Reported, Artifacts
  <2>4. answer'[b] # "ok"
    BY <1>3, <2>3 DEF QueryPart, Answered, TypeOK
  <2> QED
    BY <1>1, <1>2, <2>1, <2>4 DEF OthersSame, TakenInv, JudgedRuns, PauseAnswers, Parts,
       PauseTookEffect, PausedWhileTaken, Undisturbed
<1>4. CASE ~QueryPart(b)
  <2>1. /\ pc'[b] # "check"
        /\ \A d \in Backups \ {b} : answer'[d] = answer[d]
    <3>1. CASE BrokenDependency(b)
      BY <3>1 DEF BrokenDependency, PassBegins
    <3>2. CASE ~BrokenDependency(b)
      <4>1. \E q \in {"idle", "request", "history", "records", "runtime", "remove"} : Goto(b, q)
        BY <1>4, <3>2 DEF Pass, Judgement, Request, FinalizeUnstarted,
           FinalizeUnreachable, FinalizeContractGone, FinalizeHistory, FinalizeRecords,
           FinalizeRuntime, FinalizeHolds, Conclude, WorkloadChanged, EndpointUnreachable,
           PauseAnswered, PartFailed, PartInProgress, PartCompleted, RecordIntent,
           AwaitRegistration, RegistrationFailed, GoOnToRequest, RequestAccepted,
           SnapshotCreated, RequestWriteLost, RequestUnreachable, RequestRejected,
           Requesting, EndCleanup
      <4> QED
        BY <4>1 DEF Goto, TypeOK
    <3> QED
      BY <3>1, <3>2
  <2>2. status'[b].phase = "running" /\ status'[b].step \in Parts /\ Undisturbed(b) => cluster.paused
    BY <1>1, FirstPart DEF ProtocolInv, TakenInv, PauseTookEffect, PausedWhileTaken, Undisturbed
  <2>3. JudgedRuns' /\ PauseAnswers' /\ PauseTookEffect'
    BY <1>1, <1>2, <2>1 DEF OthersSame, TakenInv, JudgedRuns, PauseAnswers, PauseTookEffect, Undisturbed
  <2>4. PausedWhileTaken'
    BY <1>1, <1>2, <2>2 DEF OthersSame, TakenInv, PausedWhileTaken, Undisturbed
  <2> QED
    BY <2>3, <2>4 DEF TakenInv
<1> QED
  BY <1>3, <1>4

(* A step that takes up no part, and judges no answer that was not there.  *)
Calm ==
  \A d \in Backups :
    /\ deleting[d] => deleting'[d]
    /\ pc'[d] = "check" => pc[d] = "check" /\ answer'[d] = answer[d] /\ status'[d] = status[d]
    /\ status'[d].phase = "running" /\ status'[d].step \in Parts => status'[d] = status[d]

Taking(d) == status[d].phase = "running" /\ (status[d].step \in Parts \/ pc[d] = "check")

(* A calm step preserves TakenInv when it keeps the pause of whoever takes *)
(* its parts.                                                              *)
LEMMA CalmKeepsTaken ==
  ASSUME TakenInv, Calm,
         \A d \in Backups : Taking(d) /\ status'[d] = status[d] /\ Undisturbed(d)'
           => Undisturbed(d) /\ (cluster.paused => cluster'.paused)
  PROVE  TakenInv'
<1>1. JudgedRuns' /\ PauseAnswers'
  BY DEF Calm, TakenInv, JudgedRuns, PauseAnswers
<1>2. PauseTookEffect'
  BY DEF Calm, Taking, TakenInv, JudgedRuns, PauseTookEffect
<1>3. PausedWhileTaken'
  BY DEF Calm, Taking, TakenInv, PausedWhileTaken, Undisturbed
<1> QED
  BY <1>1, <1>2, <1>3 DEF TakenInv

(* Only the holder resumes, so the moves preserve TakenInv.                *)
LEMMA TakenMoves ==
  ASSUME TypeOK, ProtocolInv, TakenInv, NEW b \in Backups, Moves(b)
  PROVE  TakenInv'
<1>t. /\ status \in [Backups -> Statuses] /\ pc \in [Backups -> Points]
      /\ answer \in [Backups -> Answers] /\ deleting \in [Backups -> BOOLEAN]
  BY DEF TypeOK
<1>s. \A d \in Backups : status[d] \in Statuses
  BY <1>t
<1>n. "PauseExporting" \notin Parts /\ "ResumeExporting" \notin Parts /\ "None" \notin Parts
  BY DEF Parts
<1>j. \A d \in Backups : pc[d] = "check" => status[d].phase = "running"
  BY DEF TakenInv, JudgedRuns
<1>o. \A d \in Backups : status[d].phase = "running" => holder = d
  BY DEF ProtocolInv, ClaimCoversUse
<1>k. Calm /\ UNCHANGED cluster => TakenInv'
  BY CalmKeepsTaken DEF Undisturbed, Calm
<1>0. CASE Submit(b)
  <2>1. pc[b] # "check" /\ status'[b].phase = "pending"
        /\ \A d \in Backups \ {b} : status'[d] = status[d]
    BY <1>0, <1>j, <1>t, <1>s DEF Submit, Statuses
  <2> QED
    BY <1>0, <2>1, <1>k DEF Submit, Calm
<1>1. CASE RemoveFinalizer(b)
  <2>1. status'[b].phase = "gone" /\ \A d \in Backups \ {b} : status'[d] = status[d]
    BY <1>1, <1>t DEF RemoveFinalizer, NoStatus
  <2>2. pc'[b] = "release" /\ \A d \in Backups \ {b} : pc'[d] = pc[d] /\ answer'[d] = answer[d]
    BY <1>1, <1>t DEF RemoveFinalizer, Goto
  <2>3. Calm
    BY <1>1, <2>1, <2>2 DEF RemoveFinalizer, Calm
  <2> QED
    BY <1>1, <2>3, <1>k DEF RemoveFinalizer
<1>2. CASE ClaimCluster(b) \/ LeaveAdmission(b) \/ FinalizeClusterLost(b) \/ ReleaseAfterRemoval(b) \/ Crash(b)
  BY <1>2, <1>k, <1>t DEF ClaimCluster, LeaveAdmission, FinalizeClusterLost, EndCleanup,
     ReleaseAfterRemoval, Crash, Goto, Calm
<1>3. CASE Start(b)
  BY <1>3, <1>k, <1>n, <1>t, <1>s DEF Start, Flush, Goto, Calm, Statuses
<1>4. CASE FailClusterLost(b)
  BY <1>4, <1>k, <1>t, <1>s DEF FailClusterLost, PassBegins, Flush, Calm, Statuses
<1>5. CASE ReleaseClaim(b) \/ Delete(b)
  BY <1>5, <1>k, <1>t DEF ReleaseClaim, Delete, Calm
<1>6. CASE PauseExporting(b)
  <2>1. /\ UNCHANGED <<status, deleting>> /\ status[b].step = "PauseExporting"
        /\ status[b].phase = "running"
        /\ \E paused \in {TRUE, cluster.paused} : cluster' = [cluster EXCEPT !.paused = paused]
        /\ \/ cluster'.paused /\ Answered(b, "ok")
           \/ Answered(b, "unreachable")
           \/ Answered(b, "rejected")
    BY <1>6 DEF PauseExporting, PassBegins
  <2>2. /\ cluster'.uid = cluster.uid /\ cluster'.state = cluster.state
        /\ cluster.paused => cluster'.paused
    BY <2>1 DEF TypeOK, Clusters
  <2>3. /\ \A d \in Backups \ {b} : pc'[d] = pc[d] /\ answer'[d] = answer[d]
        /\ pc'[b] = "check" /\ answer'[b] \in {"ok", "unreachable", "rejected"}
        /\ answer'[b] = "ok" => cluster'.paused
    BY <2>1, <1>t DEF Answered
  <2> QED
    BY <2>1, <2>2, <2>3, <1>n DEF TakenInv, JudgedRuns, PauseAnswers, PauseTookEffect,
       PausedWhileTaken, Undisturbed
<1>7. CASE ResumeExporting(b) \/ ResumeWriteLost(b) \/ ResumeAttemptFailed(b)
  <2>1. /\ status[b].phase = "running" /\ status[b].step = "ResumeExporting" /\ pc[b] = "idle"
        /\ UNCHANGED <<deleting, pc, answer>>
    BY <1>7 DEF ResumeExporting, ResumeWriteLost, ResumeAttemptFailed, PassBegins
  <2>f. \A t : Flush(b, t) /\ t.step = "ResumeExporting" =>
          status'[b].step = "ResumeExporting" /\ \A d \in Backups \ {b} : status'[d] = status[d]
    BY <2>1, <1>t DEF Flush
  <2>2. status'[b].step = "ResumeExporting" /\ \A d \in Backups \ {b} : status'[d] = status[d]
    <3>1. \A ph : /\ [status[b] EXCEPT !.phase = ph].step = "ResumeExporting"
                  /\ [status[b] EXCEPT !.phase = ph, !.failed = TRUE].step = "ResumeExporting"
      BY <2>1, <1>s DEF Statuses
    <3>2. [status[b] EXCEPT !.attempts = @ + 1].step = "ResumeExporting"
      BY <2>1, <1>s DEF Statuses
    <3>3. CASE ResumeExporting(b)
      BY <3>3, <3>1, <2>f DEF ResumeExporting
    <3>4. CASE ResumeWriteLost(b)
      BY <3>4, <2>1 DEF ResumeWriteLost
    <3>5. CASE ResumeAttemptFailed(b)
      BY <3>5, <3>1, <3>2, <2>f DEF ResumeAttemptFailed
    <3> QED
      BY <1>7, <3>3, <3>4, <3>5
  <2>3. Calm
    BY <2>1, <2>2, <1>n DEF Calm
  <2>4. \A d \in Backups : ~Taking(d)
    BY <2>1, <1>n, <1>o DEF Taking
  <2> QED
    BY <2>3, <2>4, CalmKeepsTaken
<1>8. CASE FinalizeResume(b)
  <2>1. /\ pc[b] = "idle" /\ deleting[b] /\ UNCHANGED <<status, deleting>>
        /\ Goto(b, "history") \/ UNCHANGED <<pc, answer>>
    BY <1>8 DEF FinalizeResume, FinalizerBegins
  <2>2. Calm
    BY <2>1, <1>t DEF Calm, Goto
  <2>3. CASE UNCHANGED cluster
    BY <2>2, <2>3, <1>k
  <2>4. CASE MayHoldExportingPaused(b)
    <3>1. \A d \in Backups : Taking(d) /\ Undisturbed(d)' => FALSE
      BY <2>1, <2>4, <1>o, OwnerFacts DEF Taking, Undisturbed
    <3> QED
      BY <2>2, <3>1, CalmKeepsTaken
  <2> QED
    BY <1>8, <2>3, <2>4 DEF FinalizeResume
<1> QED
  BY <1>0, <1>1, <1>2, <1>3, <1>4, <1>5, <1>6, <1>7, <1>8 DEF Moves

(* What ends a pause from outside also ends the cluster it belonged to.    *)
LEMMA TakenEnvironment ==
  ASSUME TypeOK, ProtocolInv, TakenInv, Environment
  PROVE  TakenInv'
<1>1. UNCHANGED <<status, deleting, pc, answer>>
  BY HindranceOnly DEF Environment, Rollout, Suspend, Unsuspend, ClusterDeleted, ClusterRecreated, Progress, ForeignArtifact
<1>2. Calm
  BY <1>1 DEF Calm
<1>3. cluster \in Clusters /\ cluster.uid \in Nat
      /\ \A d \in Backups : status[d].uid \in Nat /\ status[d].uid <= cluster.uid
  <2>1. cluster \in Clusters /\ \A d \in Backups : status[d] \in Statuses
    BY DEF TypeOK
  <2> QED
    BY <2>1 DEF Clusters, Statuses, ProtocolInv, PinnedExisted
<1>4. ASSUME NEW d \in Backups, Undisturbed(d)'
      PROVE  Undisturbed(d) /\ cluster'.paused = cluster.paused
  <2>1. CASE UNCHANGED cluster
    BY <1>1, <1>4, <2>1 DEF Undisturbed
  <2>2. CASE Rollout \/ Suspend \/ Unsuspend
    <3>1. /\ cluster'.uid = cluster.uid /\ cluster'.paused = cluster.paused
          /\ cluster.state # "gone"
      BY <2>2, <1>3 DEF Rollout, Suspend, Unsuspend, Clusters
    <3> QED
      BY <1>1, <1>4, <3>1 DEF Undisturbed
  <2>3. CASE ClusterDeleted
    <3>1. cluster'.state = "gone"
      BY <2>3, <1>3 DEF ClusterDeleted, Clusters
    <3> QED
      BY <1>4, <3>1 DEF Undisturbed
  <2>4. CASE ClusterRecreated
    <3>1. cluster'.uid = cluster.uid + 1
      BY <2>4, <1>3 DEF ClusterRecreated, Clusters
    <3> QED
      BY <1>1, <1>3, <1>4, <3>1 DEF Undisturbed
  <2>5. CASE Hindrance
    BY <1>1, <1>4, <2>5, HindranceOnly DEF Undisturbed
  <2> QED
    BY <2>1, <2>2, <2>3, <2>4, <2>5 DEF Environment, Progress, ForeignArtifact
<1> QED
  BY <1>2, <1>4, CalmKeepsTaken

(* Exporting stays paused while a backup takes its parts, whatever its     *)
(* siblings, their finalizers and the cluster do in between.               *)
THEOREM PausedWhileTakenHolds == Spec => []PausedWhileTaken
<1>1. Init => TakenInv
  BY DEF Init, NoStatus, TakenInv, JudgedRuns, PauseAnswers, PauseTookEffect, PausedWhileTaken
<1>2. TypeOK /\ ProtocolInv /\ TakenInv /\ [Next]_vars => TakenInv'
  <2> SUFFICES ASSUME TypeOK, ProtocolInv, TakenInv, [Next]_vars PROVE TakenInv'
    OBVIOUS
  <2>1. CASE UNCHANGED vars
    BY <2>1 DEF vars, TakenInv, JudgedRuns, PauseAnswers, PauseTookEffect, PausedWhileTaken, Undisturbed
  <2>2. CASE Environment
    BY <2>2, TakenEnvironment
  <2>3. ASSUME NEW b \in Backups, Pass(b) PROVE TakenInv'
    BY <2>3, TakenPass
  <2>4. ASSUME NEW b \in Backups, Moves(b) PROVE TakenInv'
    BY <2>4, TakenMoves
  <2> QED
    BY <2>1, <2>2, <2>3, <2>4, NextCases
<1>3. TakenInv => PausedWhileTaken
  BY DEF TakenInv
<1> QED
  BY <1>1, <1>2, <1>3, BackupInvariant, PTL DEF Spec

-----------------------------------------------------------------------------
(* The evidence of the parts, from the request to the set and its removal. *)

(* The parts that are complete when a procedure has come to a step.        *)
PartsBefore(step) ==
  CASE step = "SnapshotRecords" -> {"BackupHistory"}
    [] step = "BackupRuntime"   -> {"BackupHistory", "SnapshotRecords"}
    [] step = "ResumeExporting" -> Parts
    [] OTHER                    -> {}

(* Part p is the backup's own, and completed under the pinned workload.    *)
Whole(b, p) ==
  artifact[b][p] = [by |-> "self", state |-> "completed", config |-> status[b].config]

(* Nothing of the backup is left of part p, and nothing will come.         *)
Cleared(b, p) == artifact[b][p].by = "self" => artifact[b][p].state = "lost"

(* What a finalizer clears before it removes itself.                       *)
Claimed(b) == status[b].accepted \cup {"SnapshotRecords"}

(* A backup has an ID from its start to its removal, and nothing before.   *)
IdFromStart(b) ==
  /\ status[b].phase \in {"absent", "pending"} =>
       /\ status[b].step = "None" /\ status[b].accepted = {}
       /\ \A p \in Parts : artifact[b][p] = None
  /\ status[b].phase \in {"running", "Completed", "Failed", "ResumeFailed"} =>
       status[b].step # "None"
  /\ status[b].phase = "gone" => status[b].step = "None"

(* Only a deletion runs the finalizer.                                     *)
CleanupIsDeletion(b) == pc[b] \in CleanupPoints => deleting[b] /\ Exists(b)

(* The procedure completes from its last step, without a failure.          *)
CompletedAtEnd(b) ==
  status[b].phase = "Completed" => ~status[b].failed /\ status[b].step = "ResumeExporting"

(* What the cluster accepted here nobody else owns.                        *)
AcceptedIsOwn(b) ==
  ~deleting[b] => \A p \in status[b].accepted : artifact[b][p].by = "self"

(* What the backup has under its ID is there, or was lost.                 *)
OwnIsThere(b) ==
  \A p \in Parts : artifact[b][p].by = "self" => artifact[b][p].state # "none"

(* An answer that a part is complete stays true until it is judged.        *)
AnswerIsTrue(b) ==
  pc[b] = "check" /\ answer[b] = "completed" =>
    /\ status[b].step \in Parts
    /\ artifact[b][status[b].step].state = "completed"
    /\ status[b].step = "SnapshotRecords" => artifact[b]["SnapshotRecords"].by = "self"

(* The workload moves on to newer configurations only.                     *)
ConfigsGrow(b) ==
  /\ status[b].config <= cluster.config
  /\ \A p \in Parts : artifact[b][p].state = "completed" =>
       status[b].config <= artifact[b][p].config /\ artifact[b][p].config <= cluster.config

(* A procedure that did not fail has all parts of the steps behind it.     *)
PartsTaken(b) ==
  status[b].phase \in {"running", "Completed"} /\ ~status[b].failed /\ ~deleting[b] =>
    \A p \in PartsBefore(status[b].step) : Whole(b, p)

(* The finalizer clears part after part, and nothing comes back.           *)
PartsCleared(b) ==
  /\ pc[b] \in {"records", "runtime"} /\ "BackupHistory" \in status[b].accepted =>
       Cleared(b, "BackupHistory")
  /\ pc[b] = "runtime" => Cleared(b, "SnapshotRecords")
  /\ (pc[b] = "remove" \/ status[b].phase = "gone") /\ cleanup[b] = "clean" =>
       \A p \in Claimed(b) : Cleared(b, p)

Evidence(b) ==
  /\ IdFromStart(b) /\ CleanupIsDeletion(b) /\ CompletedAtEnd(b) /\ AcceptedIsOwn(b)
  /\ OwnIsThere(b) /\ AnswerIsTrue(b) /\ ConfigsGrow(b) /\ PartsTaken(b) /\ PartsCleared(b)

EvidenceInv == \A b \in Backups : Evidence(b)

(* The evidence of a backup survives every step that leaves the backup     *)
(* alone, while the workload moves on.                                     *)
LEMMA EvidenceFrame ==
  ASSUME TypeOK, TypeOK', NEW d \in Backups, Evidence(d),
         status'[d] = status[d], deleting'[d] = deleting[d], pc'[d] = pc[d],
         answer'[d] = answer[d], artifact'[d] = artifact[d], cleanup'[d] = cleanup[d],
         cluster.config <= cluster'.config
  PROVE  Evidence(d)'
<1>1. /\ IdFromStart(d)' /\ CleanupIsDeletion(d)' /\ CompletedAtEnd(d)' /\ AcceptedIsOwn(d)'
      /\ OwnIsThere(d)' /\ AnswerIsTrue(d)'
  BY DEF Evidence, IdFromStart, CleanupIsDeletion, CompletedAtEnd, AcceptedIsOwn, OwnIsThere,
     AnswerIsTrue, Exists
<1>2. ConfigsGrow(d)'
  <2>1. /\ status[d].config \in Nat /\ cluster.config \in Nat /\ cluster'.config \in Nat
        /\ \A p \in Parts : artifact[d][p].config \in Nat
    BY DEF TypeOK, Statuses, Clusters, Artifacts
  <2> QED
    BY <2>1 DEF Evidence, ConfigsGrow
<1>3. PartsTaken(d)'
  BY DEF Evidence, PartsTaken, Whole
<1>4. PartsCleared(d)'
  BY DEF Evidence, PartsCleared, Cleared, Claimed
<1> QED
  BY <1>1, <1>2, <1>3, <1>4 DEF Evidence

(* What a pass past its call writes: it keeps the phase and the pinned     *)
(* workload, accepts only what it created, and fails the procedure or goes *)
(* to a step whose parts are all taken.                                    *)
Progressed(b, t) ==
  /\ t.phase = status[b].phase /\ t.config = status[b].config /\ t.step # "None"
  /\ \A p \in t.accepted : p \in status[b].accepted \/ artifact'[b][p].by = "self"
  /\ \/ t.failed
     \/ /\ t.failed = status[b].failed
        /\ status[b].phase = "running" /\ ~status[b].failed /\ ~deleting[b] =>
             \A p \in PartsBefore(t.step) : Whole(b, p)

(* Its request leaves an artifact under the step, where nothing was.       *)
Creates(b) ==
  \E x : /\ artifact[b][status[b].step] = None
         /\ artifact'[b] = [artifact[b] EXCEPT ![status[b].step] = x]
         /\ x.by = "self" /\ x.state \in {"accepted", "running"}

(* What passes with a call write keeps the evidence.                       *)
LEMMA ProcedureKeeps ==
  ASSUME TypeOK, TypeOK', CallsOfStep, NEW b \in Backups, Evidence(b),
         pc[b] \in {"check", "request"}, pc'[b] \in {"idle", "request"},
         deleting'[b] = deleting[b], cleanup'[b] = cleanup[b], cluster' = cluster,
         status'[b] = status[b] \/ Progressed(b, status'[b]),
         status'[b] = status[b] \/ ~deleting[b] \/ status'[b].step = status[b].step,
         artifact'[b] = artifact[b] \/ (pc[b] = "request" /\ Creates(b))
  PROVE  Evidence(b)'
<1>1. /\ status[b].step \in Parts \cup {"PauseExporting"}
      /\ pc[b] = "request" => status[b].step \in Parts
      /\ status[b].phase \notin {"absent", "pending", "gone", "Completed"}
      /\ status'[b].phase = status[b].phase /\ status'[b].config = status[b].config
      /\ status'[b].step # "None"
  <2>1. status[b].step \in Parts \cup {"PauseExporting"} /\ (pc[b] = "request" => status[b].step \in Parts)
    BY DEF CallsOfStep
  <2>2. status[b].step \notin {"None", "ResumeExporting"}
    BY <2>1 DEF Parts
  <2> QED
    BY <2>1, <2>2 DEF Evidence, IdFromStart, CompletedAtEnd, Progressed
<1>2. /\ artifact[b] \in [Parts -> Artifacts] /\ artifact'[b] \in [Parts -> Artifacts]
      /\ \A p \in Parts : artifact'[b][p] = artifact[b][p] \/
           /\ artifact[b][p] = None /\ p = status[b].step
           /\ artifact'[b][p].by = "self" /\ artifact'[b][p].state \in {"accepted", "running"}
  BY <1>1 DEF TypeOK, Creates
<1>3. IdFromStart(b)' /\ CleanupIsDeletion(b)' /\ CompletedAtEnd(b)' /\ AnswerIsTrue(b)'
  BY <1>1 DEF Evidence, IdFromStart, CleanupIsDeletion, CompletedAtEnd, AnswerIsTrue, CleanupPoints
<1>4. AcceptedIsOwn(b)'
  <2>1. status[b].accepted \subseteq Parts
    BY DEF TypeOK, Statuses, Managed, Parts
  <2> QED
    BY <1>2, <2>1 DEF Evidence, AcceptedIsOwn, Progressed
<1>5. OwnIsThere(b)'
  BY <1>2 DEF Evidence, OwnIsThere
<1>6. ConfigsGrow(b)'
  BY <1>1, <1>2 DEF Evidence, ConfigsGrow
<1>7. PartsTaken(b)'
  <2> SUFFICES ASSUME status[b].phase = "running", ~status'[b].failed, ~deleting[b],
                      NEW p \in PartsBefore(status'[b].step)
               PROVE  Whole(b, p)'
    BY <1>1 DEF PartsTaken
  <2>1. Whole(b, p)
    BY DEF Evidence, PartsTaken, Progressed
  <2>2. p \in Parts
    BY DEF PartsBefore, Parts
  <2>3. artifact'[b][p] = artifact[b][p]
    BY <1>2, <2>1, <2>2 DEF Whole, None
  <2> QED
    BY <1>1, <2>1, <2>3 DEF Whole
<1>8. PartsCleared(b)'
  BY <1>1 DEF PartsCleared
<1> QED
  BY <1>3, <1>4, <1>5, <1>6, <1>7, <1>8 DEF Evidence

(* The helpers that build a status keep what the evidence is about.        *)
SameEvidence(s, t) == t.phase = s.phase /\ t.config = s.config /\ t.accepted = s.accepted

(* A failure goes to the resume; a cleared clock changes no evidence; an   *)
(* unreachable endpoint does one of the two.                               *)
LEMMA HelpersKeepEvidence ==
  ASSUME NEW s \in Statuses
  PROVE  /\ SameEvidence(s, FailStep(s)) /\ FailStep(s).failed /\ FailStep(s).step = "ResumeExporting"
         /\ SameEvidence(s, ClearClock(s)) /\ ClearClock(s).failed = s.failed /\ ClearClock(s).step = s.step
         /\ \A t \in StageUnreachable(s) :
              SameEvidence(s, t) /\ (t.failed \/ (t.failed = s.failed /\ t.step = s.step)) /\ t.step \in {s.step, "ResumeExporting"}
<1>1. SameEvidence(s, FailStep(s)) /\ FailStep(s).failed /\ FailStep(s).step = "ResumeExporting"
  BY DEF SameEvidence, FailStep, Statuses
<1>2. SameEvidence(s, ClearClock(s)) /\ ClearClock(s).failed = s.failed /\ ClearClock(s).step = s.step
  BY DEF SameEvidence, ClearClock, Statuses
<1>3. ASSUME NEW t \in StageUnreachable(s)
      PROVE  SameEvidence(s, t) /\ (t.failed \/ (t.failed = s.failed /\ t.step = s.step)) /\ t.step \in {s.step, "ResumeExporting"}
  <2>1. CASE t = FailStep(s)
    BY <2>1, <1>1
  <2>2. CASE t = [s EXCEPT !.since = s.since + 1]
    BY <2>2 DEF SameEvidence, Statuses
  <2> QED
    BY <1>3, <2>1, <2>2 DEF StageUnreachable
<1> QED
  BY <1>1, <1>2, <1>3

(* A failure is progress.                                                  *)
LEMMA ProgressByFailure ==
  ASSUME NEW b \in Backups, NEW t, SameEvidence(status[b], t), t.failed, t.step = "ResumeExporting"
  PROVE  Progressed(b, t)
BY DEF SameEvidence, Progressed

(* So is a status of the same step.                                        *)
LEMMA ProgressInPlace ==
  ASSUME NEW b \in Backups, NEW t, Evidence(b), SameEvidence(status[b], t), t.failed = status[b].failed,
         t.step = status[b].step, status[b].step # "None"
  PROVE  Progressed(b, t)
BY DEF SameEvidence, Progressed, Evidence, PartsTaken

(* The names that an answer carries are no evidence of a part.             *)
LEMMA NamesKeepEvidence ==
  ASSUME NEW b \in Backups, status[b] \in Statuses
  PROVE  /\ WithNames(b) \in Statuses /\ SameEvidence(status[b], WithNames(b))
         /\ WithNames(b).failed = status[b].failed /\ WithNames(b).step = status[b].step
<1>1. CASE WithNames(b) = status[b]
  BY <1>1 DEF SameEvidence
<1>2. CASE WithNames(b) = [status[b] EXCEPT !.named = TRUE]
  BY <1>2 DEF SameEvidence, Statuses
<1> QED
  BY <1>1, <1>2 DEF WithNames

(* The judgement of an answer keeps the evidence.                          *)
LEMMA JudgementKeeps ==
  ASSUME TypeOK, TypeOK', CallsOfStep, NEW b \in Backups, Evidence(b), Judgement(b)
  PROVE  Evidence(b)'
<1>s. status[b] \in Statuses /\ status \in [Backups -> Statuses] /\ pc \in [Backups -> Points]
  BY DEF TypeOK
<1>p. pc[b] = "check" /\ UNCHANGED <<deleting, artifact, cleanup, cluster>>
  BY DEF Judgement, Conclude, WorkloadChanged, EndpointUnreachable, PauseAnswered,
     PartFailed, PartInProgress, PartCompleted, RecordIntent, AwaitRegistration,
     RegistrationFailed, GoOnToRequest
<1>q. status[b].step \in Parts \cup {"PauseExporting"} /\ status[b].step # "None"
  BY <1>p DEF CallsOfStep, Parts
<1>c. ASSUME NEW s, Conclude(b, s), ~deleting[b] => Progressed(b, s)
      PROVE  Evidence(b)'
  <2>1. pc'[b] = "idle"
    BY <1>c, <1>s DEF Conclude, Goto
  <2>2. status'[b] = status[b] \/ (~deleting[b] /\ status'[b] = s)
    BY <1>c, <1>s DEF Conclude, Flush
  <2>3. status'[b] = status[b] \/ Progressed(b, status'[b])
    BY <1>c, <2>2
  <2> QED
    BY <1>p, <2>1, <2>2, <2>3, ProcedureKeeps
<1>w. /\ WithNames(b) \in Statuses /\ SameEvidence(status[b], WithNames(b))
      /\ WithNames(b).failed = status[b].failed /\ WithNames(b).step = status[b].step
  BY <1>s, NamesKeepEvidence
<1>t. /\ Progressed(b, FailStep(WithNames(b)))
      /\ Progressed(b, ClearClock(status[b]))
      /\ Progressed(b, ClearClock(WithNames(b)))
      /\ Progressed(b, FailStep(ClearClock(status[b])))
  <2>1. SameEvidence(status[b], FailStep(WithNames(b))) /\ SameEvidence(status[b], ClearClock(WithNames(b)))
        /\ SameEvidence(status[b], ClearClock(status[b]))
    BY <1>s, <1>w, HelpersKeepEvidence DEF SameEvidence
  <2>2. ClearClock(status[b]) \in Statuses
    BY <1>s, BackupConstants DEF ClearClock, Statuses
  <2>3. SameEvidence(status[b], FailStep(ClearClock(status[b])))
    BY <2>1, <2>2, HelpersKeepEvidence DEF SameEvidence
  <2>4. Progressed(b, FailStep(WithNames(b)))
    BY <2>1, <1>w, HelpersKeepEvidence, ProgressByFailure
  <2>5. Progressed(b, FailStep(ClearClock(status[b])))
    BY <2>2, <2>3, HelpersKeepEvidence, ProgressByFailure
  <2>6. Progressed(b, ClearClock(status[b]))
    BY <2>1, <1>s, <1>q, HelpersKeepEvidence, ProgressInPlace
  <2>7. Progressed(b, ClearClock(WithNames(b)))
    BY <2>1, <1>w, <1>q, HelpersKeepEvidence, ProgressInPlace
  <2> QED
    BY <2>4, <2>5, <2>6, <2>7
<1>1. CASE WorkloadChanged(b)
  BY <1>1, <1>c, <1>t DEF WorkloadChanged
<1>2. CASE EndpointUnreachable(b)
  <2>1. PICK s \in StageUnreachable(status[b]) : Conclude(b, s)
    BY <1>2 DEF EndpointUnreachable
  <2>2. Progressed(b, s)
    BY <1>s, <1>q, HelpersKeepEvidence DEF Progressed, SameEvidence, Evidence, PartsTaken
  <2> QED
    BY <2>1, <2>2, <1>c
<1>3. CASE PauseAnswered(b)
  <2> DEFINE t == [ClearClock(status[b]) EXCEPT !.step = "BackupHistory"]
  <2>1. SameEvidence(status[b], t) /\ t.failed = status[b].failed /\ t.step = "BackupHistory"
    BY <1>s DEF SameEvidence, ClearClock, Statuses
  <2>2. Progressed(b, t)
    BY <2>1 DEF SameEvidence, Progressed, PartsBefore
  <2> QED
    BY <1>3, <2>2, <1>c DEF PauseAnswered
<1>4. CASE PartFailed(b)
  BY <1>4, <1>c, <1>t DEF PartFailed
<1>5. CASE PartInProgress(b)
  BY <1>5, <1>c, <1>t DEF PartInProgress
<1>6. CASE PartCompleted(b)
  <2> DEFINE p == status[b].step
             t == [ClearClock(WithNames(b)) EXCEPT !.step = NextStep[p]]
  <2>1. p \in Parts /\ artifact[b][p].state = "completed"
        /\ (p = "SnapshotRecords" => artifact[b]["SnapshotRecords"].by = "self")
    BY <1>6, <1>p DEF PartCompleted, Evidence, AnswerIsTrue
  <2>2. SameEvidence(status[b], t) /\ t.failed = status[b].failed /\ t.step = NextStep[p]
    <3>1. ClearClock(WithNames(b)) \in Statuses
      BY <1>w, BackupConstants DEF ClearClock, Statuses
    <3>2. SameEvidence(status[b], ClearClock(WithNames(b))) /\ ClearClock(WithNames(b)).failed = status[b].failed
      BY <1>w, HelpersKeepEvidence DEF SameEvidence
    <3> QED
      BY <3>1, <3>2 DEF SameEvidence, Statuses
  <2>3. ASSUME ~deleting[b] PROVE Progressed(b, t)
    <3>1. Whole(b, p)
      <4>1. artifact[b][p].by = "self"
        BY <1>6, <2>1, <2>3 DEF PartCompleted, Evidence, AcceptedIsOwn, Parts, Managed
      <4>2. artifact[b][p].config = status[b].config
        <5>1. artifact[b][p].config \in Nat /\ status[b].config \in Nat
          BY <2>1 DEF TypeOK, Statuses, Artifacts
        <5>2. status[b].config <= artifact[b][p].config /\ artifact[b][p].config <= cluster.config
              /\ cluster.config = status[b].config
          BY <1>6, <2>1 DEF PartCompleted, WorkloadUnchanged, Evidence, ConfigsGrow
        <5> QED
          BY <5>1, <5>2
      <4> QED
        BY <2>1, <4>1, <4>2 DEF Whole, TypeOK, Artifacts
    <3>2. PartsBefore(NextStep[p]) = PartsBefore(p) \cup {p} /\ NextStep[p] # "None"
      BY <2>1 DEF PartsBefore, NextStep, Parts
    <3>3. status[b].phase = "running" /\ ~status[b].failed => \A q \in PartsBefore(p) : Whole(b, q)
      BY <2>3 DEF Evidence, PartsTaken
    <3> QED
      BY <2>2, <3>1, <3>2, <3>3 DEF SameEvidence, Progressed
  <2> QED
    BY <1>6, <2>3, <1>c DEF PartCompleted
<1>7. CASE RecordIntent(b)
  <2> DEFINE t == [ClearClock(status[b]) EXCEPT !.requested = @ \cup {status[b].step}]
  <2>1. SameEvidence(status[b], t) /\ t.failed = status[b].failed /\ t.step = status[b].step
    BY <1>s DEF SameEvidence, ClearClock, Statuses
  <2>2. Progressed(b, t)
    BY <2>1, <1>q, ProgressInPlace
  <2> QED
    BY <1>7, <2>2, <1>c DEF RecordIntent
<1>8. CASE AwaitRegistration(b)
  BY <1>8, <1>c, <1>t DEF AwaitRegistration
<1>9. CASE RegistrationFailed(b)
  BY <1>9, <1>c, <1>t DEF RegistrationFailed
<1>10. CASE GoOnToRequest(b)
  <2>1. pc'[b] = "request" /\ status'[b] = status[b]
    BY <1>10, <1>s DEF GoOnToRequest, Goto
  <2> QED
    BY <2>1, <1>p, ProcedureKeeps
<1> QED
  BY <1>1, <1>2, <1>3, <1>4, <1>5, <1>6, <1>7, <1>8, <1>9, <1>10 DEF Judgement

(* A request keeps the evidence: what it creates is the backup's own.      *)
LEMMA RequestKeeps ==
  ASSUME TypeOK, TypeOK', CallsOfStep, NEW b \in Backups, Evidence(b), Request(b)
  PROVE  Evidence(b)'
<1>s. status[b] \in Statuses /\ status \in [Backups -> Statuses] /\ pc \in [Backups -> Points]
  BY DEF TypeOK
<1>p. Requesting(b) /\ UNCHANGED <<deleting, cleanup, cluster>>
  BY DEF Request, RequestAccepted, SnapshotCreated, RequestWriteLost, RequestUnreachable, RequestRejected
<1>q. pc[b] = "request" /\ pc'[b] = "idle" /\ status[b].step \in Parts /\ status[b].step # "None"
  BY <1>p, <1>s DEF Requesting, Goto, CallsOfStep, Parts
<1>c. ASSUME artifact[b][status[b].step] = None, Create(b)
      PROVE  Creates(b) /\ artifact'[b][status[b].step].by = "self"
  <2> DEFINE x == [by |-> "self", config |-> 0,
                   state |-> IF status[b].step \in Managed THEN "accepted" ELSE "running"]
  <2>1. x.by = "self" /\ x.state \in {"accepted", "running"}
    OBVIOUS
  <2>2. artifact' = [artifact EXCEPT ![b][status[b].step] = x]
    BY <1>c DEF Create
  <2> HIDE DEF x
  <2>3. artifact'[b] = [artifact[b] EXCEPT ![status[b].step] = x] /\ artifact'[b][status[b].step] = x
    BY <2>2, <1>q DEF TypeOK
  <2> QED
    BY <1>c, <2>1, <2>3 DEF Creates
<1>f. ASSUME NEW s, Flush(b, s), ~deleting[b] => Progressed(b, s),
             artifact'[b] = artifact[b] \/ Creates(b)
      PROVE  Evidence(b)'
  <2>1. status'[b] = status[b] \/ (~deleting[b] /\ status'[b] = s)
    BY <1>f, <1>s DEF Flush
  <2>2. status'[b] = status[b] \/ Progressed(b, status'[b])
    BY <1>f, <2>1
  <2> QED
    BY <1>f, <1>p, <1>q, <2>1, <2>2, ProcedureKeeps
<1>t. Progressed(b, FailStep(status[b])) /\ Progressed(b, ClearClock(status[b]))
  BY <1>s, <1>q, HelpersKeepEvidence, ProgressByFailure, ProgressInPlace
<1>1. CASE RequestAccepted(b)
  <2>1. PICK complete \in BOOLEAN :
          status' = [status EXCEPT
            ![b].accepted = @ \cup {status[b].step}, ![b].since = 0,
            ![b].named = @ \/ (complete /\ status[b].step = "BackupHistory")]
    BY <1>1 DEF RequestAccepted
  <2> DEFINE t == [status[b] EXCEPT
                    !.accepted = @ \cup {status[b].step}, !.since = 0,
                    !.named = @ \/ (complete /\ status[b].step = "BackupHistory")]
  <2>2. status'[b] = t
    BY <2>1, <1>s, Zenon
  <2>3. /\ t.phase = status[b].phase /\ t.config = status[b].config /\ t.failed = status[b].failed
        /\ t.step = status[b].step /\ t.accepted = status[b].accepted \cup {status[b].step}
    BY <1>s DEF Statuses
  <2>4. Creates(b) /\ artifact'[b][status[b].step].by = "self"
    BY <1>1, <1>c DEF RequestAccepted
  <2> HIDE DEF t
  <2>5. Progressed(b, t)
    BY <2>3, <2>4, <1>q DEF Progressed, Evidence, PartsTaken
  <2> QED
    BY <1>p, <1>q, <2>2, <2>3, <2>4, <2>5, ProcedureKeeps
<1>2. CASE SnapshotCreated(b)
  <2>1. Creates(b)
    BY <1>2, <1>c DEF SnapshotCreated
  <2> QED
    BY <1>2, <2>1, <1>t, <1>f DEF SnapshotCreated
<1>3. CASE RequestWriteLost(b)
  <2>1. Creates(b) /\ status' = status
    BY <1>3, <1>c DEF RequestWriteLost
  <2> QED
    BY <2>1, <1>p, <1>q, ProcedureKeeps
<1>4. CASE RequestUnreachable(b)
  <2>1. PICK s \in StageUnreachable(status[b]) : Flush(b, s)
    BY <1>4 DEF RequestUnreachable
  <2>2. Progressed(b, s)
    BY <1>s, <1>q, HelpersKeepEvidence DEF Progressed, SameEvidence, Evidence, PartsTaken
  <2>3. artifact'[b] = artifact[b] \/ Creates(b)
    BY <1>4, <1>c DEF RequestUnreachable
  <2> QED
    BY <2>1, <2>2, <2>3, <1>f
<1>5. CASE RequestRejected(b)
  BY <1>5, <1>t, <1>f DEF RequestRejected
<1> QED
  BY <1>1, <1>2, <1>3, <1>4, <1>5 DEF Request

(* A step that writes nothing about b keeps its evidence, when it brings   *)
(* no false answer and starts no cleanup.                                  *)
LEMMA QuietKeeps ==
  ASSUME TypeOK, TypeOK', NEW b \in Backups, Evidence(b),
         status'[b] = status[b], deleting'[b] = deleting[b], artifact'[b] = artifact[b],
         cleanup'[b] = cleanup[b], cluster'.config = cluster.config,
         pc'[b] \notin CleanupPoints, AnswerIsTrue(b)'
  PROVE  Evidence(b)'
<1>1. IdFromStart(b)' /\ CleanupIsDeletion(b)' /\ CompletedAtEnd(b)' /\ AcceptedIsOwn(b)' /\ OwnIsThere(b)'
  BY DEF Evidence, IdFromStart, CleanupIsDeletion, CompletedAtEnd, AcceptedIsOwn, OwnIsThere
<1>2. ConfigsGrow(b)' /\ PartsTaken(b)'
  BY DEF Evidence, ConfigsGrow, PartsTaken, Whole
<1>3. PartsCleared(b)'
  BY DEF Evidence, PartsCleared, Cleared, Claimed, CleanupPoints
<1> QED
  BY <1>1, <1>2, <1>3 DEF Evidence

(* A pass outside a call keeps the evidence when it fails the procedure,   *)
(* stays at its step, or completes it from the last one.                   *)
LEMMA OutcomeKeeps ==
  ASSUME TypeOK, TypeOK', NEW b \in Backups, Evidence(b),
         pc[b] = "idle", pc'[b] = "idle", status[b].phase = "running",
         deleting'[b] = deleting[b], artifact'[b] = artifact[b], cluster'.config = cluster.config,
         status'[b].config = status[b].config, status'[b].accepted = status[b].accepted,
         status'[b].phase \in {"running", "Completed", "Failed", "ResumeFailed"},
         status'[b].step # "None",
         status'[b].failed \/ (status'[b].failed = status[b].failed /\ status'[b].step = status[b].step),
         status'[b].phase = "Completed" => ~status'[b].failed /\ status'[b].step = "ResumeExporting"
  PROVE  Evidence(b)'
<1>1. IdFromStart(b)' /\ CleanupIsDeletion(b)' /\ CompletedAtEnd(b)' /\ AcceptedIsOwn(b)'
      /\ OwnIsThere(b)' /\ AnswerIsTrue(b)'
  BY DEF Evidence, IdFromStart, CleanupIsDeletion, CompletedAtEnd, AcceptedIsOwn, OwnIsThere,
     AnswerIsTrue, CleanupPoints
<1>2. ConfigsGrow(b)' /\ PartsTaken(b)' /\ PartsCleared(b)'
  BY DEF Evidence, ConfigsGrow, PartsTaken, Whole, PartsCleared
<1> QED
  BY <1>1, <1>2 DEF Evidence

(* The finalizer only removes, and what it cleared stays cleared.          *)
LEMMA RemovalKeeps ==
  ASSUME TypeOK, TypeOK', NEW b \in Backups, Evidence(b),
         deleting[b], deleting'[b] = deleting[b], cluster'.config = cluster.config,
         pc'[b] # "check", SameEvidence(status[b], status'[b]),
         status'[b].failed = status[b].failed, status'[b].step = status[b].step,
         \A p \in Parts : artifact'[b][p] = artifact[b][p] \/ artifact'[b][p] = None,
         Exists(b), PartsCleared(b)'
  PROVE  Evidence(b)'
<1>1. IdFromStart(b)' /\ CleanupIsDeletion(b)' /\ CompletedAtEnd(b)' /\ AcceptedIsOwn(b)' /\ AnswerIsTrue(b)'
  BY DEF Evidence, IdFromStart, CleanupIsDeletion, CompletedAtEnd, AcceptedIsOwn, AnswerIsTrue,
     SameEvidence, Exists
<1>2. OwnIsThere(b)' /\ ConfigsGrow(b)'
  BY DEF Evidence, OwnIsThere, ConfigsGrow, SameEvidence, None
<1>3. PartsTaken(b)'
  BY DEF PartsTaken
<1> QED
  BY <1>1, <1>2, <1>3 DEF Evidence

(* Admission keeps the evidence: a backup that starts has none yet.        *)
LEMMA AdmissionKeeps ==
  ASSUME TypeOK, TypeOK', StartHoldsClaim, NEW b \in Backups, Evidence(b),
         Submit(b) \/ Admission(b)
  PROVE  Evidence(b)'
<1>s. status[b] \in Statuses /\ status \in [Backups -> Statuses] /\ pc \in [Backups -> Points]
      /\ answer \in [Backups -> Answers]
  BY DEF TypeOK
<1>1. CASE Submit(b)
  <2>0. UNCHANGED <<deleting, pc, answer, cluster, artifact, cleanup>> /\ status[b].phase = "absent"
    BY <1>1 DEF Submit
  <2>1. /\ status'[b].phase = "pending" /\ status'[b].step = status[b].step
        /\ status'[b].accepted = status[b].accepted /\ status'[b].config = status[b].config
    BY <1>1, <1>s DEF Submit, Statuses
  <2>2. IdFromStart(b)' /\ CleanupIsDeletion(b)' /\ CompletedAtEnd(b)' /\ AcceptedIsOwn(b)'
        /\ OwnIsThere(b)' /\ AnswerIsTrue(b)'
    BY <2>0, <2>1 DEF Evidence, IdFromStart, CleanupIsDeletion, CompletedAtEnd, AcceptedIsOwn,
       OwnIsThere, AnswerIsTrue, Exists
  <2>3. ConfigsGrow(b)' /\ PartsTaken(b)' /\ PartsCleared(b)'
    BY <2>0, <2>1 DEF Evidence, ConfigsGrow, PartsTaken, PartsCleared, Cleared, Claimed
  <2> QED
    BY <2>2, <2>3 DEF Evidence
<1>2. CASE ClaimCluster(b) \/ LeaveAdmission(b)
  <2>1. UNCHANGED <<status, deleting, cluster, artifact, cleanup>> /\ pc'[b] \in {"start", "idle"}
    BY <1>2, <1>s DEF ClaimCluster, LeaveAdmission, Goto
  <2> QED
    BY <2>1, QuietKeeps DEF AnswerIsTrue, CleanupPoints
<1>3. CASE Start(b)
  <2>0. UNCHANGED <<deleting, cluster, artifact, cleanup>> /\ pc'[b] = "idle"
        /\ status[b].phase = "pending"
    BY <1>3, <1>s DEF Start, Goto, StartHoldsClaim
  <2>1. CASE deleting[b]
    <3>1. status' = status
      BY <1>3, <2>1 DEF Start, Flush
    <3> QED
      BY <2>0, <3>1, QuietKeeps DEF AnswerIsTrue, CleanupPoints
  <2>2. CASE ~deleting[b]
    <3>1. /\ status'[b].phase = "running" /\ status'[b].step = "PauseExporting"
          /\ status'[b].accepted = status[b].accepted /\ status'[b].config = cluster.config
      BY <1>3, <2>2, <1>s DEF Start, Flush, Statuses
    <3>2. status[b].accepted = {} /\ \A p \in Parts : artifact[b][p] = None
      BY <2>0 DEF Evidence, IdFromStart
    <3>3. IdFromStart(b)' /\ CleanupIsDeletion(b)' /\ CompletedAtEnd(b)' /\ AcceptedIsOwn(b)'
          /\ OwnIsThere(b)' /\ AnswerIsTrue(b)'
      BY <2>0, <3>1, <3>2 DEF IdFromStart, CleanupIsDeletion, CompletedAtEnd, AcceptedIsOwn,
         OwnIsThere, AnswerIsTrue, CleanupPoints, None
    <3>4. ConfigsGrow(b)' /\ PartsTaken(b)' /\ PartsCleared(b)'
      <4>1. cluster.config \in Nat
        BY DEF TypeOK, Clusters
      <4> QED
        BY <4>1, <2>0, <3>1, <3>2 DEF ConfigsGrow, PartsTaken, PartsBefore, PartsCleared, None
    <3> QED
      BY <3>3, <3>4 DEF Evidence
  <2> QED
    BY <2>1, <2>2
<1> QED
  BY <1>1, <1>2, <1>3 DEF Admission

(* The passes between two calls keep the evidence: a query answers what is *)
(* there, and only a procedure without failures completes.                 *)
LEMMA RunKeeps ==
  ASSUME TypeOK, TypeOK', CallsOfStep, NEW b \in Backups, Evidence(b), Run(b)
  PROVE  Evidence(b)'
<1>s. status[b] \in Statuses /\ status \in [Backups -> Statuses] /\ pc \in [Backups -> Points]
      /\ answer \in [Backups -> Answers] /\ cluster \in Clusters
  BY DEF TypeOK
<1>n. status[b].phase = "running" => status[b].step # "None"
  BY DEF Evidence, IdFromStart
<1>1. CASE FailClusterLost(b)
  <2>1. /\ status'[b].phase = "Failed" /\ status'[b].failed /\ status'[b].step = status[b].step
        /\ status'[b].accepted = status[b].accepted /\ status'[b].config = status[b].config
    BY <1>1, <1>s DEF FailClusterLost, PassBegins, Flush, Statuses
  <2> QED
    BY <1>1, <1>n, <2>1, OutcomeKeeps DEF FailClusterLost, PassBegins
<1>2. CASE BrokenDependency(b)
  <2>1. status'[b] = FailStep(status[b])
    BY <1>2, <1>s DEF BrokenDependency, PassBegins, Flush
  <2> QED
    BY <1>2, <1>s, <2>1, HelpersKeepEvidence, OutcomeKeeps DEF BrokenDependency, PassBegins, SameEvidence
<1>3. CASE PauseExporting(b)
  <2>1. UNCHANGED <<status, deleting, artifact, cleanup>> /\ cluster'.config = cluster.config
    BY <1>3, <1>s DEF PauseExporting, Clusters
  <2>2. pc'[b] = "check" /\ answer'[b] \in {"ok", "unreachable", "rejected"}
    BY <1>3, <1>s DEF PauseExporting, Answered
  <2> QED
    BY <2>1, <2>2, QuietKeeps DEF AnswerIsTrue, CleanupPoints
<1>4. CASE QueryPart(b)
  <2> DEFINE p == status[b].step
  <2>1. UNCHANGED <<status, deleting, artifact, cleanup, cluster>> /\ p \in Parts
    BY <1>4 DEF QueryPart
  <2>2. pc'[b] = "check" /\ answer'[b] \in {Reported(p, artifact[b][p]), "unreachable", "rejected"}
    BY <1>4, <1>s DEF QueryPart, Answered
  <2>3. AnswerIsTrue(b)'
    BY <2>1, <2>2 DEF AnswerIsTrue, Reported
  <2> QED
    BY <2>1, <2>2, <2>3, QuietKeeps DEF CleanupPoints
<1>5. CASE Judgement(b)
  BY <1>5, JudgementKeeps
<1>6. CASE Request(b)
  BY <1>6, RequestKeeps
<1>7. CASE ResumeExporting(b)
  <2>1. /\ status'[b].phase = IF status[b].failed THEN "Failed" ELSE "Completed"
        /\ status'[b].failed = status[b].failed /\ status'[b].step = status[b].step
        /\ status'[b].accepted = status[b].accepted /\ status'[b].config = status[b].config
    BY <1>7, <1>s DEF ResumeExporting, PassBegins, Flush, Statuses
  <2>2. cluster'.config = cluster.config
    BY <1>7, <1>s DEF ResumeExporting, Clusters
  <2> QED
    BY <1>7, <1>n, <2>1, <2>2, OutcomeKeeps DEF ResumeExporting, PassBegins
<1>8. CASE ResumeWriteLost(b)
  <2>1. UNCHANGED <<status, pc, answer, deleting, artifact, cleanup>> /\ cluster'.config = cluster.config
    BY <1>8, <1>s DEF ResumeWriteLost, Clusters
  <2> QED
    BY <1>8, <2>1, QuietKeeps DEF ResumeWriteLost, PassBegins, AnswerIsTrue, CleanupPoints
<1>9. CASE ResumeAttemptFailed(b)
  <2>0. cluster'.config = cluster.config
    BY <1>9, <1>s DEF ResumeAttemptFailed, Clusters
  <2>1. CASE status[b].attempts < ResumeBound
    <3>1. status'[b] = [status[b] EXCEPT !.attempts = @ + 1]
      BY <1>9, <1>s, <2>1 DEF ResumeAttemptFailed, PassBegins, Flush
    <3>2. /\ status'[b].phase = "running" /\ status'[b].failed = status[b].failed
          /\ status'[b].step = status[b].step
          /\ status'[b].accepted = status[b].accepted /\ status'[b].config = status[b].config
      BY <1>9, <1>s, <3>1 DEF ResumeAttemptFailed, PassBegins, Statuses
    <3> QED
      BY <1>9, <1>n, <2>0, <3>2, OutcomeKeeps DEF ResumeAttemptFailed, PassBegins
  <2>2. CASE ~(status[b].attempts < ResumeBound)
    <3>1. status'[b] = [status[b] EXCEPT !.phase = "ResumeFailed", !.failed = TRUE]
      BY <1>9, <1>s, <2>2 DEF ResumeAttemptFailed, PassBegins, Flush
    <3>2. /\ status'[b].phase = "ResumeFailed" /\ status'[b].failed /\ status'[b].step = status[b].step
          /\ status'[b].accepted = status[b].accepted /\ status'[b].config = status[b].config
      BY <1>s, <3>1 DEF Statuses
    <3> QED
      BY <1>9, <1>n, <2>0, <3>2, OutcomeKeeps DEF ResumeAttemptFailed, PassBegins
  <2> QED
    BY <2>1, <2>2
<1> QED
  BY <1>1, <1>2, <1>3, <1>4, <1>5, <1>6, <1>7, <1>8, <1>9 DEF Run

(* What is reported absent is not there, or not registered.                *)
LEMMA AbsentStates ==
  ASSUME NEW p \in Parts, NEW x \in Artifacts, Reported(p, x) = "absent"
  PROVE  x.state \in {"none", "accepted", "lost"}
<1>1. x.state \in {"none", "accepted", "lost", "running", "completed", "failed"}
  BY DEF Artifacts
<1>2. CASE x.state \in {"running", "completed", "failed"}
  BY <1>2 DEF Reported
<1> QED
  BY <1>1, <1>2

(* The deletion of b: what the finalizer clears stays cleared, and it is   *)
(* clean only when all of it is.                                           *)
LEMMA DeletionKeeps ==
  ASSUME TypeOK, TypeOK', ReleasedIsGone, NEW b \in Backups, Evidence(b),
         ReleaseClaim(b) \/ Delete(b) \/ Finalize(b) \/ Crash(b)
  PROVE  Evidence(b)'
<1> USE DEF CleanupPoints
<1>s. status[b] \in Statuses /\ status \in [Backups -> Statuses] /\ pc \in [Backups -> Points]
      /\ answer \in [Backups -> Answers] /\ cluster \in Clusters
      /\ cleanup \in [Backups -> {"none", "clean", "abandoned"}]
      /\ deleting \in [Backups -> BOOLEAN]
      /\ artifact \in [Backups -> [Parts -> Artifacts]]
  BY DEF TypeOK
<1>g. ASSUME NEW q, Goto(b, q) PROVE pc'[b] = q
  BY <1>g, <1>s DEF Goto
<1>e. ASSUME NEW how, EndCleanup(b, how) PROVE pc'[b] = "remove" /\ cleanup'[b] = how
  BY <1>e, <1>s DEF EndCleanup, Goto
<1>d. pc[b] \in CleanupPoints => deleting[b] /\ Exists(b)
  BY DEF Evidence, CleanupIsDeletion
<1>m. "BackupHistory" \in Parts /\ "SnapshotRecords" \in Parts /\ "BackupRuntime" \in Parts
      /\ status[b].accepted \subseteq {"BackupHistory", "BackupRuntime"}
  BY <1>s DEF Parts, Statuses, Managed
<1>x. \A p \in Parts : artifact[b][p] = artifact[b][p]
  OBVIOUS
<1>1. CASE ReleaseClaim(b)
  BY <1>1, QuietKeeps DEF ReleaseClaim, AnswerIsTrue
<1>2. CASE Delete(b)
  <2>1. UNCHANGED <<status, pc, answer, cluster, artifact, cleanup>> /\ deleting'[b] /\ Exists(b)
    BY <1>2, <1>s DEF Delete
  <2>2. IdFromStart(b)' /\ CleanupIsDeletion(b)' /\ CompletedAtEnd(b)' /\ AcceptedIsOwn(b)'
        /\ OwnIsThere(b)' /\ AnswerIsTrue(b)'
    BY <2>1 DEF Evidence, IdFromStart, CleanupIsDeletion, CompletedAtEnd, AcceptedIsOwn,
       OwnIsThere, AnswerIsTrue, Exists
  <2>3. ConfigsGrow(b)' /\ PartsTaken(b)' /\ PartsCleared(b)'
    BY <2>1 DEF Evidence, ConfigsGrow, PartsTaken, PartsCleared, Cleared, Claimed
  <2> QED
    BY <2>2, <2>3 DEF Evidence
<1>3. CASE Crash(b)
  <2>1. pc'[b] = "idle" /\ UNCHANGED <<status, deleting, cluster, artifact, cleanup>>
    BY <1>3, <1>g DEF Crash
  <2> QED
    BY <2>1, QuietKeeps DEF AnswerIsTrue
<1>4. CASE FinalizeUnstarted(b)
  <2>1. UNCHANGED <<status, deleting, cluster, artifact>> /\ pc'[b] = "remove" /\ deleting[b] /\ Exists(b)
        /\ status[b].step = "None"
    BY <1>4, <1>e DEF FinalizeUnstarted, FinalizerBegins
  <2>2. status[b].accepted = {} /\ \A p \in Parts : artifact[b][p] = None
    <3>1. status[b].phase \in Phases
      BY <1>s DEF Statuses
    <3> QED
      BY <2>1, <3>1 DEF Evidence, IdFromStart, Exists, Phases
  <2>3. PartsCleared(b)'
    BY <2>1, <2>2, <1>m DEF PartsCleared, Cleared, Claimed, None
  <2> QED
    BY <2>1, <2>3, RemovalKeeps DEF SameEvidence
<1>5. CASE FinalizeClusterLost(b)
  <2>1. UNCHANGED <<status, deleting, cluster>> /\ pc'[b] = "remove" /\ cleanup'[b] = "abandoned"
        /\ deleting[b] /\ Exists(b)
    BY <1>5, <1>e DEF FinalizeClusterLost, FinalizerBegins
  <2>2. PICK done : artifact' = [artifact EXCEPT ![b] =
                                   [p \in Parts |-> IF p \in done THEN None ELSE @[p]]]
    BY <1>5 DEF FinalizeClusterLost
  <2>3. \A p \in Parts : artifact'[b][p] = artifact[b][p] \/ artifact'[b][p] = None
    BY <2>2, <1>s
  <2>4. PartsCleared(b)'
    BY <2>1 DEF PartsCleared, Exists
  <2> QED
    BY <2>1, <2>3, <2>4, RemovalKeeps DEF SameEvidence
<1>6. CASE FinalizeUnreachable(b) \/ FinalizeContractGone(b)
  <2>1. UNCHANGED <<status, deleting, cluster, artifact>> /\ pc'[b] = "remove"
        /\ cleanup'[b] = "abandoned" /\ deleting[b] /\ Exists(b)
    BY <1>6, <1>e, <1>d DEF FinalizeUnreachable, FinalizeContractGone, FinalizerBegins
  <2>2. PartsCleared(b)'
    BY <2>1 DEF PartsCleared, Exists
  <2> QED
    BY <2>1, <2>2, RemovalKeeps DEF SameEvidence
<1>7. CASE FinalizeResume(b)
  <2>1. UNCHANGED <<status, deleting, artifact, cleanup>> /\ deleting[b] /\ Exists(b) /\ pc[b] = "idle"
    BY <1>7 DEF FinalizeResume, FinalizerBegins
  <2>2. cluster'.config = cluster.config /\ pc'[b] \in {"idle", "history"}
    BY <1>7, <2>1, <1>s, <1>g DEF FinalizeResume, Clusters
  <2>3. PartsCleared(b)'
    BY <2>1, <2>2 DEF PartsCleared, Exists
  <2> QED
    BY <2>1, <2>2, <2>3, RemovalKeeps DEF SameEvidence
<1>8. CASE FinalizeHistory(b)
  <2>0. pc[b] = "history" /\ UNCHANGED <<deleting, cluster, cleanup>> /\ deleting[b] /\ Exists(b)
    BY <1>8, <1>d DEF FinalizeHistory
  <2>1. CASE "BackupHistory" \notin status[b].accepted /\ Goto(b, "records") /\ UNCHANGED <<status, artifact>>
    <3>1. PartsCleared(b)'
      BY <2>0, <2>1, <1>g DEF PartsCleared, Exists
    <3> QED
      BY <2>0, <2>1, <3>1, <1>g, RemovalKeeps DEF SameEvidence
  <2>2. CASE status' = [status EXCEPT ![b].named = TRUE] /\ Goto(b, "idle") /\ UNCHANGED artifact
    <3>1. SameEvidence(status[b], status'[b]) /\ status'[b].failed = status[b].failed
          /\ status'[b].step = status[b].step
      BY <2>2, <1>s DEF SameEvidence, Statuses
    <3>2. PartsCleared(b)'
      BY <2>0, <2>2, <3>1, <1>g DEF PartsCleared, Exists, SameEvidence
    <3> QED
      BY <2>0, <2>2, <3>1, <3>2, <1>g, RemovalKeeps
  <2>3. CASE /\ (IF Reported("BackupHistory", artifact[b]["BackupHistory"]) = "absent"
                 THEN ~Registering(b, "BackupHistory")
                 ELSE status[b].named /\ Reported("BackupHistory", artifact[b]["BackupHistory"]) # "running")
             /\ artifact' = [artifact EXCEPT ![b]["BackupHistory"] =
                               IF Reported("BackupHistory", artifact[b]["BackupHistory"]) = "absent"
                               THEN artifact[b]["BackupHistory"] ELSE None]
             /\ Goto(b, "records") /\ UNCHANGED status
    <3>1. \A p \in Parts : artifact'[b][p] = artifact[b][p] \/ artifact'[b][p] = None
      BY <2>3, <1>s, <1>m
    <3>2. Cleared(b, "BackupHistory")'
      <4>1. artifact'[b]["BackupHistory"] =
              IF Reported("BackupHistory", artifact[b]["BackupHistory"]) = "absent"
              THEN artifact[b]["BackupHistory"] ELSE None
        BY <2>3, <1>s, <1>m
      <4>2. CASE Reported("BackupHistory", artifact[b]["BackupHistory"]) = "absent"
        <5>1. artifact[b]["BackupHistory"].state \in {"none", "accepted", "lost"}
          BY <4>2, <1>s, <1>m, AbsentStates
        <5>2. artifact[b]["BackupHistory"].state # "accepted"
          BY <2>3, <4>2 DEF Registering
        <5>3. artifact[b]["BackupHistory"].by = "self" => artifact[b]["BackupHistory"].state # "none"
          BY <1>m DEF Evidence, OwnIsThere
        <5> QED
          BY <4>1, <4>2, <5>1, <5>2, <5>3 DEF Cleared
      <4>3. CASE Reported("BackupHistory", artifact[b]["BackupHistory"]) # "absent"
        BY <4>1, <4>3 DEF Cleared, None
      <4> QED
        BY <4>2, <4>3
    <3>3. PartsCleared(b)'
      BY <2>0, <2>3, <3>2, <1>g DEF PartsCleared, Exists
    <3> QED
      BY <2>0, <2>3, <3>1, <3>3, <1>g, RemovalKeeps DEF SameEvidence
  <2> QED
    BY <1>8, <2>1, <2>2, <2>3 DEF FinalizeHistory
<1>9. CASE FinalizeRecords(b)
  <2>0. pc[b] = "records" /\ UNCHANGED <<status, deleting, cluster>> /\ deleting[b] /\ Exists(b)
    BY <1>9, <1>d DEF FinalizeRecords
  <2>1. artifact'[b]["SnapshotRecords"] =
          (IF artifact[b]["SnapshotRecords"].by = "self" THEN None ELSE artifact[b]["SnapshotRecords"])
        /\ \A p \in Parts \ {"SnapshotRecords"} : artifact'[b][p] = artifact[b][p]
    BY <1>9, <1>s, <1>m DEF FinalizeRecords
  <2>2. Cleared(b, "SnapshotRecords")'
    BY <2>1 DEF Cleared, None
  <2>3. "BackupHistory" \in status[b].accepted => Cleared(b, "BackupHistory")'
    BY <2>0, <2>1, <1>m DEF Evidence, PartsCleared, Cleared
  <2>4. CASE "BackupRuntime" \in status[b].accepted /\ Goto(b, "runtime") /\ UNCHANGED cleanup
    <3>1. PartsCleared(b)'
      BY <2>0, <2>2, <2>3, <2>4, <1>g DEF PartsCleared, Exists
    <3> QED
      BY <2>0, <2>1, <2>4, <3>1, <1>g, <1>m, RemovalKeeps DEF SameEvidence
  <2>5. CASE "BackupRuntime" \notin status[b].accepted /\ EndCleanup(b, "clean")
    <3>1. pc'[b] = "remove"
      BY <2>5, <1>e
    <3>2. \A p \in Claimed(b) : Cleared(b, p)'
      BY <2>2, <2>3, <2>5, <1>m DEF Claimed
    <3>3. PartsCleared(b)'
      BY <2>0, <3>1, <3>2 DEF PartsCleared, Claimed
    <3> QED
      BY <2>0, <2>1, <3>1, <3>3, <1>m, RemovalKeeps DEF SameEvidence
  <2> QED
    BY <1>9, <2>4, <2>5 DEF FinalizeRecords
<1>10. CASE FinalizeRuntime(b)
  <2>0. pc[b] = "runtime" /\ UNCHANGED <<status, deleting, cluster>> /\ deleting[b] /\ Exists(b)
        /\ pc'[b] = "remove"
    BY <1>10, <1>d, <1>e DEF FinalizeRuntime
  <2>1. artifact'[b]["BackupRuntime"] =
          (IF Reported("BackupRuntime", artifact[b]["BackupRuntime"]) = "absent"
           THEN artifact[b]["BackupRuntime"] ELSE None)
        /\ \A p \in Parts \ {"BackupRuntime"} : artifact'[b][p] = artifact[b][p]
    BY <1>10, <1>s, <1>m DEF FinalizeRuntime
  <2>2. Cleared(b, "BackupRuntime")'
    <3>1. CASE Reported("BackupRuntime", artifact[b]["BackupRuntime"]) = "absent"
      <4>1. artifact[b]["BackupRuntime"].state \in {"none", "accepted", "lost"}
        BY <3>1, <1>s, <1>m, AbsentStates
      <4>2. artifact[b]["BackupRuntime"].state # "accepted"
        BY <1>10 DEF FinalizeRuntime, Registering
      <4>3. artifact[b]["BackupRuntime"].by = "self" => artifact[b]["BackupRuntime"].state # "none"
        BY <1>m DEF Evidence, OwnIsThere
      <4> QED
        BY <2>1, <3>1, <4>1, <4>2, <4>3 DEF Cleared
    <3>2. CASE Reported("BackupRuntime", artifact[b]["BackupRuntime"]) # "absent"
      BY <2>1, <3>2 DEF Cleared, None
    <3> QED
      BY <3>1, <3>2
  <2>3. \A p \in Claimed(b) : Cleared(b, p)'
    BY <2>0, <2>1, <2>2, <1>m DEF Claimed, Evidence, PartsCleared, Cleared
  <2>4. PartsCleared(b)'
    BY <2>0, <2>3 DEF PartsCleared, Claimed
  <2> QED
    BY <2>0, <2>1, <2>4, <1>m, RemovalKeeps DEF SameEvidence
<1>11. CASE FinalizeHolds(b)
  <2>1. UNCHANGED <<status, deleting, cluster, artifact, cleanup>> /\ pc'[b] = "idle"
    BY <1>11, <1>g DEF FinalizeHolds
  <2> QED
    BY <2>1, QuietKeeps DEF AnswerIsTrue
<1>12. CASE RemoveFinalizer(b)
  <2>0. pc[b] = "remove" /\ UNCHANGED <<deleting, cluster, artifact, cleanup>> /\ deleting[b]
        /\ pc'[b] = "release"
    BY <1>12, <1>d, <1>g DEF RemoveFinalizer
  <2>1. status'[b].phase = "gone" /\ status'[b].step = "None" /\ status'[b].config = 0
        /\ status'[b].accepted = status[b].accepted
    BY <1>12, <1>s DEF RemoveFinalizer, NoStatus
  <2>2. IdFromStart(b)' /\ CleanupIsDeletion(b)' /\ CompletedAtEnd(b)' /\ AcceptedIsOwn(b)'
        /\ OwnIsThere(b)' /\ AnswerIsTrue(b)'
    BY <2>0, <2>1 DEF Evidence, IdFromStart, CleanupIsDeletion, CompletedAtEnd, AcceptedIsOwn,
       OwnIsThere, AnswerIsTrue
  <2>3. ConfigsGrow(b)'
    <3>1. cluster.config \in Nat /\ \A p \in Parts : artifact[b][p].config \in Nat
      BY <1>s DEF Clusters, Artifacts
    <3> QED
      BY <2>0, <2>1, <3>1 DEF Evidence, ConfigsGrow
  <2>4. PartsTaken(b)' /\ PartsCleared(b)'
    BY <2>0, <2>1 DEF Evidence, PartsTaken, PartsCleared, Cleared, Claimed
  <2> QED
    BY <2>2, <2>3, <2>4 DEF Evidence
<1>13. CASE ReleaseAfterRemoval(b)
  <2>1. UNCHANGED <<status, deleting, cluster, artifact, cleanup>> /\ pc'[b] = "idle"
    BY <1>13, <1>g DEF ReleaseAfterRemoval
  <2> QED
    BY <2>1, QuietKeeps DEF AnswerIsTrue
<1> QED
  BY <1>1, <1>2, <1>3, <1>4, <1>5, <1>6, <1>7, <1>8, <1>9, <1>10, <1>11, <1>12, <1>13 DEF Finalize

(* Every step of b leaves the other backups and the configuration alone.   *)
LEMMA StepFrame ==
  ASSUME TypeOK, NEW b \in Backups,
         Submit(b) \/ Admission(b) \/ Run(b) \/ ReleaseClaim(b) \/ Delete(b) \/ Finalize(b) \/ Crash(b)
  PROVE  /\ \A d \in Backups \ {b} : /\ status'[d] = status[d] /\ deleting'[d] = deleting[d] /\ pc'[d] = pc[d]
                                     /\ answer'[d] = answer[d] /\ artifact'[d] = artifact[d] /\ cleanup'[d] = cleanup[d]
         /\ cluster'.config = cluster.config
<1>s. status \in [Backups -> Statuses] /\ pc \in [Backups -> Points] /\ answer \in [Backups -> Answers]
      /\ cluster \in Clusters /\ cleanup \in [Backups -> {"none", "clean", "abandoned"}]
      /\ deleting \in [Backups -> BOOLEAN] /\ artifact \in [Backups -> [Parts -> Artifacts]]
  BY DEF TypeOK
<1> DEFINE Same(f, g) == \A d \in Backups \ {b} : f[d] = g[d]
<1>1. Same(status', status)
  <2>1. \A s : Flush(b, s) => Same(status', status)
    BY <1>s DEF Flush
  <2>2. CASE \E s : Flush(b, s)
    BY <2>1, <2>2
  <2>3. CASE UNCHANGED status
    BY <2>3
  <2>4. CASE Submit(b) \/ RequestAccepted(b) \/ FinalizeHistory(b) \/ RemoveFinalizer(b)
    BY <2>4, <1>s DEF Submit, RequestAccepted, FinalizeHistory, RemoveFinalizer
  <2> HIDE DEF Same
  <2>5. CASE Judgement(b)
    BY <2>2, <2>3, <2>5 DEF Judgement, Conclude, WorkloadChanged, EndpointUnreachable, PauseAnswered,
       PartFailed, PartInProgress, PartCompleted, RecordIntent, AwaitRegistration,
       RegistrationFailed, GoOnToRequest
  <2>6. CASE Request(b)
    BY <2>2, <2>3, <2>4, <2>6 DEF Request, SnapshotCreated, RequestWriteLost, RequestUnreachable, RequestRejected
  <2>7. CASE Admission(b)
    BY <2>2, <2>3, <2>7 DEF Admission, ClaimCluster, Start, LeaveAdmission
  <2>8. CASE FailClusterLost(b) \/ BrokenDependency(b) \/ PauseExporting(b) \/ QueryPart(b)
             \/ ResumeExporting(b) \/ ResumeWriteLost(b) \/ ResumeAttemptFailed(b)
    BY <2>2, <2>3, <2>8 DEF FailClusterLost, BrokenDependency, PauseExporting, QueryPart,
       ResumeExporting, ResumeWriteLost, ResumeAttemptFailed
  <2>9. CASE ReleaseClaim(b) \/ Delete(b) \/ Crash(b) \/ Finalize(b)
    BY <2>3, <2>4, <2>9 DEF ReleaseClaim, Delete, Crash, Finalize, FinalizeUnstarted,
       FinalizeClusterLost, FinalizeUnreachable, FinalizeResume, FinalizeContractGone,
       FinalizeRecords, FinalizeRuntime, FinalizeHolds, ReleaseAfterRemoval
  <2> QED
    BY <2>4, <2>5, <2>6, <2>7, <2>8, <2>9 DEF Run
<1>2. Same(deleting', deleting) /\ cluster'.config = cluster.config
  <2>1. CASE Delete(b)
    BY <2>1, <1>s DEF Delete
  <2>2. CASE PauseExporting(b) \/ ResumeExporting(b) \/ ResumeWriteLost(b) \/ ResumeAttemptFailed(b) \/ FinalizeResume(b)
    BY <2>2, <1>s DEF PauseExporting, ResumeExporting, ResumeWriteLost, ResumeAttemptFailed,
       FinalizeResume, Clusters
  <2>3. CASE UNCHANGED <<deleting, cluster>>
    BY <2>3
  <2>4. CASE Judgement(b) \/ Request(b)
    BY <2>3, <2>4 DEF Judgement, Conclude, WorkloadChanged, EndpointUnreachable, PauseAnswered,
       PartFailed, PartInProgress, PartCompleted, RecordIntent, AwaitRegistration,
       RegistrationFailed, GoOnToRequest, Request, RequestAccepted, SnapshotCreated,
       RequestWriteLost, RequestUnreachable, RequestRejected
  <2>5. CASE Submit(b) \/ Admission(b) \/ ReleaseClaim(b) \/ Crash(b)
    BY <2>3, <2>5 DEF Submit, Admission, ClaimCluster, Start, LeaveAdmission, ReleaseClaim, Crash
  <2>6. CASE FailClusterLost(b) \/ BrokenDependency(b) \/ QueryPart(b)
    BY <2>3, <2>6 DEF FailClusterLost, BrokenDependency, QueryPart
  <2>7. CASE Finalize(b)
    BY <2>2, <2>3, <2>7 DEF Finalize, FinalizeUnstarted, FinalizeClusterLost, FinalizeUnreachable,
       FinalizeContractGone, FinalizeHistory, FinalizeRecords, FinalizeRuntime, FinalizeHolds,
       RemoveFinalizer, ReleaseAfterRemoval
  <2> QED
    BY <2>1, <2>2, <2>4, <2>5, <2>6, <2>7 DEF Run
<1>3. Same(pc', pc) /\ Same(answer', answer) /\ Same(cleanup', cleanup)
  <2>1. CASE UNCHANGED <<pc, answer, cleanup>>
    BY <2>1
  <2>2. CASE (\E q : Goto(b, q)) /\ UNCHANGED cleanup
    BY <2>2, <1>s DEF Goto
  <2>3. CASE (\E a : Answered(b, a)) /\ UNCHANGED cleanup
    BY <2>3, <1>s DEF Answered
  <2>4. CASE \E how : EndCleanup(b, how)
    BY <2>4, <1>s DEF EndCleanup, Goto
  <2> HIDE DEF Same
  <2>5. CASE Judgement(b)
    BY <2>2, <2>5 DEF Judgement, Conclude, WorkloadChanged, EndpointUnreachable, PauseAnswered,
       PartFailed, PartInProgress, PartCompleted, RecordIntent, AwaitRegistration,
       RegistrationFailed, GoOnToRequest
  <2>6. CASE Request(b)
    BY <2>2, <2>6 DEF Request, Requesting, RequestAccepted, SnapshotCreated, RequestWriteLost,
       RequestUnreachable, RequestRejected
  <2>7. CASE Submit(b) \/ Admission(b) \/ ReleaseClaim(b) \/ Delete(b) \/ Crash(b)
    BY <2>1, <2>2, <2>7 DEF Submit, Admission, ClaimCluster, Start, LeaveAdmission, ReleaseClaim,
       Delete, Crash
  <2>8. CASE FailClusterLost(b) \/ BrokenDependency(b) \/ ResumeExporting(b) \/ ResumeWriteLost(b) \/ ResumeAttemptFailed(b)
    BY <2>1, <2>8 DEF FailClusterLost, BrokenDependency, ResumeExporting, ResumeWriteLost, ResumeAttemptFailed
  <2>9. CASE PauseExporting(b) \/ QueryPart(b)
    BY <2>3, <2>9 DEF PauseExporting, QueryPart
  <2>10. CASE Finalize(b)
    BY <2>1, <2>2, <2>4, <2>10 DEF Finalize, FinalizeUnstarted, FinalizeClusterLost, FinalizeUnreachable,
       FinalizeResume, FinalizeContractGone, FinalizeHistory, FinalizeRecords, FinalizeRuntime,
       FinalizeHolds, RemoveFinalizer, ReleaseAfterRemoval
  <2> QED
    BY <2>5, <2>6, <2>7, <2>8, <2>9, <2>10 DEF Run
<1>4. Same(artifact', artifact)
  <2>1. CASE UNCHANGED artifact
    BY <2>1
  <2>2. CASE \E x : artifact' = [artifact EXCEPT ![b] = x]
    BY <2>2, <1>s
  <2>3. CASE Create(b) \/ FinalizeClusterLost(b) \/ FinalizeHistory(b) \/ FinalizeRecords(b) \/ FinalizeRuntime(b)
    BY <2>3, <1>s DEF Create, FinalizeClusterLost, FinalizeHistory, FinalizeRecords, FinalizeRuntime
  <2> HIDE DEF Same
  <2>4. CASE Judgement(b)
    BY <2>1, <2>4 DEF Judgement, Conclude, WorkloadChanged, EndpointUnreachable, PauseAnswered,
       PartFailed, PartInProgress, PartCompleted, RecordIntent, AwaitRegistration,
       RegistrationFailed, GoOnToRequest
  <2>5. CASE Request(b)
    BY <2>1, <2>3, <2>5 DEF Request, RequestAccepted, SnapshotCreated, RequestWriteLost,
       RequestUnreachable, RequestRejected
  <2>6. CASE Submit(b) \/ Admission(b) \/ ReleaseClaim(b) \/ Delete(b) \/ Crash(b)
    BY <2>1, <2>6 DEF Submit, Admission, ClaimCluster, Start, LeaveAdmission, ReleaseClaim,
       Delete, Crash
  <2>7. CASE FailClusterLost(b) \/ BrokenDependency(b) \/ ResumeExporting(b) \/ ResumeWriteLost(b)
             \/ ResumeAttemptFailed(b) \/ PauseExporting(b) \/ QueryPart(b)
    BY <2>1, <2>7 DEF FailClusterLost, BrokenDependency, ResumeExporting, ResumeWriteLost,
       ResumeAttemptFailed, PauseExporting, QueryPart
  <2>8. CASE Finalize(b)
    BY <2>1, <2>3, <2>8 DEF Finalize, FinalizeUnstarted, FinalizeUnreachable,
       FinalizeResume, FinalizeContractGone, FinalizeHolds, RemoveFinalizer, ReleaseAfterRemoval
  <2> QED
    BY <2>4, <2>5, <2>6, <2>7, <2>8 DEF Run
<1> QED
  BY <1>1, <1>2, <1>3, <1>4

(* The environment keeps the evidence of every backup: a rollout only      *)
(* makes the configuration newer, nothing that completed changes, and      *)
(* nobody takes an ID after it was accepted here.                          *)
LEMMA EnvironmentKeeps ==
  ASSUME TypeOK, TypeOK', EvidenceInv, Environment
  PROVE  EvidenceInv'
<1>s. artifact \in [Backups -> [Parts -> Artifacts]] /\ cluster \in Clusters
      /\ cluster.config \in Nat /\ MaxFailures \in Nat
  BY BackupConstants DEF TypeOK, Clusters
<1>u. UNCHANGED <<status, deleting, pc, answer, cleanup>>
  BY HindranceOnly DEF Environment, Rollout, Suspend, Unsuspend, ClusterDeleted, ClusterRecreated, Progress, ForeignArtifact
<1>1. CASE Rollout \/ Suspend \/ Unsuspend \/ ClusterDeleted \/ ClusterRecreated
  <2>1. UNCHANGED artifact /\ cluster'.config \in {cluster.config, cluster.config + 1}
    BY <1>1, <1>s DEF Rollout, Suspend, Unsuspend, ClusterDeleted, ClusterRecreated, Clusters
  <2>2. cluster.config <= cluster'.config
    BY <2>1, <1>s
  <2> QED
    BY <1>u, <2>1, <2>2, EvidenceFrame DEF EvidenceInv
<1>2. ASSUME NEW b \in Backups, NEW p \in Parts, Progress(b, p) PROVE EvidenceInv'
  <2>1. \A d \in Backups \ {b} : artifact'[d] = artifact[d]
    BY <1>2, <1>s DEF Progress
  <2>0. UNCHANGED cluster
    BY <1>2 DEF Progress
  <2>2. /\ \A q \in Parts \ {p} : artifact'[b][q] = artifact[b][q]
        /\ artifact[b][p].state \in {"accepted", "running"}
        /\ artifact'[b][p].by = artifact[b][p].by
        /\ artifact'[b][p].state # "none"
        /\ artifact'[b][p].state = "completed" => artifact'[b][p].config = cluster.config
    <3>0. artifact[b][p] \in Artifacts
      BY <1>s
    <3>1. CASE artifact[b][p].state = "accepted" /\ \E to \in {"running", "lost"} : artifact' = [artifact EXCEPT ![b][p].state = to]
      <4>1. PICK to \in {"running", "lost"} : artifact' = [artifact EXCEPT ![b][p].state = to]
        BY <3>1
      <4>2. artifact'[b][p] = [artifact[b][p] EXCEPT !.state = to]
        BY <4>1, <1>s
      <4>3. artifact'[b][p].by = artifact[b][p].by /\ artifact'[b][p].state = to
        BY <4>2, <3>0 DEF Artifacts
      <4> QED
        BY <3>1, <4>1, <4>3, <1>s
    <3>2. CASE artifact[b][p].state = "running" /\ artifact' = [artifact EXCEPT ![b][p].state = "failed"]
      <4>2. artifact'[b][p] = [artifact[b][p] EXCEPT !.state = "failed"]
        BY <3>2, <1>s
      <4>3. artifact'[b][p].by = artifact[b][p].by /\ artifact'[b][p].state = "failed"
        BY <4>2, <3>0 DEF Artifacts
      <4> QED
        BY <3>2, <4>3, <1>s
    <3>3. CASE artifact[b][p].state = "running"
               /\ artifact' = [artifact EXCEPT ![b][p] =
                                 [artifact[b][p] EXCEPT !.state = "completed", !.config = cluster.config]]
      <4>2. artifact'[b][p] = [artifact[b][p] EXCEPT !.state = "completed", !.config = cluster.config]
        BY <3>3, <1>s
      <4>3. artifact'[b][p].by = artifact[b][p].by /\ artifact'[b][p].state = "completed"
            /\ artifact'[b][p].config = cluster.config
        BY <4>2, <3>0 DEF Artifacts
      <4> QED
        BY <3>3, <4>3, <1>s
    <3> QED
      BY <1>2, <3>1, <3>2, <3>3 DEF Progress
  <2>3. Evidence(b)'
    <3>0. Evidence(b)
      BY DEF EvidenceInv
    <3>1. IdFromStart(b)' /\ CleanupIsDeletion(b)' /\ CompletedAtEnd(b)'
      BY <3>0, <1>u, <2>2 DEF Evidence, IdFromStart, CleanupIsDeletion, CompletedAtEnd, Exists, None
    <3>2. AcceptedIsOwn(b)' /\ OwnIsThere(b)'
      <4>1. status[b].accepted \subseteq Parts
        BY DEF TypeOK, Statuses, Managed, Parts
      <4> QED
        BY <3>0, <1>u, <2>2, <4>1 DEF Evidence, AcceptedIsOwn, OwnIsThere
    <3>3. AnswerIsTrue(b)'
      BY <3>0, <1>u, <2>2 DEF Evidence, AnswerIsTrue
    <3>4. ConfigsGrow(b)'
      BY <3>0, <1>u, <1>s, <2>0, <2>2 DEF Evidence, ConfigsGrow
    <3>5. PartsTaken(b)'
      <4>1. \A q \in Parts : Whole(b, q) => Whole(b, q)'
        BY <1>u, <2>2 DEF Whole
      <4>2. PartsBefore(status[b].step) \subseteq Parts
        BY DEF PartsBefore, Parts
      <4> QED
        BY <3>0, <1>u, <4>1, <4>2 DEF Evidence, PartsTaken
    <3>6. PartsCleared(b)'
      <4>1. \A q \in Parts : Cleared(b, q) => Cleared(b, q)'
        BY <2>2 DEF Cleared
      <4>2. Claimed(b) \subseteq Parts /\ Claimed(b)' = Claimed(b) /\ "BackupHistory" \in Parts /\ "SnapshotRecords" \in Parts
        BY <1>u DEF TypeOK, Statuses, Managed, Parts, Claimed
      <4> QED
        BY <3>0, <1>u, <4>1, <4>2 DEF Evidence, PartsCleared
    <3> QED
      BY <3>1, <3>2, <3>3, <3>4, <3>5, <3>6 DEF Evidence
  <2> QED
    BY <1>u, <1>s, <2>0, <2>1, <2>3, EvidenceFrame DEF EvidenceInv
<1>3. ASSUME NEW b \in Backups, NEW p \in Parts, ForeignArtifact(b, p) PROVE EvidenceInv'
  <2>0. UNCHANGED cluster /\ Exists(b) /\ status[b].step # "None" /\ p \notin status[b].accepted
        /\ artifact[b][p] = None
    BY <1>3 DEF ForeignArtifact
  <2>1. /\ \A d \in Backups \ {b} : artifact'[d] = artifact[d]
        /\ \A q \in Parts \ {p} : artifact'[b][q] = artifact[b][q]
        /\ artifact'[b][p].by = "foreign" /\ artifact'[b][p].state = "running"
    BY <1>3, <1>s DEF ForeignArtifact
  <2>2. Evidence(b)'
    <3>0. Evidence(b)
      BY DEF EvidenceInv
    <3>1. IdFromStart(b)' /\ CleanupIsDeletion(b)' /\ CompletedAtEnd(b)' /\ AcceptedIsOwn(b)'
      <4>1. status[b].accepted \subseteq Parts
        BY DEF TypeOK, Statuses, Managed, Parts
      <4> QED
        BY <3>0, <1>u, <2>0, <2>1, <4>1 DEF Evidence, IdFromStart, CleanupIsDeletion, CompletedAtEnd,
           AcceptedIsOwn, Exists
    <3>2. OwnIsThere(b)' /\ AnswerIsTrue(b)' /\ ConfigsGrow(b)'
      BY <3>0, <1>u, <2>0, <2>1 DEF Evidence, OwnIsThere, AnswerIsTrue, ConfigsGrow, None
    <3>3. PartsTaken(b)'
      <4>1. \A q \in Parts : Whole(b, q) => Whole(b, q)'
        BY <1>u, <2>0, <2>1 DEF Whole, None
      <4>2. PartsBefore(status[b].step) \subseteq Parts
        BY DEF PartsBefore, Parts
      <4> QED
        BY <3>0, <1>u, <4>1, <4>2 DEF Evidence, PartsTaken
    <3>4. PartsCleared(b)'
      <4>1. \A q \in Parts : Cleared(b, q) => Cleared(b, q)'
        BY <2>1 DEF Cleared
      <4>2. Claimed(b) \subseteq Parts /\ Claimed(b)' = Claimed(b) /\ "BackupHistory" \in Parts /\ "SnapshotRecords" \in Parts
        BY <1>u DEF TypeOK, Statuses, Managed, Parts, Claimed
      <4> QED
        BY <3>0, <1>u, <4>1, <4>2 DEF Evidence, PartsCleared
    <3> QED
      BY <3>1, <3>2, <3>3, <3>4 DEF Evidence
  <2> QED
    BY <1>u, <1>s, <2>0, <2>1, <2>2, EvidenceFrame DEF EvidenceInv
<1>4. CASE Hindrance
  <2>1. UNCHANGED artifact /\ cluster.config <= cluster'.config
    BY <1>4, <1>s, HindranceOnly
  <2> QED
    BY <1>u, <2>1, EvidenceFrame DEF EvidenceInv
<1> QED
  BY <1>1, <1>2, <1>3, <1>4 DEF Environment

(* The initial states have no evidence, and need none.                     *)
LEMMA EvidenceInit == Init => EvidenceInv
<1> SUFFICES ASSUME Init, NEW b \in Backups PROVE Evidence(b)
  BY DEF EvidenceInv
<1>1. status[b] = NoStatus /\ pc[b] = "idle" /\ cluster.config = 1 /\ cleanup[b] = "none"
      /\ \A p \in Parts : artifact[b][p] = None
  BY DEF Init
<1>2. IdFromStart(b) /\ CleanupIsDeletion(b) /\ CompletedAtEnd(b) /\ AcceptedIsOwn(b)
      /\ OwnIsThere(b) /\ AnswerIsTrue(b)
  BY <1>1 DEF IdFromStart, CleanupIsDeletion, CompletedAtEnd, AcceptedIsOwn, OwnIsThere,
     AnswerIsTrue, CleanupPoints, NoStatus, None
<1>3. ConfigsGrow(b) /\ PartsTaken(b) /\ PartsCleared(b)
  BY <1>1 DEF ConfigsGrow, PartsTaken, PartsCleared, NoStatus, None
<1> QED
  BY <1>2, <1>3 DEF Evidence

(* Every step keeps the evidence of every backup.                          *)
LEMMA EvidenceStep ==
  ASSUME TypeOK, TypeOK', ProtocolInv, EvidenceInv, [Next]_vars
  PROVE  EvidenceInv'
<1>p. CallsOfStep /\ StartHoldsClaim /\ ReleasedIsGone
  BY DEF ProtocolInv
<1>1. CASE UNCHANGED vars
  BY <1>1 DEF vars, EvidenceInv, Evidence, IdFromStart, CleanupIsDeletion, CompletedAtEnd,
     AcceptedIsOwn, OwnIsThere, AnswerIsTrue, ConfigsGrow, PartsTaken, PartsCleared, Whole, Cleared,
     Claimed, Exists
<1>2. ASSUME NEW b \in Backups,
             Submit(b) \/ Admission(b) \/ Run(b) \/ ReleaseClaim(b) \/ Delete(b) \/ Finalize(b) \/ Crash(b)
      PROVE  EvidenceInv'
  <2>1. Evidence(b)'
    BY <1>2, <1>p, AdmissionKeeps, RunKeeps, DeletionKeeps DEF EvidenceInv
  <2>2. /\ \A d \in Backups \ {b} : /\ status'[d] = status[d] /\ deleting'[d] = deleting[d] /\ pc'[d] = pc[d]
                                    /\ answer'[d] = answer[d] /\ artifact'[d] = artifact[d] /\ cleanup'[d] = cleanup[d]
        /\ cluster'.config = cluster.config
    BY <1>2, StepFrame
  <2>3. cluster.config <= cluster'.config
    BY <2>2 DEF TypeOK, Clusters
  <2> QED
    BY <2>1, <2>2, <2>3, EvidenceFrame DEF EvidenceInv
<1> QED
  BY <1>1, <1>2, EnvironmentKeeps DEF Next

(* The evidence of every backup is kept from its request to its removal.   *)
THEOREM EvidenceInvariant == Spec => []EvidenceInv
<1>1. TypeOK /\ ProtocolInv /\ (TypeOK /\ ProtocolInv)' /\ EvidenceInv /\ [Next]_vars => EvidenceInv'
  BY EvidenceStep
<1> QED
  BY <1>1, EvidenceInit, BackupInvariant, PTL DEF Spec

(* The set that a Completed backup names is whole and of one configuration, *)
(* although the workload rolls out and others take IDs between its parts.   *)
THEOREM CompletedSetIsConsistent == Spec => []CompletedIsConsistent
<1>1. EvidenceInv => CompletedIsConsistent
  <2> SUFFICES ASSUME EvidenceInv, NEW b \in Backups, status[b].phase = "Completed", ~deleting[b],
                      NEW p \in Parts
               PROVE  Whole(b, p)
    BY DEF CompletedIsConsistent, Whole
  <2>1. CompletedAtEnd(b) /\ PartsTaken(b)
    BY DEF EvidenceInv, Evidence
  <2>2. status[b].step = "ResumeExporting" /\ ~status[b].failed
    BY <2>1 DEF CompletedAtEnd
  <2>3. PartsBefore(status[b].step) = Parts
    BY <2>2 DEF PartsBefore
  <2> QED
    BY <2>1, <2>2, <2>3 DEF PartsTaken
<1> QED
  BY <1>1, EvidenceInvariant, PTL

(* A deletion that did not give up leaves nothing that this backup saw     *)
(* accepted, whatever the cluster registered or ended meanwhile.           *)
THEOREM CleanDeletionLeavesNothing == Spec => []CleanDeletionIsComplete
<1>1. EvidenceInv => CleanDeletionIsComplete
  BY DEF EvidenceInv, Evidence, PartsCleared, Cleared, Claimed, CleanDeletionIsComplete
<1> QED
  BY <1>1, EvidenceInvariant, PTL

-----------------------------------------------------------------------------
(* Siblings never block each other. *)

(* Of a set of backups, one was created first.                             *)
LEMMA FirstOfThem ==
  ASSUME NEW S \in SUBSET Backups, S # {}
  PROVE  \E b \in S : \A d \in S \ {b} : Age[b] < Age[d]
<1> DEFINE Ages == {Age[b] : b \in S}
<1>1. Ages \subseteq Nat /\ Ages # {}
  BY BackupConstants
<1>2. PICK n \in Ages : \A m \in Ages : <<m, n>> \notin OpToRel(<, Nat)
  <2> HIDE DEF Ages
  <2> QED
    BY <1>1, NatLessThanWellFounded, WFMin, Zenon
<1>3. PICK b \in S : n = Age[b]
  OBVIOUS
<1>4. ASSUME NEW d \in S \ {b} PROVE Age[b] < Age[d]
  <2>1. ~(Age[d] < Age[b])
    BY <1>1, <1>2, <1>3 DEF OpToRel
  <2>2. Age[b] \in Nat /\ Age[d] \in Nat /\ Age[b] # Age[d]
    BY BackupConstants
  <2> QED
    BY <2>1, <2>2
<1> QED
  BY <1>4

(* While nobody uses the cluster, the order of the siblings and the claim  *)
(* let one pending backup pass: the holder, or else the oldest.            *)
THEOREM SiblingsNeverBlockEachOther == Spec => []SomePendingGoesFirst
<1>1. EvidenceInv => SomePendingGoesFirst
  <2> DEFINE Pending == {b \in Backups : status[b].phase = "pending"}
             Passes(b) == GoesFirst(b) /\ \A d \in Backups \ {b} : holder = d => ~HolderActive(d)
  <2> SUFFICES ASSUME EvidenceInv, Pending # {},
                      \A b \in Backups : status[b].phase \notin {"running", "ResumeFailed"}
               PROVE  \E b \in Pending : Passes(b)
    BY DEF SomePendingGoesFirst
  <2>1. \A d \in Backups : HolderActive(d) => d \in Pending /\ status[d].step = "None"
    BY DEF HolderActive, EvidenceInv, Evidence, IdFromStart
  <2>2. CASE holder \in Pending
    <3>1. Passes(holder)
      BY DEF GoesFirst
    <3> QED
      BY <2>2, <3>1
  <2>3. CASE holder \notin Pending
    <3>1. PICK b \in Pending : \A d \in Pending \ {b} : Age[b] < Age[d]
      BY FirstOfThem
    <3>2. Passes(b)
      BY <2>1, <2>3, <3>1 DEF GoesFirst
    <3> QED
      BY <3>2
  <2> QED
    BY <2>2, <2>3
<1> QED
  BY <1>1, EvidenceInvariant, PTL
=============================================================================
