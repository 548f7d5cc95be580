----------------------------- MODULE PitRestore -----------------------------
(***************************************************************************)
(* A PointInTimeRestore and the database server that it asks to roll back: *)
(* internal/controller/pointintimerestore with the registrations of        *)
(* pkg/storagewriter.  The restore holds its cluster suspended, registers  *)
(* as a writer of the database, asks through the contract of the server,   *)
(* follows the database to the endpoint it moves to, reads it, and only    *)
(* then empties the broker volumes.                                        *)
(*                                                                         *)
(* The controller runs one pass at a time.  A pass is one action, cut      *)
(* where the world can move between a look and the write it leads to:      *)
(* backendFree and RegisterWriter, the chain and the request.  A pass ends *)
(* with the flush of the status, which a conflict or a crash can lose.     *)
(* ClusterClaim has the claim on the cluster, EsRestore the phase of the   *)
(* broker volumes, StorageWriter the claims of clusters on one backend,    *)
(* ServerRecovery the server.                                              *)
(***************************************************************************)
EXTENDS Naturals, FiniteSets

CONSTANTS
  Places,       \* endpoints of the server, first and after a rollback
  Home,         \* where it starts
  None,         \* no endpoint
  MaxActs,      \* bound: changes by users
  MaxLost       \* bound: flushes that are lost, crashes between two writes

ASSUME PitRestoreConstants ==
  /\ Home \in Places /\ None \notin Places
  /\ MaxActs \in Nat /\ MaxLost \in Nat

VARIABLES
  life, phase, kept,  \* the restore and its stored status
  look,         \* a pass between its look and its write
  regs,         \* backends with a writer registration of the restore
  gaveUp,       \* the grace ended a hold that a rollback could outlive
  passed,       \* the other cluster claimed the database before a registration
                \* whose look had found it free
  woken,        \* a cluster started over the database after it was read
  cluster,      \* the target
  lease,        \* who claims the database at each endpoint
  other,        \* another cluster on the same contract
  contract,     \* the DatabaseServerConfig
  server, data, \* the rollback; what the database holds at each endpoint
  acts, lost

restore == <<life, phase, kept, look, regs, gaveUp, passed, woken>>
backend == <<lease, other>>
world == <<contract, server, data>>
vars == <<restore, cluster, backend, world, acts, lost>>

-----------------------------------------------------------------------------
(* Types *)

Phases == {"Pending", "RestoringDatabase", "Validating", "Primary", "Completed", "Failed"}

NoPin == [uid |-> 0, at |-> None]

Pin == [uid : Nat, at : Places \cup {None}]

(* status.storage, status.backend, status.firstFailedAt.                   *)
Status == [pin : Pin, backend : Places \cup {None}, clock : BOOLEAN]

NoLook == [next |-> "none", pin |-> NoPin]

TypeOK ==
  /\ life \in {"absent", "alive", "deleting", "gone"}
  /\ phase \in Phases /\ kept \in Status
  /\ look \in [next : {"none", "register", "ask"}, pin : Pin]
  /\ regs \subseteq Places /\ gaveUp \in BOOLEAN /\ {passed, woken} \subseteq BOOLEAN
  /\ cluster \in [is : {"there", "gone", "replaced"}, chain : {"home", "other", "broken"},
                  suspended : BOOLEAN, run : BOOLEAN]
  /\ lease \in [Places -> {"free", "target", "other"}]
  /\ other \in {"down", "cleared", "runs"}
  /\ contract \in [uid : Nat, there : BOOLEAN, recovers : BOOLEAN, asked : BOOLEAN, ready : BOOLEAN]
  /\ server \in [at : Places, run : BOOLEAN, moved : BOOLEAN,
                 out : {"none", "Completed", "Failed", "Unavailable"}]
  /\ data \in [Places -> {"live", "point"}]
  /\ acts \in 0..MaxActs /\ lost \in 0..MaxLost

Init ==
  /\ life = "absent" /\ phase = "Pending"
  /\ kept = [pin |-> NoPin, backend |-> None, clock |-> FALSE]
  /\ look = NoLook /\ regs = {} /\ gaveUp = FALSE /\ passed = FALSE /\ woken = FALSE
  /\ cluster = [is |-> "there", chain |-> "home", suspended |-> FALSE, run |-> TRUE]
  /\ lease = [p \in Places |-> IF p = Home THEN "target" ELSE "free"]
  /\ other = "down"
  /\ contract \in {[uid |-> 1, there |-> TRUE, recovers |-> b, asked |-> FALSE, ready |-> TRUE] :
                     b \in BOOLEAN}
  /\ server = [at |-> Home, run |-> FALSE, moved |-> FALSE, out |-> "none"]
  /\ data = [p \in Places |-> "live"]
  /\ acts = 0 /\ lost = 0

Terminal == phase \in {"Completed", "Failed"}

(* The flush at the end of a pass.                                         *)
Flush(p, k) ==
  /\ look' = NoLook
  /\ \/ phase' = p /\ kept' = k /\ UNCHANGED lost
     \/ lost < MaxLost /\ lost' = lost + 1 /\ UNCHANGED <<phase, kept>>

-----------------------------------------------------------------------------
(* What a pass reads *)

(* The writer registration that every pass of a live restore renews.       *)
Registered == IF life = "alive" THEN regs \cup ({kept.backend} \ {None}) ELSE regs

(* A fault of Agrees: the endpoint of the contract is taken as it is.      *)
AgreesAnywhere(exact) == kept.pin # NoPin => contract.uid = kept.pin.uid

(* chainsAgree, for what a restore pinned.                                 *)
Agrees(exact) ==
  kept.pin # NoPin => contract.uid = kept.pin.uid /\ (exact => server.at = kept.pin.at)

(* resolve, with pinExact or with pinAcrossRecovery.                       *)
Resolve(exact) ==
  CASE cluster.is = "replaced" -> "replaced"
    [] cluster.is = "there" /\ cluster.chain = "other" /\ kept.pin # NoPin -> "changed"
    [] cluster.is = "gone" \/ cluster.chain = "broken" \/ ~contract.there -> "failure"
    [] exact /\ ~contract.ready -> "failure"
    [] ~Agrees(exact) -> "changed"
    [] cluster.chain = "other" -> "failure"
    [] OTHER -> "ok"

(* The target claims the database and no Pod writes it.                    *)
BackendFree == lease[server.at] = "target" /\ ~cluster.run /\ other # "runs"

(* pinnedContract: the contract that the restore pinned is still there.    *)
Pinned == kept.pin # NoPin /\ contract.there /\ contract.uid = kept.pin.uid

Answered == server.out # "none"

(* runningRollback.                                                        *)
Rollback ==
  CASE ~Pinned -> IF kept.pin = NoPin THEN "over" ELSE "unanswerable"
    [] Answered -> "over"
    [] ~contract.asked \/ ~contract.recovers -> "unanswerable"
    [] OTHER -> "runs"

(* followBackend: the new key is held before the old one goes.             *)
Follow == [kept EXCEPT !.backend = server.at]

FollowRegs ==
  IF kept.backend = server.at THEN Registered
  ELSE (Registered \cup {server.at}) \ {kept.backend}

-----------------------------------------------------------------------------
(* Outcomes of a pass *)

(* waiting: back to Pending, and without a backend nothing stays held.     *)
Wait(k) ==
  /\ regs' = IF k.backend = None THEN {} ELSE Registered
  /\ Flush("Pending", [k EXCEPT !.clock = FALSE])

(* A fault of HoldStarted: every failure extends the grace.                *)
HoldStartedForEver(k) == Flush(phase, [k EXCEPT !.clock = TRUE]) /\ UNCHANGED gaveUp

(* holdStarted: the mid-run grace bounds it.                               *)
HoldStarted(k) ==
  \/ Flush(phase, [k EXCEPT !.clock = TRUE]) /\ UNCHANGED gaveUp
  \/ /\ kept.clock /\ Flush("Failed", k)
     /\ gaveUp' = (gaveUp \/ (phase = "RestoringDatabase" /\ phase' = "Failed"))

(* holdForRollback, while the rollback runs or can run.                    *)
HoldForRollback ==
  /\ Rollback # "over"
  /\ LET k == IF Pinned THEN Follow ELSE kept IN
     /\ regs' = IF Pinned THEN FollowRegs ELSE Registered
     /\ IF Rollback = "runs" THEN Flush(phase, k) /\ UNCHANGED gaveUp ELSE HoldStarted(k)

Fail(k) == Flush("Failed", k) /\ UNCHANGED gaveUp

(* A pass of the restore in a phase; it writes nothing outside.            *)
In(p) == life = "alive" /\ phase = p /\ look = NoLook

OnlyStatus == UNCHANGED <<life, passed, woken, cluster, backend, world, acts>>

-----------------------------------------------------------------------------
(* Pending *)

(* A rule of admission that does not hold: the chain, the rules of the     *)
(* server, the clock of the brokers, the claim, the suspension.            *)
Waits == In("Pending") /\ Wait(kept) /\ UNCHANGED gaveUp /\ OnlyStatus

AdmitFails ==
  /\ In("Pending") /\ Resolve(TRUE) \in {"replaced", "changed"}
  /\ regs' = Registered /\ Fail(kept) /\ OnlyStatus

(* Prepare: the hold on the cluster and spec.suspend.                      *)
Suspends ==
  /\ In("Pending") /\ Resolve(TRUE) = "ok"
  /\ cluster' = [cluster EXCEPT !.suspended = TRUE]
  /\ Wait(kept)
  /\ UNCHANGED <<life, gaveUp, passed, woken, backend, world, acts>>

(* What a database read can answer, in the phase p of the restore.         *)
Read(k) ==
  \/ /\ data[server.at] = "point" /\ regs' = Registered
     /\ Flush("Primary", [k EXCEPT !.clock = FALSE]) /\ UNCHANGED gaveUp
  \/ data[server.at] = "live" /\ Wait(k) /\ UNCHANGED gaveUp

(* The database cannot be read.                                            *)
Unread(k) ==
  /\ regs' = Registered
  /\ \/ Flush("Validating", [k EXCEPT !.clock = TRUE]) /\ UNCHANGED gaveUp
     \/ k.clock /\ Fail(k)

Admitted == Resolve(TRUE) = "ok" /\ cluster.suspended /\ BackendFree

Here == [uid |-> contract.uid, at |-> server.at]

(* A contract that declares external: the database is read as it stands.   *)
AdmitExternal ==
  /\ In("Pending") /\ Admitted /\ ~contract.recovers
  /\ LET k == [kept EXCEPT !.pin = Here] IN Read(k) \/ Unread(k)
  /\ OnlyStatus

(* A contract that rolls its server back: first the look at the backend... *)
AdmitOperator ==
  /\ In("Pending") /\ Admitted /\ contract.recovers
  /\ regs' = Registered /\ look' = [next |-> "register", pin |-> Here]
  /\ UNCHANGED <<phase, kept, gaveUp, lost>> /\ OnlyStatus

(* ... then the registration on it.                                        *)
Register ==
  /\ look.next = "register"
  /\ regs' = regs \cup {look.pin.at}
  /\ Flush("RestoringDatabase", [kept EXCEPT !.pin = look.pin, !.backend = look.pin.at])
  /\ passed' = (passed \/ other # "down" \/ lease[server.at] = "other")
  /\ UNCHANGED <<gaveUp, woken, life, cluster, backend, world, acts>>

-----------------------------------------------------------------------------
(* RestoringDatabase *)

(* targetGone, errClusterReplaced, errChainChanged.                        *)
Lost == cluster.is # "there" \/ Resolve(FALSE) \in {"replaced", "changed"}

TargetLost ==
  /\ In("RestoringDatabase") /\ Lost
  /\ HoldForRollback \/ (Rollback = "over" /\ regs' = Registered /\ Fail(kept))
  /\ OnlyStatus

(* A contract that is gone can never answer the request.                   *)
Unresolved ==
  /\ In("RestoringDatabase") /\ ~Lost /\ Resolve(FALSE) = "failure"
  /\ IF ~Pinned THEN regs' = Registered /\ HoldStarted(kept)
     ELSE /\ regs' = FollowRegs
          /\ IF Answered THEN HoldStarted(Follow) ELSE Flush(phase, Follow) /\ UNCHANGED gaveUp
  /\ OnlyStatus

Resolved == In("RestoringDatabase") /\ ~Lost /\ Resolve(FALSE) = "ok"

(* The brokers must stay down for the whole rollback.                      *)
Awake ==
  /\ Resolved /\ ~cluster.suspended
  /\ HoldForRollback \/ (Rollback = "over" /\ regs' = FollowRegs /\ HoldStarted(Follow))
  /\ OnlyStatus

Asleep == Resolved /\ cluster.suspended

NoLongerRecovers ==
  /\ Asleep /\ ~contract.recovers
  /\ regs' = FollowRegs /\ Flush(phase, Follow) /\ UNCHANGED gaveUp /\ OnlyStatus

(* recoveryAnswered.                                                       *)
ReadAnswer ==
  /\ Asleep /\ contract.recovers /\ Answered
  /\ regs' = FollowRegs
  /\ CASE server.out # "Completed" -> Fail(Follow)
       [] server.out = "Completed" /\ ~(contract.ready /\ BackendFree) ->
            Flush(phase, Follow) /\ UNCHANGED gaveUp
       [] OTHER -> /\ Flush("Validating", [Follow EXCEPT !.pin = Here, !.clock = FALSE])
                   /\ UNCHANGED gaveUp
  /\ OnlyStatus

(* The pass that asks, up to the apply of the request...                   *)
GoOnToAsk ==
  /\ Asleep /\ contract.recovers /\ ~Answered
  /\ regs' = FollowRegs
  /\ IF contract.asked
     THEN Flush(phase, Follow)
     ELSE look' = [next |-> "ask", pin |-> Here] /\ UNCHANGED <<phase, kept, lost>>
  /\ UNCHANGED gaveUp /\ OnlyStatus

(* ... which names the contract and not its identity.                      *)
AskForRecovery ==
  /\ look.next = "ask"
  /\ contract' = [contract EXCEPT !.asked = @ \/ contract.there]
  /\ Flush(phase, [kept EXCEPT !.backend = look.pin.at])
  /\ UNCHANGED <<life, regs, gaveUp, passed, woken, cluster, backend, server, data, acts>>

-----------------------------------------------------------------------------
(* Validating, Primary, the end *)

(* Both phases hold on a chain or a cluster that is not as it was.         *)
Broken == Resolve(TRUE) = "failure" \/ (Resolve(TRUE) = "ok" /\ ~cluster.suspended)

HoldLate ==
  /\ In("Validating") \/ In("Primary")
  /\ regs' = Registered
  /\ \/ Broken /\ HoldStarted(kept)
     \/ Resolve(TRUE) \in {"replaced", "changed"} /\ Fail(kept)
  /\ OnlyStatus

Whole == Resolve(TRUE) = "ok" /\ cluster.suspended

Validate == In("Validating") /\ Whole /\ (Read(kept) \/ Unread(kept)) /\ OnlyStatus

(* restorePrimaryStorage empties the volumes and runs the Jobs over them.  *)
RestorePrimary ==
  /\ In("Primary") /\ Whole
  /\ regs' = Registered
  /\ \E p \in {"Primary", "Completed", "Failed"} : Flush(p, kept)
  /\ UNCHANGED gaveUp /\ OnlyStatus

(* The terminal branch; a completed restore resumes its cluster.           *)
Finish ==
  /\ life = "alive" /\ Terminal /\ look = NoLook
  /\ regs' = {}
  /\ cluster' = [cluster EXCEPT !.suspended = @ /\ phase = "Failed"]
  /\ UNCHANGED <<life, phase, kept, look, gaveUp, passed, woken, backend, world, acts, lost>>

(* A fault of MustHold: only a rollback that can be answered is waited for.*)
MustHoldForAnswer == phase = "RestoringDatabase" /\ Rollback = "runs"

(* A deleted restore outlives the rollback that it asked for.              *)
MustHold == phase = "RestoringDatabase" /\ Rollback # "over"

HoldDeletion ==
  /\ life = "deleting" /\ look = NoLook /\ MustHold
  /\ HoldForRollback /\ phase' # "Failed"
  /\ OnlyStatus

(* A fault of Finalize: only the backend of the status is released.        *)
FinalizeRecorded ==
  /\ life = "deleting" /\ look = NoLook /\ ~MustHold
  /\ life' = "gone" /\ regs' = regs \ {kept.backend}
  /\ UNCHANGED <<phase, kept, look, gaveUp, passed, woken, cluster, backend, world, acts, lost>>

(* A fault of Finalize: it waits for the contract to come back.            *)
FinalizeAnswered ==
  /\ life = "deleting" /\ look = NoLook /\ ~MustHold
  /\ life' = "gone" /\ regs' = {}
  /\ UNCHANGED <<phase, kept, look, gaveUp, passed, woken, cluster, backend, world, acts, lost>>

(* The grace fails the restore, and the pass goes on to FinalizeHold.      *)
Finalize ==
  /\ life = "deleting" /\ look = NoLook
  /\ \/ ~MustHold /\ UNCHANGED gaveUp
     \/ MustHold /\ Rollback = "unanswerable" /\ kept.clock /\ gaveUp' = TRUE
  /\ life' = "gone" /\ regs' = {}
  /\ UNCHANGED <<phase, kept, look, passed, woken, cluster, backend, world, acts, lost>>

(* The operator stops between the two writes of a pass.                    *)
Crash ==
  /\ look # NoLook /\ look' = NoLook
  /\ lost < MaxLost /\ lost' = lost + 1
  /\ UNCHANGED <<life, phase, kept, regs, gaveUp, passed, woken, cluster, backend, world, acts>>

-----------------------------------------------------------------------------
(* Clusters *)

OnlyBackend == UNCHANGED <<restore, world, lost>>

(* Somebody starts to write where the server is.                           *)
Starts ==
  /\ data' = [data EXCEPT ![server.at] = "live"]
  /\ woken' = (woken \/ phase = "Primary")
  /\ UNCHANGED <<life, phase, kept, look, regs, gaveUp, passed, lease, contract, server, acts, lost>>

(* The brokers of the target write where the server is.                    *)
ScaleUp ==
  /\ cluster.is = "there" /\ cluster.chain = "home" /\ ~cluster.suspended /\ ~cluster.run
  /\ lease[server.at] = "target" /\ other # "runs"
  /\ cluster' = [cluster EXCEPT !.run = TRUE]
  /\ Starts /\ UNCHANGED other

ScaleDown ==
  /\ cluster.run /\ (cluster.suspended \/ cluster.chain = "other" \/ cluster.is # "there")
  /\ cluster' = [cluster EXCEPT !.run = FALSE]
  /\ UNCHANGED <<backend, acts>> /\ OnlyBackend

(* A suspended cluster claims as well; the registration for it is its own. *)
TargetClaims ==
  /\ cluster.is = "there" /\ cluster.chain = "home" /\ contract.there
  /\ lease[server.at] = "free" /\ other # "runs"
  /\ lease' = [lease EXCEPT ![server.at] = "target"]
  /\ UNCHANGED <<cluster, other, acts>> /\ OnlyBackend

TargetLeaves(p) ==
  /\ cluster.is = "there" /\ lease[p] = "target" /\ ~cluster.run
  /\ cluster.chain = "other" \/ (cluster.chain = "home" /\ contract.there /\ p # server.at)
  /\ lease' = [lease EXCEPT ![p] = "free"]
  /\ UNCHANGED <<cluster, other, acts>> /\ OnlyBackend

(* A fault of Live: a registration counts on the backend it names.         *)
LiveByKey(p) == p \in regs

(* storagewriter.Live: a registration counts on the backend it names, and  *)
(* on every backend of the contract that it names.                         *)
Live(p) == regs # {}

(* The other cluster takes a free Lease that nobody writes, or the Lease   *)
(* of a target that is gone.                                               *)
OtherClaims ==
  /\ contract.there
  /\ \/ lease[server.at] = "free" /\ ~Live(server.at) /\ ~cluster.run
     \/ lease[server.at] = "target" /\ cluster.is # "there"
  /\ lease' = [lease EXCEPT ![server.at] = "other"]
  /\ UNCHANGED <<cluster, other, acts>> /\ OnlyBackend

(* Its pass lists the writers, then renders its workload.                  *)
OtherLooks ==
  /\ lease[server.at] = "other" /\ other = "down" /\ ~Live(server.at) /\ ~cluster.run
  /\ other' = "cleared"
  /\ UNCHANGED <<cluster, lease, acts>> /\ OnlyBackend

OtherStarts ==
  /\ other = "cleared" /\ other' = "runs"
  /\ Starts /\ UNCHANGED cluster

OtherLeaves ==
  /\ other = "runs" /\ other' = "down" /\ acts < MaxActs /\ acts' = acts + 1
  /\ lease' = [p \in Places |-> IF lease[p] = "other" THEN "free" ELSE lease[p]]
  /\ UNCHANGED cluster /\ OnlyBackend

-----------------------------------------------------------------------------
(* The server and its contract *)

OnlyServer == UNCHANGED <<restore, cluster, backend, acts, lost>>

Accept ==
  /\ contract.there /\ contract.asked /\ contract.recovers /\ ~Answered /\ ~server.run
  /\ server' = [server EXCEPT !.run = TRUE]
  /\ UNCHANGED <<contract, data>> /\ OnlyServer

Refuse ==
  /\ contract.there /\ contract.asked /\ contract.recovers /\ ~Answered /\ ~server.run
  /\ server' = [server EXCEPT !.out = "Unavailable"]
  /\ UNCHANGED <<contract, data>> /\ OnlyServer

(* The contract moves to the instance that holds the requested point.      *)
CutOver(p) ==
  /\ server.run /\ ~server.moved /\ p # server.at
  /\ server' = [server EXCEPT !.at = p, !.moved = TRUE]
  /\ contract' = [contract EXCEPT !.ready = FALSE]
  /\ data' = [data EXCEPT ![p] = "point"]
  /\ OnlyServer

(* The server runs what it accepted, whatever the contract says by then.   *)
Answer ==
  /\ server.run
  /\ server' = [server EXCEPT !.run = FALSE, !.out = IF server.moved THEN "Completed" ELSE "Failed"]
  /\ UNCHANGED <<contract, data>> /\ OnlyServer

Probe ==
  /\ contract.there /\ ~contract.ready
  /\ contract' = [contract EXCEPT !.ready = TRUE]
  /\ UNCHANGED <<server, data>> /\ OnlyServer

(* The contract is published again under its name.                         *)
Republish ==
  /\ ~contract.there
  /\ contract' = [contract EXCEPT !.uid = @ + 1, !.there = TRUE, !.asked = FALSE, !.ready = FALSE]
  /\ UNCHANGED <<server, data>> /\ OnlyServer

-----------------------------------------------------------------------------
(* Users *)

Submit ==
  /\ life = "absent" /\ life' = "alive"
  /\ UNCHANGED <<phase, kept, look, regs, gaveUp, passed, woken, cluster, backend, world, acts, lost>>

Delete ==
  /\ life = "alive" /\ life' = "deleting"
  /\ UNCHANGED <<phase, kept, look, regs, gaveUp, passed, woken, cluster, backend, world, acts, lost>>

Act == acts < MaxActs /\ acts' = acts + 1

ChangeContract ==
  /\ contract.there /\ Act
  /\ contract' \in {[contract EXCEPT !.there = FALSE], [contract EXCEPT !.recovers = ~@],
                    [contract EXCEPT !.asked = FALSE], [contract EXCEPT !.ready = FALSE]}
  /\ UNCHANGED <<restore, cluster, backend, server, data, lost>>

(* A cluster is replaced once the restore knows which one it restores.     *)
ChangeCluster ==
  /\ cluster.is = "there" \/ cluster.is = "gone"
  /\ look # NoLook \/ kept.pin # NoPin
  /\ Act
  /\ IF cluster.is = "gone" THEN cluster' = [cluster EXCEPT !.is = "replaced"]
     ELSE cluster' \in {[cluster EXCEPT !.is = "gone"], [cluster EXCEPT !.suspended = ~@]}
                  \cup {[cluster EXCEPT !.chain = c] : c \in {"home", "other", "broken"} \ {cluster.chain}}
  /\ UNCHANGED <<backend, restore, world, lost>>

(* An administrator repoints the server, or rolls it back by hand.         *)
ChangeServer ==
  /\ ~server.run /\ Act
  /\ \/ /\ \E p \in Places \ {server.at} : server' = [server EXCEPT !.at = p]
        /\ contract' = [contract EXCEPT !.ready = FALSE] /\ UNCHANGED data
     \/ data' = [data EXCEPT ![server.at] = "point"] /\ ~cluster.run /\ other # "runs"
        /\ UNCHANGED <<contract, server>>
  /\ UNCHANGED <<restore, cluster, backend, lost>>

-----------------------------------------------------------------------------

Pass ==
  \/ Waits \/ AdmitFails \/ Suspends \/ AdmitExternal \/ AdmitOperator \/ Register
  \/ TargetLost \/ Unresolved \/ Awake \/ NoLongerRecovers \/ ReadAnswer \/ GoOnToAsk
  \/ AskForRecovery \/ HoldLate \/ Validate \/ RestorePrimary \/ Finish
  \/ HoldDeletion \/ Finalize

Producer == Accept \/ Refuse \/ Answer \/ Probe \/ Republish \/ \E p \in Places : CutOver(p)

Clusters ==
  \/ ScaleUp \/ ScaleDown \/ TargetClaims \/ OtherClaims \/ OtherLooks \/ OtherStarts \/ OtherLeaves
  \/ \E p \in Places : TargetLeaves(p)

Users == Submit \/ Delete \/ ChangeContract \/ ChangeCluster \/ ChangeServer

Next == Pass \/ Crash \/ Producer \/ Clusters \/ Users

Spec == Init /\ [][Next]_vars

(* The requeues bring every pass back; the server answers what it accepts; *)
(* a suspended cluster claims its database on its own passes.              *)
FairSpec == Spec /\ WF_vars(Pass) /\ WF_vars(Producer) /\ WF_vars(TargetClaims)

-----------------------------------------------------------------------------
(* Properties.                                                             *)

(* While the server rolls back, the restore holds the database.            *)
RollbackIsCovered == server.run => regs # {} \/ gaveUp

(* The server never rolls back under another cluster, and while it does no *)
(* other cluster writes the database, but one that passed its look before. *)
RolledBackAlone ==
  other = "runs" /\ server.run => gaveUp \/ passed

(* The volumes are only emptied over a database that was read at its point,*)
(* unless brokers started since.                                           *)
ErasesOnlyMatched ==
  [][RestorePrimary => woken \/ data[server.at] = "point"]_vars

(* A restore that is gone leaves no registration.                          *)
GoneLeavesNoWriter == life = "gone" => regs = {}

(* A deleted restore goes.                                                 *)
DeletionEnds == life = "deleting" ~> life = "gone"

(* A restore whose references resolve, and whose database nobody else has, *)
(* leaves RestoringDatabase.                                               *)
Unhindered ==
  /\ cluster.chain # "broken" /\ contract.recovers /\ ~cluster.run
  /\ lease[server.at] # "other" /\ other # "runs"

RollbackEnds ==
  <>[]Unhindered => (phase = "RestoringDatabase" ~> phase # "RestoringDatabase" \/ life = "gone")
=============================================================================
