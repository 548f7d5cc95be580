--------------------------- MODULE ServerRecovery ---------------------------
(***************************************************************************)
(* The rollback of a DatabaseServer to a point in time:                    *)
(* internal/controller/databaseserver/recovery.go, inside the Reconcile of *)
(* that controller.  A consumer writes a request on the published          *)
(* DatabaseServerConfig (the contract).  The server builds a second        *)
(* CloudNativePG cluster from its archive, moves the contract to it,       *)
(* answers on the contract, and removes the cluster it replaced.           *)
(*                                                                         *)
(* A pass reads the server live and works on a copy.  The recovery acts at *)
(* once, the components then apply the cluster and the contract, and the   *)
(* status is written last, if it is written at all.  Users, CloudNativePG  *)
(* and other owners act between the three.                                 *)
(***************************************************************************)
EXTENDS Integers

CONSTANTS
  Requests,      \* the rollbacks that are ever asked for
  NoRequest,     \* no request
  MaxArchives,   \* bound: archives that the history records
  MaxServerActs, \* bound: what users and other owners do, suspensions included
  MaxFaults      \* bound: clusters that fail, writes that fail, crashes

ASSUME ServerRecoveryConstants ==
  /\ NoRequest \notin Requests \cup {"orig", "empty"}
  /\ MaxArchives \in Nat \ {0} /\ MaxServerActs \in Nat /\ MaxFaults \in Nat

VARIABLES
  status,     \* the stored status of the server
  copy,       \* the copy that the pass works on
  pc,         \* how far the pass is
  stale,      \* the server was written since the pass read it
  suspended,  \* spec.suspend
  config,     \* the contract: the published DatabaseServerConfig
  object,     \* the CloudNativePG cluster under each name
  asked,      \* the requests written so far
  base,       \* the data that the server owes its consumers
  spoiled,    \* somebody else destroyed that data
  inherited,  \* requests started under the name of a cluster that stands
  serverActs, faults

serverVars == <<status, copy, pc, stale, suspended, config, object, asked, base, spoiled, inherited, serverActs, faults>>

-----------------------------------------------------------------------------
(* Types.  Name 0 is the name of the server, name n the suffix -r<n>.      *)

Names == 0..(MaxArchives + 1)

NoName == -1

Results == {"Completed", "Failed", "Unavailable"}

Points == {"orig", "empty"} \cup Requests

Record == [req: Requests \cup {NoRequest}, cluster: Names \cup {NoName}, prev: Names \cup {NoName},
           done: BOOLEAN, result: Results]

(* status.recovery before any request.                                     *)
NoRecord == [req |-> NoRequest, cluster |-> NoName, prev |-> NoName, done |-> TRUE,
             result |-> "Failed"]

(* archives is len(status.archive.history), open the cluster of its open   *)
(* record.                                                                 *)
ServerStatus == [cluster: Names, rec: Record, archives: 1..MaxArchives, open: Names \cup {NoName}]

Outcome == [req: Requests \cup {NoRequest}, result: Results]

NoOutcome == [req |-> NoRequest, result |-> "Failed"]

(* probed: the contract controller reached the server for this generation. *)
Contract == [there: BOOLEAN, host: Names, probed: BOOLEAN, req: Requests \cup {NoRequest},
             out: Outcome]

NoContract == [there |-> FALSE, host |-> 0, probed |-> FALSE, req |-> NoRequest, out |-> NoOutcome]

Object == [owner: {"none", "server", "other"}, state: {"building", "healthy", "failing"},
           going: BOOLEAN, holds: Points]

Absent == [owner |-> "none", state |-> "building", going |-> FALSE, holds |-> "empty"]

ServerTypeOK ==
  /\ status \in ServerStatus /\ copy \in ServerStatus
  /\ pc \in {"idle", "components", "flush"}
  /\ stale \in BOOLEAN /\ suspended \in BOOLEAN
  /\ config \in Contract
  /\ object \in [Names -> Object]
  /\ asked \subseteq Requests
  /\ base \in Points /\ spoiled \in BOOLEAN /\ inherited \subseteq Requests
  /\ serverActs \in 0..MaxServerActs /\ faults \in 0..MaxFaults

(* A server that runs, archives, and publishes its contract.               *)
ServerInit ==
  /\ status = [cluster |-> 0, rec |-> NoRecord, archives |-> 1, open |-> 0]
  /\ copy = status /\ pc = "idle" /\ stale = FALSE /\ suspended = FALSE
  /\ config = [NoContract EXCEPT !.there = TRUE, !.probed = TRUE]
  /\ object = [n \in Names |-> IF n = 0 THEN [owner |-> "server", state |-> "healthy",
                                              going |-> FALSE, holds |-> "orig"]
                                        ELSE Absent]
  /\ asked = {} /\ base = "orig" /\ spoiled = FALSE /\ inherited = {}
  /\ serverActs = 0 /\ faults = 0

-----------------------------------------------------------------------------
(* What the code derives from a status.                                    *)

Running(s) == ~s.rec.done

PendingRequest(s) == IF Running(s) THEN s.rec.req ELSE config.req

RecoveryAnswered(s, r) == s.rec.req = r /\ s.rec.done

Published(r) == config.out.req = r

IsCutOver(s) == Running(s) /\ s.rec.cluster = s.cluster

RecoveryClusterName(s) == IF s.archives = s.cluster THEN s.archives + 1 ELSE s.archives

Owned(n) == object[n].owner = "server"

Superseded(s) == {n \in Names : n # s.cluster /\ Owned(n) /\ ~object[n].going}

(* closeArchiveRecord, for the cluster a recovery replaced.                *)
CloseArchive(s, n) == [s EXCEPT !.open = IF @ = n THEN NoName ELSE @]

(* The pass goes on with m as its copy.  A suspended server applies none   *)
(* of its components.                                                      *)
Continue(m) ==
  /\ copy' = m
  /\ pc' = IF suspended THEN "flush" ELSE "components"

(* The pass fails with m as its copy, which the deferred flush writes.     *)
Stop(m) == copy' = m /\ pc' = "flush"

(* The operator stops in the middle of the recovery.                       *)
Halt == UNCHANGED copy /\ pc' = "idle"

Fault == faults < MaxFaults /\ faults' = faults + 1

(* publishRecoveryOutcome: every change of the spec moves the generation,  *)
(* so the probe of the contract is out of date.                            *)
Publish(r, result) ==
  /\ config' = [config EXCEPT !.out = [req |-> r, result |-> result], !.probed = FALSE]
  /\ base' = IF result = "Completed" THEN object[config.host].holds ELSE base

(* The deletes of one look: all of them, or some and an error.             *)
CleanUp(m) ==
  \E gone \in SUBSET Superseded(m) :
    /\ object' = [n \in Names |-> IF n \in gone THEN [object[n] EXCEPT !.going = TRUE]
                                                ELSE object[n]]
    /\ IF gone = Superseded(m) THEN Continue(m) /\ UNCHANGED faults ELSE (Stop(m) \/ Halt) /\ Fault

AnsweredAs(s, result) == [s.rec EXCEPT !.done = TRUE, !.result = result]

-----------------------------------------------------------------------------
(* reconcileRecovery.  Each action starts a pass.  The definitions that end*)
(* in InPlace, Never, Only, PastCutover and Once are the mutants that the  *)
(* properties are tried on.                                                *)

Look(r) ==
  /\ pc = "idle" /\ stale' = FALSE
  /\ config.there /\ PendingRequest(status) = r /\ r # NoRequest
  /\ UNCHANGED <<suspended, asked, spoiled, serverActs>>

NothingAsked ==
  /\ pc = "idle" /\ stale' = FALSE
  /\ ~config.there \/ PendingRequest(status) = NoRequest
  /\ Continue(status)
  /\ UNCHANGED <<status, suspended, config, object, asked, base, spoiled, inherited, serverActs, faults>>

(* An answer that the server recorded is published again on a contract     *)
(* that lost it, and what the recovery left is removed.                    *)
ReadRecordedAnswer(r) ==
  /\ Look(r) /\ RecoveryAnswered(status, r)
  /\ config' = IF Published(r) THEN config
                 ELSE [config EXCEPT !.out = [req |-> r, result |-> status.rec.result],
                                       !.probed = FALSE]
  /\ CleanUp(status)
  /\ UNCHANGED <<status, base>>

(* recordPublishedOutcome: the cluster of a Completed answer is the one    *)
(* the contract names, and a Failed one past the cutover goes back.        *)
RecordPublishedInPlace(s, r) ==
  [s EXCEPT !.rec = IF s.rec.req = r THEN AnsweredAs(s, config.out.result)
                    ELSE [NoRecord EXCEPT !.req = r, !.result = config.out.result]]

RecordPublished(s, r) ==
  LET rec  == IF s.rec.req = r THEN AnsweredAs(s, config.out.result)
              ELSE [NoRecord EXCEPT !.req = r, !.result = config.out.result]
      host == config.host
      back == s.rec.req = r /\ s.rec.cluster = s.cluster /\ s.rec.prev # NoName
  IN CASE config.out.result = "Completed" ->
            LET m == CloseArchive([s EXCEPT !.rec = rec], rec.prev)
            IN IF host # s.cluster /\ Owned(host)
               THEN [m EXCEPT !.cluster = host, !.rec.cluster = host] ELSE m
       [] config.out.result = "Failed" /\ back ->
            [s EXCEPT !.cluster = s.rec.prev, !.rec = [rec EXCEPT !.cluster = NoName]]
       [] OTHER -> [s EXCEPT !.rec = rec]

ReadPublishedAnswer(r) ==
  /\ Look(r) /\ ~RecoveryAnswered(status, r) /\ Published(r)
  /\ CleanUp(RecordPublished(status, r))
  /\ UNCHANGED <<status, config, base>>

Unanswered(r) == Look(r) /\ ~RecoveryAnswered(status, r) /\ ~Published(r)

(* answerRecovery, for a refusal whose publication can fail.  m is the     *)
(* copy as the caller left it.                                             *)
AnswerRecovery(m, r, result) ==
  \/ /\ Publish(r, result)
     /\ Continue([m EXCEPT !.rec = IF m.rec.req = r THEN AnsweredAs(m, result)
                                   ELSE [NoRecord EXCEPT !.req = r, !.result = result]])
     /\ UNCHANGED faults
  \/ Stop(m) /\ Fault /\ UNCHANGED <<config, base>>

(* recoverySource: a suspended server refuses.  The archive can turn       *)
(* unreadable, or the point leave its reach, at any look.                  *)
RefuseRecovery(r) ==
  /\ Unanswered(r) /\ ~IsCutOver(status)
  /\ \/ suspended /\ AnswerRecovery(status, r, "Failed")
     \/ ~suspended /\ AnswerRecovery(status, r, "Unavailable")
  /\ UNCHANGED <<status, object>>

(* The record goes in before anything is built.                            *)
Start(r) ==
  /\ Unanswered(r) /\ ~IsCutOver(status) /\ ~suspended /\ status.rec.req # r
  /\ Continue([status EXCEPT !.rec = [req |-> r, cluster |-> RecoveryClusterName(status),
                                      prev |-> NoName, done |-> FALSE, result |-> "Failed"]])
  /\ LET n == RecoveryClusterName(status) IN
       inherited' = IF Owned(n) /\ ~object[n].going THEN inherited \cup {r} ELSE inherited
  /\ UNCHANGED <<status, config, object, base, faults>>

Advancing(r, n) ==
  /\ Unanswered(r) /\ ~IsCutOver(status) /\ ~suspended
  /\ status.rec.req = r /\ status.rec.cluster = n
  /\ UNCHANGED status

(* The read of a cluster without a name is an error.                       *)
AdvanceNameless(r) ==
  /\ Advancing(r, NoName)
  /\ Stop(status)
  /\ UNCHANGED <<config, object, base, faults>>

Create(r, n) ==
  /\ Advancing(r, n) /\ object[n].owner = "none"
  /\ object' = [object EXCEPT ![n] = [owner |-> "server", state |-> "building",
                                      going |-> FALSE, holds |-> r]]
  /\ Continue(status)
  /\ UNCHANGED <<config, base, faults>>

(* A cluster that is going counts as gone, whoever owns it.                *)
WaitForCluster(r, n) ==
  /\ Advancing(r, n) /\ object[n].owner # "none"
  /\ object[n].going \/ (Owned(n) /\ object[n].state = "building")
  /\ Continue(status)
  /\ UNCHANGED <<config, object, base, faults>>

RefuseTakenName(r, n) ==
  /\ Advancing(r, n) /\ object[n].owner = "other" /\ ~object[n].going
  /\ AnswerRecovery([status EXCEPT !.rec.cluster = NoName], r, "Failed")
  /\ UNCHANGED object

RefuseFailingNever(r, n) ==
  /\ Advancing(r, n) /\ Owned(n) /\ ~object[n].going /\ object[n].state = "failing"
  /\ Continue(status)
  /\ UNCHANGED <<config, object, base, faults>>

RefuseFailing(r, n) ==
  /\ Advancing(r, n) /\ Owned(n) /\ ~object[n].going /\ object[n].state = "failing"
  /\ AnswerRecovery(status, r, "Failed")
  /\ UNCHANGED object

MoveOverOnly(r, n) ==
  /\ Advancing(r, n) /\ Owned(n) /\ ~object[n].going /\ object[n].state = "healthy"
  /\ Continue([status EXCEPT !.cluster = n])
  /\ UNCHANGED <<config, object, base, faults>>

MoveOver(r, n) ==
  /\ Advancing(r, n) /\ Owned(n) /\ ~object[n].going /\ object[n].state = "healthy"
  /\ Continue([status EXCEPT !.rec.prev = status.cluster, !.cluster = n])
  /\ UNCHANGED <<config, object, base, faults>>

-----------------------------------------------------------------------------
(* completeRecovery and abandonRecovery, past the cutover.                 *)

Completing(r) == Unanswered(r) /\ IsCutOver(status)

Serves(n) == Owned(n) /\ ~object[n].going /\ object[n].state # "failing"

(* The server goes back to the cluster it came from.  The move is recorded *)
(* at once, unless that write fails or the operator stops before it.       *)
Abandon(r) ==
  /\ Completing(r) /\ ~Serves(status.cluster)
  /\ LET m == [status EXCEPT !.cluster = status.rec.prev, !.rec.cluster = NoName] IN
       \/ /\ Publish(r, "Failed")
          /\ LET a == [m EXCEPT !.rec = AnsweredAs(m, "Failed")] IN
               \/ Continue(a) /\ status' = a /\ UNCHANGED faults
               \/ (Stop(a) \/ Halt) /\ Fault /\ UNCHANGED status
       \/ Stop(m) /\ Fault /\ UNCHANGED <<status, config, base>>
  /\ UNCHANGED object

(* The contract is republished from status.cluster and then probed.        *)
WaitForContract(r) ==
  /\ Completing(r) /\ Serves(status.cluster)
  /\ config.host # status.cluster \/ ~config.probed
  /\ Continue(status)
  /\ UNCHANGED <<status, config, object, base, faults>>

Complete(r) ==
  /\ Completing(r) /\ Serves(status.cluster)
  /\ config.host = status.cluster /\ config.probed
  /\ LET m == CloseArchive(status, status.rec.prev) IN
       \/ Publish(r, "Completed") /\ CleanUp([m EXCEPT !.rec = AnsweredAs(m, "Completed")])
       \/ Stop(m) /\ Fault /\ UNCHANGED <<config, object, base>>
  /\ UNCHANGED status

-----------------------------------------------------------------------------
(* The components, and the status write at the end of the pass.            *)

(* The cluster component applies the cluster of the derived name without a *)
(* bootstrap: under a free name that is an empty database.  It applies     *)
(* nothing over the cluster of another owner, nor under the name of a      *)
(* cluster that a cutover lost.                                            *)
ApplyClusterPastCutover ==
  object' = IF object[copy.cluster].owner = "none"
            THEN [object EXCEPT ![copy.cluster] =
                    [owner |-> "server", state |-> "building", going |-> FALSE, holds |-> "empty"]]
            ELSE object

ApplyCluster ==
  object' = IF object[copy.cluster].owner = "none" /\ ~IsCutOver(copy)
            THEN [object EXCEPT ![copy.cluster] =
                    [owner |-> "server", state |-> "building", going |-> FALSE, holds |-> "empty"]]
            ELSE object

(* The contract waits for the superuser Secret that comes with the cluster.*)
(* It is withdrawn from a name of another owner, except past a cutover.    *)
ApplyContractOnce ==
  config' = IF config.there THEN config
              ELSE [NoContract EXCEPT !.there = TRUE, !.host = copy.cluster]

ApplyContract ==
  LET n == copy.cluster IN
  config' = CASE object[n].owner = "other" /\ ~IsCutOver(copy) -> NoContract
                [] object'[n].owner = "none" -> config
                [] OTHER -> [config EXCEPT !.there = TRUE, !.host = n,
                               !.probed = @ /\ config.there /\ config.host = n]

(* reconcileArchiveHistory: the base backup of the cluster is there.       *)
RecordArchive ==
  LET n == copy.cluster IN
  \/ copy' = copy
  \/ /\ Owned(n) /\ object[n].state = "healthy" /\ ~object[n].going
     /\ copy.open # n /\ copy.archives < MaxArchives
     /\ copy' = [copy EXCEPT !.archives = @ + 1, !.open = n]

Components ==
  /\ pc = "components" /\ pc' = "flush"
  /\ ApplyCluster /\ ApplyContract /\ RecordArchive
  /\ UNCHANGED <<status, stale, suspended, asked, base, spoiled, inherited, serverActs, faults>>

(* A write over a server that changed since the read conflicts.            *)
FlushStatus ==
  /\ pc = "flush" /\ pc' = "idle"
  /\ status' = IF stale THEN status ELSE copy
  /\ UNCHANGED <<copy, stale, suspended, config, object, asked, base, spoiled, inherited, serverActs, faults>>

(* The operator stops, or the status write fails.                          *)
OperatorStops ==
  /\ pc # "idle" /\ pc' = "idle" /\ Fault
  /\ UNCHANGED <<status, copy, stale, suspended, config, object, asked, base, spoiled, inherited, serverActs>>

-----------------------------------------------------------------------------
(* Consumers, users, CloudNativePG, the contract controller.               *)

UserAct == serverActs < MaxServerActs /\ serverActs' = serverActs + 1

(* A consumer writes its request over whatever request is there, and again *)
(* on a contract that was replaced.                                        *)
Ask(r) ==
  /\ config.there /\ (r \notin asked \/ config.req = NoRequest)
  /\ config' = [config EXCEPT !.req = r, !.probed = FALSE]
  /\ asked' = asked \cup {r}
  /\ UNCHANGED <<status, copy, pc, stale, suspended, object, base, spoiled, inherited, serverActs, faults>>

ToggleSuspend ==
  /\ suspended \/ serverActs < MaxServerActs
  /\ serverActs' = IF suspended THEN serverActs ELSE serverActs + 1
  /\ suspended' = ~suspended /\ stale' = TRUE
  /\ UNCHANGED <<status, copy, pc, config, object, asked, base, spoiled, inherited, faults>>

DeleteContract ==
  /\ config.there /\ UserAct /\ config' = NoContract
  /\ UNCHANGED <<status, copy, pc, stale, suspended, object, asked, base, spoiled, inherited, faults>>

Change(n, o) ==
  /\ object' = [object EXCEPT ![n] = o]
  /\ UNCHANGED <<status, copy, pc, stale, suspended, config, asked, base, inherited>>

Spoils(n) == spoiled' = (spoiled \/ (Owned(n) /\ object[n].holds = base))

DeleteCluster(n) ==
  /\ Owned(n) /\ ~object[n].going /\ UserAct
  /\ Change(n, [object[n] EXCEPT !.going = TRUE]) /\ Spoils(n) /\ UNCHANGED faults

TakeName(n) ==
  /\ object[n].owner = "none" /\ UserAct
  /\ Change(n, [owner |-> "other", state |-> "healthy", going |-> FALSE, holds |-> "empty"])
  /\ UNCHANGED <<spoiled, faults>>

ClusterFails(n) ==
  /\ Owned(n) /\ object[n].state # "failing" /\ Fault
  /\ Change(n, [object[n] EXCEPT !.state = "failing"]) /\ Spoils(n) /\ UNCHANGED serverActs

ClusterBuilt(n) ==
  /\ Owned(n) /\ object[n].state = "building" /\ ~suspended
  /\ Change(n, [object[n] EXCEPT !.state = "healthy"])
  /\ UNCHANGED <<spoiled, serverActs, faults>>

ClusterGone(n) ==
  /\ object[n].going /\ Change(n, Absent)
  /\ UNCHANGED <<spoiled, serverActs, faults>>

ProbeConfig ==
  /\ config.there /\ ~config.probed /\ ~suspended
  /\ object[config.host].owner # "none" /\ object[config.host].state = "healthy"
  /\ config' = [config EXCEPT !.probed = TRUE]
  /\ UNCHANGED <<status, copy, pc, stale, suspended, object, asked, base, spoiled, inherited, serverActs, faults>>

-----------------------------------------------------------------------------

Recover(r) ==
  \/ Start(r)
  \/ /\ \/ ReadRecordedAnswer(r) \/ ReadPublishedAnswer(r) \/ RefuseRecovery(r)
        \/ AdvanceNameless(r) \/ Abandon(r) \/ WaitForContract(r) \/ Complete(r)
        \/ \E n \in Names : \/ Create(r, n) \/ WaitForCluster(r, n) \/ MoveOver(r, n)
                            \/ RefuseTakenName(r, n) \/ RefuseFailing(r, n)
     /\ UNCHANGED inherited

ServerPass == NothingAsked \/ (\E r \in Requests : Recover(r)) \/ Components \/ FlushStatus

World ==
  \/ ToggleSuspend \/ DeleteContract \/ ProbeConfig
  \/ \E r \in Requests : Ask(r)
  \/ \E n \in Names : DeleteCluster(n) \/ TakeName(n) \/ ClusterFails(n) \/ ClusterBuilt(n)
                      \/ ClusterGone(n)

ServerNext == ServerPass \/ OperatorStops \/ World

ServerSpec == ServerInit /\ [][ServerNext]_serverVars

(* The requeues and watches bring every pass back; CloudNativePG builds    *)
(* and removes; the contract controller probes.                            *)
Fairness ==
  /\ WF_serverVars(ServerPass) /\ WF_serverVars(ProbeConfig)
  /\ \A n \in Names : WF_serverVars(ClusterBuilt(n)) /\ WF_serverVars(ClusterGone(n))

FairServer == ServerSpec /\ Fairness

-----------------------------------------------------------------------------
(* Properties.                                                             *)

(* Completed says that the server holds the state of the requested point.  *)
CompletedHoldsThePoint ==
  config.out.result = "Completed" =>
    base = config.out.req \/ config.out.req \in inherited \/ spoiled

(* The statement of docs/crds/databaseserverconfig.md, without exceptions. *)
CompletedAnswersTheRequest ==
  config.out.result = "Completed" => base = config.out.req

(* Whatever interferes with a rollback, the operator never loses the data. *)
DataKept ==
  spoiled \/ \E n \in Names : Owned(n) /\ ~object[n].going /\ object[n].holds = base

Nameless == Running(status) /\ status.rec.cluster = NoName

(* Past the cutover, without the contract and without the cluster.         *)
Stranded ==
  IsCutOver(status) /\ ~config.there /\ object[status.cluster].owner = "none"

(* A request that stays on the contract is answered.                       *)
RequestAnswered ==
  <>[]~suspended =>
    \A r \in Requests : config.req = r ~> Published(r) \/ config.req # r \/ Nameless

(* The server comes to rest on its data, under its contract.               *)
EndsOnItsData ==
  <>[]~suspended =>
    <>[](\/ spoiled \/ Nameless \/ Stranded
         \/ /\ config.there /\ config.host = status.cluster
            /\ object[config.host].holds = base)
=============================================================================
