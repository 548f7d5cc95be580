--------------------------- MODULE BackupSchedule ---------------------------
(***************************************************************************)
(* One BackupSchedule and the backups that carry its label:                *)
(* internal/controller/backupschedule.  At each trigger of the cron        *)
(* expression a pass creates one backup, of the kind that the storage of   *)
(* the cluster asks for, and then deletes the terminal backups beyond      *)
(* spec.retained.  The schedule owns nothing, has no finalizer, and knows  *)
(* its backups by their label and by a name that carries the trigger.      *)
(*                                                                         *)
(* One worker runs the passes of a schedule.  A pass is cut between the    *)
(* list and the Create, between the list and each Delete, and before the   *)
(* status write, which is the only record of the consumed trigger.         *)
(***************************************************************************)
EXTENDS Naturals, FiniteSets

CONSTANTS
  Kinds,        \* the backup kinds, one per storage type, in the order of the lists
  MaxTriggers,  \* bound: triggers of the cron expression that come
  Retained,     \* spec.retained, of both terminal phases, before any edit
  MaxActs       \* bound: edits by users, and crashes of the operator

Ended == {"Completed", "Failed"}

ASSUME BackupScheduleConstants ==
  /\ Kinds \subseteq Nat /\ Kinds # {} /\ MaxTriggers \in Nat \ {0}
  /\ Retained \in [Ended -> Nat] /\ Retained["Completed"] > 0
  /\ MaxActs \in Nat

VARIABLES
  now,          \* the triggers that have passed
  last,         \* status.lastScheduleTime
  retained,     \* spec.retained
  storage,      \* the kind that the storage type of the cluster asks for
  backup,       \* the object under the name of each trigger and kind
  pass,         \* where the pass stands, and what it read
  woken,        \* a request for the schedule is queued
  acts

vars == <<now, last, retained, storage, backup, pass, woken, acts>>

-----------------------------------------------------------------------------
(* Types *)

Triggers == 1..MaxTriggers

(* <schedule>-<time of the trigger>; both kinds share the name scheme.     *)
Names == [kind : Kinds, at : Triggers]

Incarnations == Nat

(* A foreign object has the name, and not the label or not the cluster.    *)
(* done is the completion time, scheduled: the schedule created it.        *)
Backup ==
  [life : {"none", "alive", "deleting", "foreign"}, phase : Ended \cup {"open"},
   done : 0..MaxTriggers, uid : Incarnations, scheduled : BOOLEAN]

NoBackup == [life |-> "none", phase |-> "open", done |-> 0, uid |-> 0, scheduled |-> FALSE]

(* due is the trigger under decision, or 0; consumed is what the status    *)
(* write records; current: nobody edited the schedule since the read.      *)
Pass ==
  [at : {"idle", "decide", "create", "list", "prune", "flush"},
   due : 0..MaxTriggers, consumed : 0..MaxTriggers, kind : Kinds,
   retained : [Ended -> Nat], doomed : SUBSET [name : Names, uid : Incarnations],
   current : BOOLEAN]

TypeOK ==
  /\ now \in 0..MaxTriggers /\ last \in 0..now
  /\ retained \in [Ended -> Nat] /\ storage \in Kinds
  /\ backup \in [Names -> Backup]
  /\ pass \in Pass
  /\ woken \in BOOLEAN /\ acts \in 0..MaxActs

Idle ==
  [at |-> "idle", due |-> 0, consumed |-> 0, kind |-> CHOOSE k \in Kinds : TRUE,
   retained |-> Retained, doomed |-> {}, current |-> TRUE]

Init ==
  /\ now = 0 /\ last = 0 /\ retained = Retained
  /\ storage \in Kinds
  /\ backup = [n \in Names |-> NoBackup]
  /\ pass = Idle
  /\ woken = TRUE /\ acts = 0

(* The label selector, on the live API: deleting backups are listed too.   *)
Listed == {n \in Names : backup[n].life \in {"alive", "deleting"}}

Terminal(n) == backup[n].phase \in Ended

At(p) == pass.at = p

Act == acts < MaxActs /\ acts' = acts + 1

world == <<now, last, retained, storage, woken, acts>>

-----------------------------------------------------------------------------
(* The pass *)

(* dueTrigger: of a backlog only the latest trigger is due.                *)
DueTrigger == IF now > last THEN now ELSE 0

(* Reads the schedule and resolves the cluster.  An expression that does   *)
(* not parse has no trigger, and still prunes.                             *)
Begin ==
  /\ At("idle") /\ woken
  /\ woken' = FALSE
  /\ \E due \in {0, DueTrigger} :
       pass' = [Idle EXCEPT !.at = IF due = 0 THEN "list" ELSE "decide", !.due = due,
                  !.consumed = last, !.kind = storage, !.retained = retained]
  /\ UNCHANGED <<now, last, retained, storage, backup, acts>>

(* A fault of Unfinished: the kind is not a part of the key.               *)
UnfinishedOfName(k, t) == {n \in Listed : n.at # t /\ ~Terminal(n)}

(* nonTerminal: every one but the backup of the trigger under decision.    *)
Unfinished(k, t) == {n \in Listed : n # [kind |-> k, at |-> t] /\ ~Terminal(n)}

(* trigger, up to the Create.  References that do not resolve, a suspended *)
(* cluster and one that cannot run a backup skip the trigger at any time.  *)
Decide ==
  /\ At("decide")
  /\ \/ pass' = [pass EXCEPT !.at = "list", !.consumed = pass.due]
     \/ /\ Unfinished(pass.kind, pass.due) = {}
        /\ pass' = [pass EXCEPT !.at = "create"]
  /\ UNCHANGED <<world, backup>>

(* newBackup: the object under a name, applied anew.                       *)
Applied(b, life, scheduled) ==
  [life |-> life, phase |-> "open", done |-> 0, uid |-> b.uid + 1, scheduled |-> scheduled]

(* Whatever has the name already is adopted, or reported as taken; both    *)
(* consume the trigger.                                                    *)
CreateAs(n) ==
  /\ At("create")
  /\ n = [kind |-> pass.kind, at |-> pass.due]
  /\ backup' = IF backup[n].life = "none"
               THEN [backup EXCEPT ![n] = Applied(@, "alive", TRUE)] ELSE backup
  /\ pass' = [pass EXCEPT !.at = "list", !.consumed = pass.due]
  /\ UNCHANGED world

Create == \E n \in Names : CreateAs(n)

(* A fault of Keeps: one too many stays.                                   *)
KeepsOneMore(p, kept) == Cardinality(kept) <= pass.retained[p] + 1

(* How many of a terminal phase stay.                                      *)
Keeps(p, kept) == Cardinality(kept) <= pass.retained[p]

(* The order of the lists decides between equal completion times.          *)
Older(n, m) ==
  \/ backup[n].done < backup[m].done
  \/ /\ backup[n].done = backup[m].done
     /\ n.kind < m.kind \/ (n.kind = m.kind /\ n.at < m.at)

(* prunable: the oldest of each terminal phase beyond its bound.           *)
Overflow(p, over) ==
  LET those == {n \in Listed : backup[n].phase = p}
      kept == those \ over
  IN /\ over \subseteq those
     /\ Keeps(p, kept)
     /\ \A n \in over : /\ ~Keeps(p, kept \cup {n})
                        /\ \A m \in kept : Older(n, m)

List ==
  /\ At("list")
  /\ \E completed, failed \in SUBSET Listed :
       /\ Overflow("Completed", completed) /\ Overflow("Failed", failed)
       /\ pass' = [Idle EXCEPT !.at = "prune", !.consumed = pass.consumed,
                     !.current = pass.current,
                     !.doomed = {[name |-> n, uid |-> backup[n].uid] : n \in completed \cup failed}]
  /\ UNCHANGED <<world, backup>>

(* A fault of Matches: the Delete goes by name.                            *)
MatchesName(d) == backup[d.name].life = "alive"

(* The UID precondition of the Delete; one that is being deleted stays so. *)
Matches(d) == backup[d.name].life = "alive" /\ backup[d.name].uid = d.uid

Prune ==
  /\ At("prune")
  /\ \E d \in pass.doomed :
       /\ pass' = [pass EXCEPT !.doomed = @ \ {d}]
       /\ backup' = IF Matches(d) THEN [backup EXCEPT ![d.name].life = "deleting"] ELSE backup
  /\ UNCHANGED world

(* ownerstatus.Flush, and the requeue at the next trigger.  An edit since  *)
(* the read is a conflict, which queues the schedule again.                *)
Flush ==
  /\ At("prune") /\ pass.doomed = {}
  /\ pass' = Idle
  /\ IF pass.current THEN last' = pass.consumed /\ UNCHANGED woken
     ELSE UNCHANGED last /\ woken' = TRUE
  /\ UNCHANGED <<now, retained, storage, backup, acts>>

(* A call fails anywhere in the pass: it is tried again, and the deferred  *)
(* Flush still writes what was consumed before.                            *)
CallFails ==
  /\ Act /\ ~At("idle")
  /\ last' = IF pass.current THEN pass.consumed ELSE last
  /\ pass' = Idle /\ woken' = TRUE
  /\ UNCHANGED <<now, retained, storage, backup>>

(* The operator stops anywhere in the pass, or its status write fails.     *)
(* The start lists every schedule, and an error is tried again.            *)
Crash ==
  /\ Act /\ ~At("idle")
  /\ pass' = Idle /\ woken' = TRUE
  /\ UNCHANGED <<now, last, retained, storage, backup>>

-----------------------------------------------------------------------------
(* Time, the backup controllers, and users *)

(* RequeueAfter wakes the schedule at the next trigger.                    *)
Tick ==
  /\ now < MaxTriggers /\ now' = now + 1 /\ woken' = TRUE
  /\ UNCHANGED <<last, retained, storage, backup, pass, acts>>

(* A backup ends; phaseChanged passes that event, and nothing else.        *)
Finish(n) ==
  /\ n \in Listed /\ ~Terminal(n)
  /\ \E p \in Ended : backup' = [backup EXCEPT ![n].phase = p, ![n].done = now]
  /\ woken' = TRUE
  /\ UNCHANGED <<now, last, retained, storage, pass, acts>>

(* The finalizer of the backup is done.                                    *)
Vanish(n) ==
  /\ backup[n].life = "deleting"
  /\ backup' = [backup EXCEPT ![n] = [NoBackup EXCEPT !.uid = backup[n].uid]]
  /\ UNCHANGED <<world, pass>>

DeleteBackup(n) ==
  /\ Act /\ backup[n].life = "alive"
  /\ backup' = [backup EXCEPT ![n].life = "deleting"]
  /\ UNCHANGED <<now, last, retained, storage, pass, woken>>

(* A user applies a backup under the name, with the label or without.      *)
ApplyBackup(n) ==
  /\ Act /\ backup[n].life = "none"
  /\ \E life \in {"alive", "foreign"} :
       backup' = [backup EXCEPT ![n] = Applied(@, life, FALSE)]
  /\ UNCHANGED <<now, last, retained, storage, pass, woken>>

(* The cluster moves to a storage of another type.                         *)
ChangeStorage(k) ==
  /\ Act /\ k # storage /\ storage' = k
  /\ UNCHANGED <<now, last, retained, backup, pass, woken>>

(* The minimum of retained.completed is one, and of retained.failed zero.  *)
LowerBound(p) ==
  /\ Act /\ retained[p] > (IF p = "Completed" THEN 1 ELSE 0)
  /\ retained' = [retained EXCEPT ![p] = @ - 1]
  /\ pass' = [pass EXCEPT !.current = At("idle")] /\ woken' = TRUE
  /\ UNCHANGED <<now, last, storage, backup>>

(* The schedule is deleted and created again: it consumes from its         *)
(* creation on, and finds the backups that carry its label.                *)
Recreate ==
  /\ Act /\ last' = now
  /\ pass' = [pass EXCEPT !.current = At("idle")] /\ woken' = TRUE
  /\ UNCHANGED <<now, retained, storage, backup>>

Reconcile == Begin \/ Decide \/ Create \/ List \/ Prune \/ Flush

Next ==
  \/ Reconcile \/ CallFails \/ Crash \/ Tick
  \/ \E n \in Names : Finish(n) \/ Vanish(n) \/ DeleteBackup(n) \/ ApplyBackup(n)
  \/ \E k \in Kinds : ChangeStorage(k)
  \/ \E p \in Ended : LowerBound(p)
  \/ Recreate

Spec == Init /\ [][Next]_vars

(* The worker serves the queue, and nothing else is promised.              *)
Fairness == WF_vars(Reconcile)

FairSpec == Spec /\ Fairness

-----------------------------------------------------------------------------
(* Properties *)

(* Two backups of one schedule never overlap, although crashes and edits   *)
(* make it take a trigger twice, and for another kind of storage.          *)
OneRunning ==
  Cardinality({n \in Listed : backup[n].scheduled /\ ~Terminal(n)}) <= 1

(* The schedule deletes no backup that can still end, not even the one     *)
(* that was applied again under the name of one it listed, and no backup   *)
(* before an older one that ended the same way.                            *)
PrunesOldestEnded ==
  [][\A n \in Names :
       Prune /\ backup[n].life = "alive" /\ backup'[n].life = "deleting" =>
         /\ Terminal(n)
         /\ \A m \in Names \ {d.name : d \in pass.doomed} :
              backup[m].life = "alive" /\ backup[m].phase = backup[n].phase =>
                backup[m].done >= backup[n].done]_vars

(* However it was disturbed, the schedule comes back to its bounds, and    *)
(* only events and the clock wake it.                                      *)
RetentionHolds ==
  <>[](\A p \in Ended :
         Cardinality({n \in Names : backup[n].life = "alive" /\ backup[n].phase = p})
           <= retained[p])
=============================================================================
