------------------------ MODULE BackupScheduleProofs ------------------------
(***************************************************************************)
(* Proofs about BackupSchedule, for every set of backup kinds, every       *)
(* number of triggers, every retention and every number of user actions.   *)
(***************************************************************************)
EXTENDS BackupSchedule, FiniteSetTheorems, TLAPS

(* A pass decides about, and records, a trigger that has passed; the one   *)
(* that is about to create has such a trigger.                             *)
PassedTriggers ==
  /\ pass.consumed <= now /\ pass.due <= now
  /\ At("decide") \/ At("create") => pass.due > 0

(* The backups of the schedule that run.                                   *)
Running == {n \in Listed : backup[n].scheduled /\ ~Terminal(n)}

(* At most one runs, and a pass that is about to create found none but its *)
(* own: nobody else creates a backup for the schedule.                     *)
AtMostOne ==
  /\ \A n, m \in Running : n = m
  /\ At("create") => Running \subseteq {[kind |-> pass.kind, at |-> pass.due]}

(* A backup that ended did so at a time that has passed.                   *)
EndedBefore == \A n \in Names : backup[n].done <= now

Doomed(n) == [name |-> n, uid |-> backup[n].uid] \in pass.doomed

(* What the pass still deletes has ended, or is gone for good, and no      *)
(* backup that stays and ended the same way ended before it.               *)
DoomedAreOldest ==
  \A d \in pass.doomed :
    /\ d.uid <= backup[d.name].uid
    /\ Doomed(d.name) /\ d.name \in Listed =>
         /\ Terminal(d.name)
         /\ \A m \in Names :
              /\ backup[m].life = "alive" /\ ~Doomed(m)
              /\ backup[m].phase = backup[d.name].phase
            => backup[m].done >= backup[d.name].done

ScheduleInv ==
  /\ TypeOK
  /\ PassedTriggers
  /\ AtMostOne
  /\ EndedBefore
  /\ DoomedAreOldest

-----------------------------------------------------------------------------
(* The values that a pass starts from have their types.                    *)
LEMMA IdleTypes == Idle \in Pass /\ NoBackup \in Backup
BY BackupScheduleConstants DEF Idle, Pass, NoBackup, Backup, Incarnations

(* What the edits of a backup leave.                                       *)
LEMMA AppliedFacts ==
  ASSUME NEW b \in Backup, NEW life \in {"alive", "foreign"}, NEW ours \in BOOLEAN
  PROVE  LET q == Applied(b, life, ours)
         IN q \in Backup /\ q.life = life /\ q.phase = "open" /\ q.uid = b.uid + 1 /\ q.done = 0
              /\ q.scheduled = ours
<1> DEFINE q == Applied(b, life, ours)
<1>1. q.life = life /\ q.phase = "open" /\ q.uid = b.uid + 1 /\ q.done = 0
  BY DEF Applied
<1>2. q.scheduled = ours
  BY Zenon DEF Applied
<1>3. b.uid + 1 \in Nat
  BY DEF Backup, Incarnations
<1>4. q \in Backup
  BY <1>3, BackupScheduleConstants DEF Applied, Backup, Incarnations
<1> QED
  BY <1>1, <1>2, <1>4, Zenon
(* The initial states satisfy the invariant.                               *)
LEMMA InitScheduleInv == Init => ScheduleInv
BY IdleTypes, BackupScheduleConstants DEF Init, ScheduleInv, TypeOK, PassedTriggers, AtMostOne,
   EndedBefore, DoomedAreOldest, Running, Listed, NoBackup, Idle, At

(* A step keeps DoomedAreOldest if it gives a backup a new identity,       *)
(* or ends one that was not to be deleted.                                 *)
LEMMA DoomedStay ==
  ASSUME TypeOK, EndedBefore, DoomedAreOldest, now' = now, pass'.doomed = pass.doomed,
         pass'.doomed \subseteq [name : Names, uid : Nat],
         NEW n \in Names, \A m \in Names \ {n} : backup'[m] = backup[m], backup'[n] \in Backup,
         \/ backup'[n] = backup[n]
         \/ backup'[n].uid = backup[n].uid + 1 /\ ~(backup'[n].phase \in Ended)
         \/ /\ backup[n].phase \notin Ended /\ backup[n].life \in {"alive", "deleting"}
            /\ backup'[n].uid = backup[n].uid /\ backup'[n].life = backup[n].life
            /\ backup'[n].done = now
         \/ /\ backup'[n].uid = backup[n].uid
            /\ backup'[n].life = "none" \/ (/\ backup[n].life = "alive" /\ backup'[n].life = "deleting"
                                            /\ backup'[n].phase = backup[n].phase
                                            /\ backup'[n].done = backup[n].done)
  PROVE  DoomedAreOldest'
<1> SUFFICES ASSUME NEW d \in pass.doomed
             PROVE  /\ d.uid <= backup'[d.name].uid
                    /\ Doomed(d.name)' /\ d.name \in Listed' =>
                         /\ Terminal(d.name)'
                         /\ \A m \in Names :
                              /\ backup'[m].life = "alive" /\ ~Doomed(m)'
                              /\ backup'[m].phase = backup'[d.name].phase
                            => backup'[m].done >= backup'[d.name].done
  BY DEF DoomedAreOldest
<1>1. d.name \in Names /\ d.uid \in Nat
  OBVIOUS
<1>2. \A m \in Names : backup[m] \in Backup /\ backup[m].uid \in Nat /\ backup[m].done \in Nat
                         /\ backup[m].done <= now /\ now \in Nat
  BY DEF TypeOK, Backup, Incarnations, EndedBefore
<1>3. /\ d.uid <= backup[d.name].uid
      /\ Doomed(d.name) /\ d.name \in Listed =>
           /\ Terminal(d.name)
           /\ \A m \in Names :
                /\ backup[m].life = "alive" /\ ~Doomed(m)
                /\ backup[m].phase = backup[d.name].phase
              => backup[m].done >= backup[d.name].done
  BY DEF DoomedAreOldest
<1>4. \A m \in Names : backup[m].uid <= backup'[m].uid /\ backup'[m].uid \in Nat
  BY <1>2
<1>5. d.uid <= backup'[d.name].uid
  BY <1>1, <1>2, <1>3, <1>4
<1>6. ASSUME Doomed(d.name)', d.name \in Listed'
      PROVE  /\ backup'[d.name] = backup[d.name] \/ backup'[d.name].life = "deleting"
             /\ Doomed(d.name) /\ d.name \in Listed
             /\ backup'[d.name].phase = backup[d.name].phase /\ backup'[d.name].done = backup[d.name].done
  <2>1. CASE d.name # n
    BY <1>1, <1>6, <2>1 DEF Doomed, Listed
  <2>2. CASE d.name = n
    <3>1. [name |-> n, uid |-> backup'[n].uid] \in pass.doomed /\ backup'[n].life \in {"alive", "deleting"}
      BY <1>6, <2>2 DEF Doomed, Listed
    <3>2. backup'[n].uid <= backup[n].uid
      <4> DEFINE e == [name |-> n, uid |-> backup'[n].uid]
      <4>1. e.name = n /\ e.uid = backup'[n].uid
        OBVIOUS
      <4>2. e.uid <= backup[e.name].uid
        BY <3>1 DEF DoomedAreOldest
      <4> QED
        BY <4>1, <4>2
    <3>3. backup'[n].uid = backup[n].uid
      BY <1>2, <1>4, <3>2
    <3>4. Doomed(n)
      BY <3>1, <3>3 DEF Doomed
    <3>5. backup[n].life \in {"alive", "deleting"} => Terminal(n)
      BY <1>3, <2>2, <3>4 DEF Listed
    <3> QED
      BY <1>2, <2>2, <3>1, <3>3, <3>4, <3>5 DEF Terminal, Listed
  <2> QED
    BY <2>1, <2>2
<1>7. ASSUME NEW m \in Names, backup'[m].life = "alive", ~Doomed(m)', backup'[m].phase \in Ended
      PROVE  \/ backup[m].life = "alive" /\ ~Doomed(m) /\ backup'[m].phase = backup[m].phase
                  /\ backup'[m].done = backup[m].done
             \/ backup'[m].done = now
  BY <1>2, <1>7 DEF Doomed
<1> QED
  BY <1>1, <1>2, <1>3, <1>5, <1>6, <1>7 DEF Terminal

(* The invariant is preserved by every step.                               *)
LEMMA ScheduleStep == ScheduleInv /\ [Next]_vars => ScheduleInv'
<1> SUFFICES ASSUME ScheduleInv, [Next]_vars PROVE ScheduleInv'
  OBVIOUS
<1> USE BackupScheduleConstants, IdleTypes DEF Incarnations, Triggers
<1>1. CASE Begin
  <2>1. PICK due \in {0, DueTrigger} :
          pass' = [Idle EXCEPT !.at = IF due = 0 THEN "list" ELSE "decide", !.due = due,
                     !.consumed = last, !.kind = storage, !.retained = retained]
    BY <1>1 DEF Begin
  <2>2. due \in 0..MaxTriggers /\ due <= now
    BY DEF ScheduleInv, TypeOK, DueTrigger
  <2>3. pass' = [at |-> IF due = 0 THEN "list" ELSE "decide", due |-> due, consumed |-> last,
                 kind |-> storage, retained |-> retained, doomed |-> {}, current |-> TRUE]
    BY <2>1 DEF Idle
  <2>a. /\ pass' \in Pass /\ pass'.at \in {"list", "decide"} /\ (pass'.at = "decide" => due > 0)
        /\ pass'.consumed = last /\ pass'.due = due /\ pass'.doomed = {}
    <3>1. CASE due = 0
      BY <2>2, <2>3, <3>1 DEF ScheduleInv, TypeOK, Pass
    <3>2. CASE due # 0
      BY <2>2, <2>3, <3>2 DEF ScheduleInv, TypeOK, Pass
    <3> QED
      BY <3>1, <3>2
  <2>4. TypeOK'
    BY <1>1, <2>a DEF ScheduleInv, TypeOK, Begin
  <2>5. PassedTriggers' /\ EndedBefore'
    BY <1>1, <2>2, <2>a DEF ScheduleInv, TypeOK, PassedTriggers, EndedBefore, Begin, At
  <2>6. AtMostOne' /\ DoomedAreOldest'
    BY <1>1, <2>a DEF ScheduleInv, AtMostOne, DoomedAreOldest, Running, Listed, Terminal, Begin, At
  <2> QED
    BY <2>4, <2>5, <2>6 DEF ScheduleInv
<1>2. CASE Decide
  <2>1. /\ pass' \in Pass /\ pass'.consumed \in {pass.consumed, pass.due} /\ pass'.at \in {"list", "create"}
        /\ pass'.doomed = pass.doomed /\ pass'.kind = pass.kind /\ pass'.due = pass.due
        /\ pass'.at = "create" => Unfinished(pass.kind, pass.due) = {}
    <3>1. pass \in Pass /\ pass.due \in 0..MaxTriggers
      BY DEF ScheduleInv, TypeOK, Pass
    <3>2. CASE pass' = [pass EXCEPT !.at = "list", !.consumed = pass.due]
      BY <3>1, <3>2 DEF Pass
    <3>3. CASE Unfinished(pass.kind, pass.due) = {} /\ pass' = [pass EXCEPT !.at = "create"]
      BY <3>1, <3>3 DEF Pass
    <3> QED
      BY <1>2, <3>2, <3>3 DEF Decide
  <2>2. UNCHANGED <<now, last, retained, storage, woken, acts, backup>> /\ At("decide")
    BY <1>2 DEF Decide, world
  <2>3. TypeOK' /\ PassedTriggers' /\ EndedBefore'
    BY <2>1, <2>2 DEF ScheduleInv, TypeOK, PassedTriggers, EndedBefore, At
  <2>4. AtMostOne'
    BY <2>1, <2>2 DEF ScheduleInv, AtMostOne, Running, Listed, Terminal, At, Unfinished
  <2>5. DoomedAreOldest'
    BY <2>1, <2>2 DEF ScheduleInv, DoomedAreOldest, Doomed, Listed, Terminal
  <2> QED
    BY <2>3, <2>4, <2>5 DEF ScheduleInv
<1>3. CASE Create
  <2>0. PICK n \in Names : CreateAs(n)
    BY <1>3 DEF Create
  <2> DEFINE new == Applied(backup[n], "alive", TRUE)
  <2>1. pass \in Pass /\ backup \in [Names -> Backup] /\ pass.kind \in Kinds /\ pass.due \in 0..MaxTriggers
    BY DEF ScheduleInv, TypeOK, Pass
  <2>2. /\ new \in Backup /\ new.life = "alive" /\ new.phase = "open" /\ new.uid = backup[n].uid + 1
        /\ new.scheduled = TRUE /\ new.done = 0
    <3>1. backup[n] \in Backup
      BY <2>0, <2>1
    <3> QED
      BY <3>1, AppliedFacts, Zenon
  <2> HIDE DEF new
  <2>3. /\ backup' \in [Names -> Backup] /\ backup'[n] \in Backup
        /\ \A m \in Names \ {n} : backup'[m] = backup[m]
        /\ backup'[n] = backup[n] \/ (backup[n].life = "none" /\ backup'[n] = new)
    BY <2>0, <2>1, <2>2 DEF CreateAs, new
  <2>4. /\ pass'.at = "list" /\ pass'.consumed = pass.due
        /\ pass'.due = pass.due /\ pass'.doomed = pass.doomed /\ pass' \in Pass
    BY <2>0, <2>1 DEF CreateAs, Pass
  <2>5. UNCHANGED <<now, last, retained, storage, woken, acts>> /\ At("create")
    BY <2>0 DEF CreateAs, world
  <2>6. TypeOK'
    BY <2>3, <2>4, <2>5 DEF ScheduleInv, TypeOK
  <2>7. PassedTriggers' /\ EndedBefore'
    BY <2>2, <2>3, <2>4, <2>5 DEF ScheduleInv, TypeOK, PassedTriggers, EndedBefore, At
  <2>8. AtMostOne'
    <3>1. Running \subseteq {n}
      BY <2>0 DEF ScheduleInv, AtMostOne, CreateAs
    <3>2. Running' \subseteq {n}
      BY <2>3, <3>1 DEF Running, Listed, Terminal
    <3> QED
      BY <2>4, <3>2 DEF AtMostOne, At
  <2>9. DoomedAreOldest'
    <3>1. pass'.doomed \subseteq [name : Names, uid : Nat]
      BY <2>4 DEF Pass, Incarnations
    <3>2. ~("open" \in Ended)
      BY DEF Ended
    <3> QED
      BY <2>2, <2>3, <2>4, <2>5, <3>1, <3>2, DoomedStay DEF ScheduleInv
  <2> QED
    BY <2>6, <2>7, <2>8, <2>9 DEF ScheduleInv
<1>4. CASE List
  <2>1. PICK completed \in SUBSET Listed, failed \in SUBSET Listed :
          /\ Overflow("Completed", completed) /\ Overflow("Failed", failed)
          /\ pass' = [Idle EXCEPT !.at = "prune", !.consumed = pass.consumed,
                        !.current = pass.current,
                        !.doomed = {[name |-> n, uid |-> backup[n].uid] : n \in completed \cup failed}]
    BY <1>4 DEF List
  <2> DEFINE doomed == {[name |-> n, uid |-> backup[n].uid] : n \in completed \cup failed}
  <2>2. pass' = [at |-> "prune", due |-> 0, consumed |-> pass.consumed, kind |-> CHOOSE k \in Kinds : TRUE,
                 retained |-> Retained, doomed |-> doomed, current |-> pass.current]
    BY <2>1 DEF Idle
  <2>3. doomed \in SUBSET [name : Names, uid : Nat]
    BY DEF ScheduleInv, TypeOK, Listed, Backup
  <2>4. UNCHANGED <<now, last, retained, storage, woken, acts, backup>>
    BY <1>4 DEF List, world
  <2>5. pass' \in Pass /\ pass'.at = "prune" /\ pass'.consumed = pass.consumed /\ pass'.due = 0
        /\ pass'.doomed = doomed
    BY <2>2, <2>3 DEF ScheduleInv, TypeOK, Pass
  <2>6. TypeOK'
    BY <2>4, <2>5 DEF ScheduleInv, TypeOK
  <2>7. PassedTriggers' /\ EndedBefore'
    BY <2>4, <2>5 DEF ScheduleInv, TypeOK, PassedTriggers, EndedBefore, At
  <2>8. AtMostOne'
    BY <2>4, <2>5 DEF ScheduleInv, AtMostOne, Running, Listed, Terminal, At
  <2>9. \A n \in Names : Doomed(n)' <=> n \in completed \cup failed
    BY <2>4, <2>5 DEF Doomed
  <2>a. /\ \A n \in completed : backup[n].phase = "Completed"
        /\ \A n \in failed : backup[n].phase = "Failed"
        /\ \A n \in completed, m \in Listed \ completed : backup[m].phase = "Completed" => Older(n, m)
        /\ \A n \in failed, m \in Listed \ failed : backup[m].phase = "Failed" => Older(n, m)
    BY <2>1 DEF Overflow
  <2>b. \A n, m \in Names : Older(n, m) => backup[n].done <= backup[m].done
    BY DEF Older, ScheduleInv, TypeOK, Backup
  <2>c. ASSUME NEW d \in doomed
        PROVE  /\ d.uid = backup[d.name].uid /\ d.name \in completed \cup failed
               /\ d.name \in Names /\ Terminal(d.name)
               /\ \A m \in Names :
                    /\ backup[m].life = "alive" /\ m \notin completed \cup failed
                    /\ backup[m].phase = backup[d.name].phase
                  => backup[m].done >= backup[d.name].done
    <3>0. PICK n \in completed \cup failed : d = [name |-> n, uid |-> backup[n].uid]
      BY <2>c
    <3>1. d.uid = backup[d.name].uid /\ d.name \in completed \cup failed /\ d.name \in Names
      <4>1. d.name = n /\ d.uid = backup[n].uid
        BY <3>0
      <4> QED
        <5>1. n \in completed \cup failed /\ n \in Names
          BY <2>1, <3>0 DEF Listed
        <5> QED
          BY <4>1, <5>1
    <3>2. Terminal(d.name)
      BY <2>a, <3>1 DEF Terminal, Ended
    <3>3. \A m \in Names : backup[m].life = "alive" => m \in Listed
      BY DEF Listed
    <3>4. \A m \in Names : backup[m].done \in Nat
      BY DEF ScheduleInv, TypeOK, Backup
    <3>5. ASSUME NEW m \in Names, backup[m].life = "alive", m \notin completed \cup failed,
                 backup[m].phase = backup[d.name].phase
          PROVE  backup[m].done >= backup[d.name].done
      <4>1. Older(d.name, m)
        BY <2>a, <3>1, <3>3, <3>5
      <4> QED
        BY <2>b, <3>1, <3>4, <4>1
    <3> QED
      BY <3>1, <3>2, <3>5, Zenon
  <2>d. DoomedAreOldest'
    BY <2>4, <2>5, <2>9, <2>c DEF DoomedAreOldest, Terminal, ScheduleInv, TypeOK, Backup
  <2> QED
    BY <2>6, <2>7, <2>8, <2>d DEF ScheduleInv
<1>5. CASE Prune
  <2>0. pass \in Pass /\ backup \in [Names -> Backup]
    BY DEF ScheduleInv, TypeOK
  <2>1. PICK d \in pass.doomed :
          /\ pass' = [pass EXCEPT !.doomed = @ \ {d}]
          /\ backup' = IF Matches(d) THEN [backup EXCEPT ![d.name].life = "deleting"] ELSE backup
    BY <1>5 DEF Prune
  <2>2. /\ pass' \in Pass /\ pass'.at = "prune" /\ pass'.consumed = pass.consumed
        /\ pass'.due = pass.due /\ pass'.doomed = pass.doomed \ {d}
    BY <1>5, <2>0, <2>1 DEF Prune, At, Pass
  <2>3. d \in [name : Names, uid : Nat] /\ d.name \in Names /\ d.uid \in Nat /\ backup[d.name] \in Backup
    BY <2>0, <2>1 DEF Pass, Incarnations
  <2>4. /\ backup' \in [Names -> Backup]
        /\ \A m \in Names \ {d.name} : backup'[m] = backup[m]
        /\ backup'[d.name].phase = backup[d.name].phase /\ backup'[d.name].done = backup[d.name].done
        /\ backup'[d.name].uid = backup[d.name].uid
        /\ backup'[d.name].scheduled = backup[d.name].scheduled
        /\ IF Matches(d) THEN backup'[d.name].life = "deleting" ELSE backup'[d.name].life = backup[d.name].life
    <3>1. CASE Matches(d)
      <4> DEFINE new == [backup[d.name] EXCEPT !.life = "deleting"]
      <4>1. backup' = [backup EXCEPT ![d.name] = new]
        BY <2>1, <3>1
      <4> QED
        BY <2>0, <2>3, <3>1, <4>1 DEF Backup
    <3>2. CASE ~Matches(d)
      BY <2>0, <2>1, <3>2
    <3> QED
      BY <3>1, <3>2
  <2>5. UNCHANGED <<now, last, retained, storage, woken, acts>>
    BY <1>5 DEF Prune, world
  <2>6. TypeOK'
    BY <2>2, <2>4, <2>5 DEF ScheduleInv, TypeOK
  <2>7. PassedTriggers' /\ EndedBefore'
    BY <2>2, <2>4, <2>5 DEF ScheduleInv, TypeOK, PassedTriggers, EndedBefore, At
  <2>8. Running' \subseteq Running
    BY <2>4 DEF Running, Listed, Terminal, Matches
  <2>9. AtMostOne'
    BY <2>2, <2>8 DEF ScheduleInv, AtMostOne, At
  <2>a. now' = now /\ pass'.doomed \subseteq pass.doomed /\ d \in pass.doomed
    BY <2>1, <2>2, <2>5
  <2>b. DoomedAreOldest'
    <3> SUFFICES ASSUME NEW e \in pass'.doomed
                 PROVE  /\ e.uid <= backup'[e.name].uid
                        /\ Doomed(e.name)' /\ e.name \in Listed' =>
                             /\ Terminal(e.name)'
                             /\ \A m \in Names :
                                  /\ backup'[m].life = "alive" /\ ~Doomed(m)'
                                  /\ backup'[m].phase = backup'[e.name].phase
                                => backup'[m].done >= backup'[e.name].done
      BY DEF DoomedAreOldest
    <3>1. e \in pass.doomed /\ e.name \in Names /\ e # d
      BY <2>0, <2>2 DEF Pass
    <3>2. \A m \in Names : /\ backup'[m].uid = backup[m].uid /\ backup'[m].phase = backup[m].phase
                            /\ backup'[m].done = backup[m].done
      BY <2>4
    <3>3. Doomed(e.name)' => Doomed(e.name)
      BY <2>2, <3>1, <3>2 DEF Doomed
    <3>4. e.name \in Listed' => e.name \in Listed
      BY <2>4, <3>1 DEF Listed, Matches
    <3>5. ASSUME NEW m \in Names, backup'[m].life = "alive", ~Doomed(m)'
          PROVE  backup[m].life = "alive" /\ ~Doomed(m)
      <4>1. backup[m].life = "alive"
        BY <2>4, <3>5
      <4>2. CASE [name |-> m, uid |-> backup[m].uid] = d
        <5>1. d.name = m /\ d.uid = backup[m].uid
          BY <4>2
        <5> QED
          BY <2>4, <3>5, <4>1, <5>1 DEF Matches
      <4>3. CASE [name |-> m, uid |-> backup[m].uid] # d
        BY <2>2, <3>2, <3>5, <4>1, <4>3 DEF Doomed
      <4> QED
        BY <4>2, <4>3
    <3>6. /\ e.uid <= backup[e.name].uid
          /\ Doomed(e.name) /\ e.name \in Listed =>
                /\ Terminal(e.name)
                /\ \A m \in Names :
                     /\ backup[m].life = "alive" /\ ~Doomed(m)
                     /\ backup[m].phase = backup[e.name].phase
                   => backup[m].done >= backup[e.name].done
      BY <3>1 DEF ScheduleInv, DoomedAreOldest
    <3> HIDE DEF Doomed
    <3> QED
      BY <3>1, <3>2, <3>3, <3>4, <3>5, <3>6 DEF Terminal
  <2> QED
    BY <2>6, <2>7, <2>9, <2>b DEF ScheduleInv
<1>6. CASE Flush
  <2>0. pass' = Idle /\ UNCHANGED <<now, retained, storage, backup, acts>>
    BY <1>6 DEF Flush
  <2>a. last' \in 0..now
    BY <1>6 DEF Flush, ScheduleInv, TypeOK, PassedTriggers, Pass
  <2>b. woken' \in BOOLEAN
    BY <1>6 DEF Flush, ScheduleInv, TypeOK
  <2>1. TypeOK'
    BY <2>0, <2>a, <2>b DEF ScheduleInv, TypeOK
  <2>2. PassedTriggers' /\ EndedBefore'
    BY <1>6 DEF ScheduleInv, TypeOK, PassedTriggers, EndedBefore, Flush, Pass, Backup, Idle, At, Act, world
  <2>3. AtMostOne'
    BY <1>6 DEF ScheduleInv, TypeOK, AtMostOne, Running, Listed, Terminal, Flush, Idle, At, Act, world
  <2>4. DoomedAreOldest'
    BY <1>6 DEF ScheduleInv, TypeOK, DoomedAreOldest, Doomed, Listed, Terminal, Flush, Idle, At, Act, world
  <2> QED
    BY <2>1, <2>2, <2>3, <2>4 DEF ScheduleInv
<1>7. CASE CallFails \/ Crash
  <2>0. pass' = Idle /\ UNCHANGED <<now, retained, storage, backup>> /\ Act
        /\ last' \in {last, pass.consumed} /\ woken' \in BOOLEAN
    BY <1>7 DEF CallFails, Crash
  <2>a. last' \in 0..now /\ acts' \in 0..MaxActs
    BY <2>0, BackupScheduleConstants DEF ScheduleInv, TypeOK, PassedTriggers, Pass, Act
  <2>1. TypeOK'
    BY <2>0, <2>a DEF ScheduleInv, TypeOK, Pass, Idle
  <2>2. PassedTriggers' /\ EndedBefore'
    BY <2>0, <2>a DEF ScheduleInv, TypeOK, PassedTriggers, EndedBefore, Pass, Backup, Idle, At
  <2>3. AtMostOne'
    BY <2>0 DEF ScheduleInv, TypeOK, AtMostOne, Running, Listed, Terminal, Idle, At
  <2>4. DoomedAreOldest'
    BY <2>0 DEF ScheduleInv, TypeOK, DoomedAreOldest, Doomed, Listed, Terminal, Idle, At
  <2> QED
    BY <2>1, <2>2, <2>3, <2>4 DEF ScheduleInv
<1>8. CASE Tick
  <2>1. TypeOK'
    BY <1>8 DEF ScheduleInv, TypeOK, Tick, Pass, Backup, Idle, At, Act, world
  <2>2. PassedTriggers' /\ EndedBefore'
    BY <1>8 DEF ScheduleInv, TypeOK, PassedTriggers, EndedBefore, Tick, Pass, Backup, Idle, At, Act, world
  <2>3. AtMostOne'
    BY <1>8 DEF ScheduleInv, TypeOK, AtMostOne, Running, Listed, Terminal, Tick, Idle, At, Act, world
  <2>4. DoomedAreOldest'
    BY <1>8 DEF ScheduleInv, TypeOK, DoomedAreOldest, Doomed, Listed, Terminal, Tick, Idle, At, Act, world
  <2> QED
    BY <2>1, <2>2, <2>3, <2>4 DEF ScheduleInv
<1>9. ASSUME NEW n \in Names, Finish(n) PROVE ScheduleInv'
  <2>0. backup \in [Names -> Backup] /\ backup[n] \in Backup /\ now \in 0..MaxTriggers
        /\ pass.doomed \subseteq [name : Names, uid : Nat]
    BY DEF ScheduleInv, TypeOK, Pass, Incarnations
  <2>1. PICK p \in Ended : backup' = [backup EXCEPT ![n].phase = p, ![n].done = now]
    BY <1>9 DEF Finish
  <2>2. /\ backup'[n] \in Backup /\ backup'[n].life = backup[n].life /\ backup'[n].phase = p
        /\ backup'[n].uid = backup[n].uid /\ backup'[n].done = now
    BY <2>0, <2>1 DEF Backup
  <2>4. backup' \in [Names -> Backup] /\ \A m \in Names \ {n} : backup'[m] = backup[m]
    BY <2>0, <2>1, <2>2
  <2>5. TypeOK'
    BY <1>9, <2>4 DEF ScheduleInv, TypeOK, Finish, Act, world
  <2>6. PassedTriggers' /\ EndedBefore'
    BY <1>9, <2>0, <2>2, <2>4 DEF ScheduleInv, PassedTriggers, EndedBefore, At, Finish, Act, world
  <2>7. Running' \subseteq Running
    BY <1>9, <2>1, <2>2, <2>4 DEF Running, Listed, Terminal, Ended, Finish, Act, world
  <2>8. AtMostOne'
    BY <1>9, <2>7 DEF ScheduleInv, AtMostOne, At, Finish, Act, world
  <2>9. DoomedAreOldest'
    BY <1>9, <2>0, <2>2, <2>4, DoomedStay DEF ScheduleInv, Terminal, Listed, Ended, Finish, Act, world
  <2> QED
    BY <2>5, <2>6, <2>8, <2>9 DEF ScheduleInv
<1>10. ASSUME NEW n \in Names, Vanish(n) PROVE ScheduleInv'
  <2>0. backup \in [Names -> Backup] /\ backup[n] \in Backup /\ now \in 0..MaxTriggers
        /\ pass.doomed \subseteq [name : Names, uid : Nat]
    BY DEF ScheduleInv, TypeOK, Pass, Incarnations
  <2>1. backup' = [backup EXCEPT ![n] = [NoBackup EXCEPT !.uid = backup[n].uid]]
    BY <1>10 DEF Vanish
  <2>2. /\ backup'[n] \in Backup /\ backup'[n].life = "none" /\ backup'[n].phase = "open"
        /\ backup'[n].uid = backup[n].uid /\ backup'[n].done = 0
    BY <2>0, <2>1 DEF Backup, NoBackup
  <2>4. backup' \in [Names -> Backup] /\ \A m \in Names \ {n} : backup'[m] = backup[m]
    BY <2>0, <2>1, <2>2
  <2>5. TypeOK'
    BY <1>10, <2>4 DEF ScheduleInv, TypeOK, Vanish, Act, world
  <2>6. PassedTriggers' /\ EndedBefore'
    BY <1>10, <2>0, <2>2, <2>4 DEF ScheduleInv, PassedTriggers, EndedBefore, At, Vanish, Act, world
  <2>7. Running' \subseteq Running
    BY <1>10, <2>2, <2>4 DEF Running, Listed, Terminal, Ended, Vanish, Act, world
  <2>8. AtMostOne'
    BY <1>10, <2>7 DEF ScheduleInv, AtMostOne, At, Vanish, Act, world
  <2>9. DoomedAreOldest'
    BY <1>10, <2>0, <2>2, <2>4, DoomedStay DEF ScheduleInv, Terminal, Listed, Ended, Vanish, Act, world
  <2> QED
    BY <2>5, <2>6, <2>8, <2>9 DEF ScheduleInv
<1>11. ASSUME NEW n \in Names, DeleteBackup(n) PROVE ScheduleInv'
  <2>0. backup \in [Names -> Backup] /\ backup[n] \in Backup /\ now \in 0..MaxTriggers
        /\ pass.doomed \subseteq [name : Names, uid : Nat]
    BY DEF ScheduleInv, TypeOK, Pass, Incarnations
  <2>1. backup' = [backup EXCEPT ![n].life = "deleting"]
    BY <1>11 DEF DeleteBackup
  <2>2. /\ backup'[n] \in Backup /\ backup'[n].life = "deleting" /\ backup'[n].phase = backup[n].phase
        /\ backup'[n].uid = backup[n].uid /\ backup'[n].done = backup[n].done
        /\ backup'[n].scheduled <=> backup[n].scheduled
    BY <2>0, <2>1 DEF Backup
  <2>4. backup' \in [Names -> Backup] /\ \A m \in Names \ {n} : backup'[m] = backup[m]
    BY <2>0, <2>1, <2>2
  <2>5. TypeOK'
    BY <1>11, <2>4 DEF ScheduleInv, TypeOK, DeleteBackup, Act, world
  <2>6. PassedTriggers' /\ EndedBefore'
    BY <1>11, <2>0, <2>2, <2>4 DEF ScheduleInv, PassedTriggers, EndedBefore, At, DeleteBackup, Act, world
  <2>7. Running' \subseteq Running
    BY <1>11, <2>2, <2>4 DEF Running, Listed, Terminal, Ended, DeleteBackup, Act, world
  <2>8. AtMostOne'
    BY <1>11, <2>7 DEF ScheduleInv, AtMostOne, At, DeleteBackup, Act, world
  <2>9. DoomedAreOldest'
    BY <1>11, <2>0, <2>2, <2>4, DoomedStay DEF ScheduleInv, Terminal, Listed, Ended, DeleteBackup, Act, world
  <2> QED
    BY <2>5, <2>6, <2>8, <2>9 DEF ScheduleInv
<1>12. ASSUME NEW n \in Names, ApplyBackup(n) PROVE ScheduleInv'
  <2>0. backup \in [Names -> Backup] /\ backup[n] \in Backup /\ now \in 0..MaxTriggers
        /\ pass.doomed \subseteq [name : Names, uid : Nat]
    BY DEF ScheduleInv, TypeOK, Pass, Incarnations
  <2>1. PICK life \in {"alive", "foreign"} : backup' = [backup EXCEPT ![n] = Applied(backup[n], life, FALSE)]
    BY <1>12 DEF ApplyBackup
  <2>2. /\ backup'[n] \in Backup /\ backup'[n].life = life /\ backup'[n].phase = "open"
        /\ backup'[n].uid = backup[n].uid + 1 /\ backup'[n].done = 0 /\ ~backup'[n].scheduled
    <3> DEFINE q == Applied(backup[n], life, FALSE)
    <3>1. q \in Backup /\ q.life = life /\ q.phase = "open" /\ q.uid = backup[n].uid + 1 /\ q.done = 0
            /\ q.scheduled = FALSE
      BY <2>0, <2>1, AppliedFacts, Zenon
    <3> HIDE DEF q
    <3>2. backup'[n] = q
      BY <2>0, <2>1 DEF q
    <3> QED
      BY <3>1, <3>2
  <2>3. UNCHANGED <<now, last, retained, storage, pass, woken>> /\ acts < MaxActs /\ acts' = acts + 1
    BY <1>12 DEF ApplyBackup, Act
  <2>4. backup' \in [Names -> Backup] /\ \A m \in Names \ {n} : backup'[m] = backup[m]
    BY <2>0, <2>1, <2>2
  <2>5. TypeOK'
    BY <2>3, <2>4 DEF ScheduleInv, TypeOK
  <2>6. PassedTriggers' /\ EndedBefore'
    BY <2>0, <2>2, <2>3, <2>4 DEF ScheduleInv, PassedTriggers, EndedBefore, At
  <2>7. Running' \subseteq Running
    BY <1>12, <2>2, <2>4 DEF Running, Listed, Terminal, Ended, ApplyBackup, Act, world
  <2>8. AtMostOne'
    BY <1>12, <2>7 DEF ScheduleInv, AtMostOne, At, ApplyBackup, Act, world
  <2>9. DoomedAreOldest'
    BY <1>12, <2>0, <2>2, <2>4, DoomedStay DEF ScheduleInv, Terminal, Listed, Ended, ApplyBackup, Act, world
  <2> QED
    BY <2>5, <2>6, <2>8, <2>9 DEF ScheduleInv
<1>13. ASSUME NEW k \in Kinds, ChangeStorage(k) PROVE ScheduleInv'
  <2>1. TypeOK'
    BY <1>13 DEF ScheduleInv, TypeOK, ChangeStorage, Pass, At, Act, Ended
  <2> QED
    BY <1>13, <2>1 DEF ScheduleInv, TypeOK, PassedTriggers, AtMostOne, EndedBefore, DoomedAreOldest,
       Running, Doomed, Listed, Terminal, ChangeStorage, Pass, At, Act
<1>14. ASSUME NEW p \in Ended, LowerBound(p) PROVE ScheduleInv'
  <2>1. /\ pass' \in Pass /\ pass'.at = pass.at /\ pass'.consumed = pass.consumed /\ pass'.due = pass.due
        /\ pass'.kind = pass.kind /\ pass'.doomed = pass.doomed
    <3>1. pass \in Pass
      BY DEF ScheduleInv, TypeOK
    <3>2. CASE At("idle")
      <4>1. pass' = [pass EXCEPT !.current = TRUE]
        BY <1>14, <3>2, Zenon DEF LowerBound
      <4> QED
        BY <3>1, <4>1 DEF Pass
    <3>3. CASE ~At("idle")
      <4>1. At("idle") = FALSE
        BY <3>3 DEF At
      <4>2. pass' = [pass EXCEPT !.current = FALSE]
        BY <1>14, <4>1, Zenon DEF LowerBound
      <4> QED
        BY <3>1, <4>2 DEF Pass
    <3> QED
      BY <3>2, <3>3
  <2>2. TypeOK'
    BY <1>14, <2>1 DEF ScheduleInv, TypeOK, LowerBound, Act, Ended
  <2> QED
    BY <1>14, <2>1, <2>2 DEF ScheduleInv, TypeOK, PassedTriggers, AtMostOne, EndedBefore, DoomedAreOldest,
       Running, Doomed, Listed, Terminal, LowerBound, At, Act
<1>15. ASSUME Recreate PROVE ScheduleInv'
  <2>1. /\ pass' \in Pass /\ pass'.at = pass.at /\ pass'.consumed = pass.consumed /\ pass'.due = pass.due
        /\ pass'.kind = pass.kind /\ pass'.doomed = pass.doomed
    <3>1. pass \in Pass
      BY DEF ScheduleInv, TypeOK
    <3>2. CASE At("idle")
      <4>1. pass' = [pass EXCEPT !.current = TRUE]
        BY <1>15, <3>2, Zenon DEF Recreate
      <4> QED
        BY <3>1, <4>1 DEF Pass
    <3>3. CASE ~At("idle")
      <4>1. At("idle") = FALSE
        BY <3>3 DEF At
      <4>2. pass' = [pass EXCEPT !.current = FALSE]
        BY <1>15, <4>1, Zenon DEF Recreate
      <4> QED
        BY <3>1, <4>2 DEF Pass
    <3> QED
      BY <3>2, <3>3
  <2>2. TypeOK'
    BY <1>15, <2>1 DEF ScheduleInv, TypeOK, Recreate, Act, Ended
  <2> QED
    BY <1>15, <2>1, <2>2 DEF ScheduleInv, TypeOK, PassedTriggers, AtMostOne, EndedBefore, DoomedAreOldest,
       Running, Doomed, Listed, Terminal, Recreate, At, Act
<1>16. CASE UNCHANGED vars
  BY <1>16 DEF ScheduleInv, TypeOK, PassedTriggers, AtMostOne, EndedBefore, DoomedAreOldest,
     Running, Doomed, Listed, Terminal, At, vars
<1> QED
  BY <1>1, <1>2, <1>3, <1>4, <1>5, <1>6, <1>7, <1>8, <1>9, <1>10, <1>11, <1>12, <1>13, <1>14, <1>15, <1>16 DEF Next, Reconcile

-----------------------------------------------------------------------------
(* ScheduleInv holds in every reachable state.                             *)
THEOREM ScheduleInvariant == Spec => []ScheduleInv
<1> QED
  BY InitScheduleInv, ScheduleStep, PTL DEF Spec

(* Every variable keeps its type.                                          *)
THEOREM ScheduleTypeCorrect == Spec => []TypeOK
<1>1. ScheduleInv => TypeOK
  BY DEF ScheduleInv
<1> QED
  BY <1>1, ScheduleInvariant, PTL

(* The backups that the schedule creates never overlap, however often a    *)
(* crash makes it take a trigger again and however users interfere.        *)
THEOREM ScheduledNeverOverlap == Spec => []OneRunning
<1>1. ScheduleInv => OneRunning
  <2> SUFFICES ASSUME ScheduleInv PROVE Cardinality(Running) <= 1
    BY DEF OneRunning, Running
  <2>1. CASE Running = {}
    BY <2>1, FS_EmptySet
  <2>2. CASE Running # {}
    <3>1. PICK n : Running = {n}
      BY <2>2 DEF ScheduleInv, AtMostOne
    <3> QED
      BY <3>1, FS_Singleton
  <2> QED
    BY <2>1, <2>2
<1> QED
  BY <1>1, ScheduleInvariant, PTL

(* The schedule deletes only backups that ended, and the older first.      *)
THEOREM PrunesOnlyTheOldest == Spec => PrunesOldestEnded
<1> DEFINE Good(n) ==
      Prune /\ backup[n].life = "alive" /\ backup'[n].life = "deleting" =>
        /\ Terminal(n)
        /\ \A m \in Names \ {d.name : d \in pass.doomed} :
             backup[m].life = "alive" /\ backup[m].phase = backup[n].phase =>
               backup[m].done >= backup[n].done
<1>1. ScheduleInv /\ [Next]_vars => [\A n \in Names : Good(n)]_vars
  <2> SUFFICES ASSUME ScheduleInv, NEW n \in Names, Prune,
                      backup[n].life = "alive", backup'[n].life = "deleting"
               PROVE  /\ Terminal(n)
                      /\ \A m \in Names \ {d.name : d \in pass.doomed} :
                           backup[m].life = "alive" /\ backup[m].phase = backup[n].phase =>
                             backup[m].done >= backup[n].done
    OBVIOUS
  <2>1. PICK d \in pass.doomed :
          backup' = IF Matches(d) THEN [backup EXCEPT ![d.name].life = "deleting"] ELSE backup
    BY DEF Prune
  <2>2. pass \in Pass /\ backup \in [Names -> Backup] /\ d \in [name : Names, uid : Nat]
    BY <2>1 DEF ScheduleInv, TypeOK, Pass, Incarnations
  <2>3. Matches(d)
    BY <2>1
  <2>4. d.name = n
    BY <2>1, <2>2, <2>3
  <2>5. [name |-> n, uid |-> backup[n].uid] = d
    BY <2>2, <2>3, <2>4 DEF Matches
  <2>6. Doomed(n) /\ n \in Listed
    BY <2>1, <2>5 DEF Doomed, Listed
  <2>7. \A m \in Names \ {e.name : e \in pass.doomed} : ~Doomed(m)
    BY DEF Doomed
  <2> QED
    BY <2>1, <2>4, <2>6, <2>7 DEF ScheduleInv, DoomedAreOldest
<1> QED
  BY <1>1, ScheduleInvariant, PTL DEF Spec, PrunesOldestEnded
=============================================================================
