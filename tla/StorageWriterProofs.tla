----------------------- MODULE StorageWriterProofs ------------------------
(***************************************************************************)
(* Proofs about StorageWriter, for every set of clusters, backends and     *)
(* restores and every number of user actions.                              *)
(***************************************************************************)
EXTENDS StorageWriter, TLAPS

(* A cluster that is alive, or that still has a pass, answers for every    *)
(* backend that it can write.                                              *)
Bound(c) == life[c] = "alive" \/ pass[c].at # "idle"

CanWrite(c, b) == <<c, b>> \in pods \/ (asked[c] /\ b \in {tmpl[c], old[c]})

(* What the look of another cluster sees of it, once it is not bound.      *)
Writes(c, b) == CanWrite(c, b) /\ (Bound(c) \/ tmpl[c] = b)

(* A cluster that is about to render with replicas.                        *)
Cleared(c) == pass[c].at = "render" /\ ~pass[c].wait /\ ~pass[c].stop

(* A restore that writes, or whose Job has a pod or can start one.         *)
Busy(r) == doing[r] = "writing" \/ r \in jobs \cup dumps

GoneIsIdle == \A c \in Clusters : life[c] = "gone" => pass[c].at = "idle"

OnePod ==
  \A c \in Clusters, a, b \in Backends : <<c, a>> \in pods /\ <<c, b>> \in pods => a = b

HoldsWhatItWrites ==
  \A c \in Clusters, b \in Backends : Bound(c) /\ CanWrite(c, b) => lease[b] = c

NoTwoWrite ==
  \A c, d \in Clusters, b \in Backends : c # d => ~(Writes(c, b) /\ Writes(d, b))

(* A pass past the claim has a backend, and so has what it rendered.       *)
KeyIsBackend ==
  \A c \in Clusters :
    /\ pass[c].at \in {"unclaimed", "create", "gate", "render"} => pass[c].key \in Backends
    /\ asked[c] => tmpl[c] \in Backends /\ old[c] \in Backends

KeyIsHeld ==
  \A c \in Clusters : pass[c].at = "gate" \/ Cleared(c) => lease[pass[c].key] = c

KeyIsFree ==
  \A c \in Clusters : Cleared(c) =>
    /\ \A d \in Clusters \ {c} : ~Writes(d, pass[c].key)
    /\ \A r \in Restores : Busy(r) /\ goal[r] = pass[c].key => target[r] = c

(* What a pass is about to free: at first no pod but those that the        *)
(* StatefulSet can start again is on it, then nothing can write it.        *)
LeftAtRollouts ==
  \A c \in Clusters : pass[c].at = "rollouts" =>
    \A b \in pass[c].free : <<c, b>> \in pods => asked[c] /\ b \in {tmpl[c], old[c]}

LeftAtFree ==
  \A c \in Clusters : pass[c].at = "free" => \A b \in pass[c].free : ~CanWrite(c, b)

GoalIsBackend ==
  \A r \in Restores :
    Busy(r) \/ doing[r] \in {"looked", "registered"} => goal[r] \in Backends

(* A restore has a Job only after it began to write.                       *)
JobIsLate ==
  \A r \in Restores :
    doing[r] \in {"idle", "prepare", "looked", "registered", "over"} => r \notin jobs \cup dumps

RestoreWritesAlone ==
  \A r \in Restores, c \in Clusters : Busy(r) /\ c # target[r] => ~Writes(c, goal[r])

Rest ==
  /\ GoneIsIdle /\ OnePod /\ HoldsWhatItWrites /\ NoTwoWrite
  /\ KeyIsBackend /\ KeyIsHeld /\ KeyIsFree /\ LeftAtRollouts /\ LeftAtFree
  /\ GoalIsBackend /\ JobIsLate /\ RestoreWritesAlone

StorageInv == TypeOK /\ Rest

-----------------------------------------------------------------------------
(* The initial states satisfy the invariant.                               *)
LEMMA InitStorageInv == Init => StorageInv
<1> SUFFICES ASSUME Init PROVE StorageInv
  OBVIOUS
<1>1. Idle \in Passes
  BY DEF Idle, Passes
<1>2. TypeOK
  BY <1>1, StorageWriterConstants DEF Init, TypeOK
<1>3. Rest
  BY StorageWriterConstants DEF Init, Rest, GoneIsIdle, OnePod, HoldsWhatItWrites, NoTwoWrite,
     KeyIsBackend, KeyIsHeld, KeyIsFree, LeftAtRollouts, LeftAtFree, GoalIsBackend,
     JobIsLate, RestoreWritesAlone, Writes, CanWrite, Bound, Cleared, Idle, Busy
<1> QED
  BY <1>2, <1>3 DEF StorageInv

(* A step of the pass of one cluster leaves the passes of the others.      *)
LEMMA GotoFacts ==
  ASSUME TypeOK, NEW c \in Clusters, NEW p \in Passes, Goto(c, p)
  PROVE  /\ pass' \in [Clusters -> Passes] /\ pass'[c] = p
         /\ \A d \in Clusters \ {c} : pass'[d] = pass[d]
BY DEF Goto, TypeOK

(* The passes that a step of a pass goes to.                               *)
LEMMA PassEdits ==
  ASSUME NEW p \in Passes, NEW key \in Backends, NEW stop \in BOOLEAN
  PROVE  /\ Idle \in Passes
         /\ [Idle EXCEPT !.key = key, !.stop = stop, !.keep = key] \in Passes
         /\ \A at \in {"unclaimed", "create", "gate", "render", "look", "rollouts", "free"} :
              /\ [p EXCEPT !.at = at] \in Passes
              /\ \A v \in BOOLEAN : [p EXCEPT !.at = at, !.wait = v] \in Passes
              /\ \A b \in Backends : [p EXCEPT !.at = at, !.keep = b] \in Passes
              /\ \A f \in SUBSET Backends : [p EXCEPT !.at = at, !.free = f] \in Passes
BY ZenonT(60) DEF Passes, Idle
(* A step that starts nothing, and after which no restore writes that did  *)
(* not write before.                                                       *)
LEMMA StillKeeps ==
  ASSUME StorageInv, TypeOK', GoalIsBackend',
         lease' = lease, workload' = workload, pods' = pods, pass' = pass,
         \A c \in Clusters : (life'[c] = "alive") => (life[c] = "alive"),
         \A c \in Clusters : (life'[c] = "gone") => (life[c] = "gone"),
         \A r \in Restores : Busy(r)' =>
           Busy(r) /\ goal'[r] = goal[r] /\ target'[r] = target[r],
         JobIsLate'
  PROVE  StorageInv'
<1>1. tmpl' = tmpl /\ asked' = asked /\ old' = old
  BY DEF workload
<1>2. GoneIsIdle'
  BY <1>1 DEF StorageInv, Rest, GoneIsIdle
<1>3. OnePod'
  BY <1>1 DEF StorageInv, Rest, OnePod
<1>4. HoldsWhatItWrites'
  BY <1>1 DEF StorageInv, Rest, HoldsWhatItWrites, CanWrite, Bound
<1>5. NoTwoWrite'
  BY <1>1 DEF StorageInv, Rest, NoTwoWrite, Writes, CanWrite, Bound
<1>6. KeyIsBackend'
  BY <1>1 DEF StorageInv, Rest, KeyIsBackend
<1>7. KeyIsHeld'
  BY <1>1 DEF StorageInv, Rest, KeyIsHeld, Cleared
<1>8. KeyIsFree'
  BY <1>1 DEF StorageInv, Rest, KeyIsFree, Cleared, Writes, CanWrite, Bound, Busy
<1>9. LeftAtRollouts'
  BY <1>1 DEF StorageInv, Rest, LeftAtRollouts
<1>10. LeftAtFree'
  BY <1>1 DEF StorageInv, Rest, LeftAtFree, CanWrite
<1>11. GoalIsBackend'
  BY <1>1 DEF StorageInv, Rest, GoalIsBackend, Busy
<1>13. JobIsLate'
  BY <1>1 DEF StorageInv, Rest, JobIsLate
<1>12. RestoreWritesAlone'
  BY <1>1 DEF StorageInv, Rest, RestoreWritesAlone, Writes, CanWrite, Bound, Busy
<1> QED
  BY <1>2, <1>3, <1>4, <1>5, <1>6, <1>7, <1>8, <1>9, <1>10, <1>11, <1>12, <1>13 DEF
     StorageInv, Rest

(* The claim of a pass begins: the Lease of a cluster that is gone is taken. *)
LEMMA BeginKeeps ==
  ASSUME StorageInv, NEW c \in Clusters, Begin(c)
  PROVE  StorageInv'
<1>a. PICK p \in Passes : /\ Goto(c, p)
                          /\ p.key \in Backends
                          /\ \/ p.at = "gate" /\ lease[p.key] = c /\ lease' = lease
                             \/ p.at = "unclaimed" /\ lease' = lease
                             \/ p.at = "render" /\ p.wait /\ lease' = lease
                             \/ \E d \in Clusters \ {c} :
                                  /\ p.at = "gate" /\ lease[p.key] = d /\ life[d] = "gone"
                                  /\ lease' = [lease EXCEPT ![p.key] = c]
  <2> DEFINE b == points[c]
             begun == [Idle EXCEPT !.key = b, !.stop = SuspendRequested(c), !.keep = b]
  <2>1. SuspendRequested(c) \in BOOLEAN /\ b \in Backends
    BY DEF StorageInv, TypeOK, SuspendRequested
  <2>2. begun \in Passes /\ begun.key = b
    BY <2>1, StorageWriterConstants DEF Idle, Passes
  <2> DEFINE q(at) == [begun EXCEPT !.at = at]
             held == [[begun EXCEPT !.held = TRUE] EXCEPT !.at = "gate"]
             wait == [[begun EXCEPT !.wait = TRUE] EXCEPT !.at = "render"]
  <2>3. /\ held \in Passes /\ held.key = b /\ held.at = "gate"
        /\ wait \in Passes /\ wait.key = b /\ wait.at = "render" /\ wait.wait
    BY <2>2 DEF Passes
  <2>4. /\ q("gate") \in Passes /\ q("gate").key = b /\ q("gate").at = "gate"
        /\ q("unclaimed") \in Passes /\ q("unclaimed").key = b
        /\ q("unclaimed").at = "unclaimed"
    BY <2>2 DEF Passes
  <2>5. \/ lease[b] = c /\ Goto(c, held) /\ UNCHANGED lease
        \/ lease[b] = None /\ Goto(c, q("unclaimed")) /\ UNCHANGED lease
        \/ \E d \in Clusters \ {c} :
             /\ lease[b] = d
             /\ IF life[d] = "gone"
                THEN SetLease(b, c) /\ Goto(c, q("gate"))
                ELSE Goto(c, wait) /\ UNCHANGED lease
    BY Zenon DEF Begin
  <2> HIDE DEF held, wait, q, begun
  <2> QED
    BY <2>1, <2>3, <2>4, <2>5 DEF SetLease
<1>b. /\ pass' \in [Clusters -> Passes] /\ pass'[c] = p
      /\ \A d \in Clusters \ {c} : pass'[d] = pass[d]
  BY <1>a, GotoFacts DEF StorageInv
<1>c. /\ life' = life /\ points' = points /\ suspend' = suspend /\ changes' = changes
      /\ tmpl' = tmpl /\ asked' = asked /\ old' = old
      /\ doing' = doing /\ target' = target /\ goal' = goal /\ jobs' = jobs /\ dumps' = dumps
      /\ pods' = pods
      /\ life[c] = "alive" /\ pass[c].at = "idle"
  BY StorageWriterConstants DEF StorageInv, Rest, TypeOK, KeyIsBackend,
     world, workload, restores, Begin, At, Goto, SetLease, SuspendRequested
<1>1. TypeOK'
  BY <1>a, <1>b, <1>c, StorageWriterConstants DEF StorageInv, TypeOK
<1>2. GoneIsIdle'
  BY <1>a, <1>b, <1>c DEF StorageInv, Rest, GoneIsIdle
<1>3. OnePod'
  BY <1>a, <1>b, <1>c DEF StorageInv, Rest, OnePod
<1>4. HoldsWhatItWrites'
  BY <1>a, <1>b, <1>c, StorageWriterConstants DEF StorageInv, Rest,
     HoldsWhatItWrites, CanWrite, Bound, TypeOK, GoneIsIdle
<1>5. NoTwoWrite'
  BY <1>a, <1>b, <1>c DEF StorageInv, Rest, NoTwoWrite, Writes, CanWrite,
     Bound
<1>6. KeyIsBackend'
  BY <1>a, <1>b, <1>c DEF StorageInv, Rest, KeyIsBackend
<1>7. KeyIsHeld'
  BY <1>a, <1>b, <1>c, StorageWriterConstants DEF StorageInv, Rest,
     KeyIsHeld, Cleared, TypeOK, KeyIsBackend, GoneIsIdle
<1>8. KeyIsFree'
  BY <1>a, <1>b, <1>c DEF StorageInv, Rest, KeyIsFree, Cleared, Writes,
     CanWrite, Bound, Busy
<1>9. LeftAtRollouts'
  BY <1>a, <1>b, <1>c DEF StorageInv, Rest, LeftAtRollouts
<1>10. LeftAtFree'
  BY <1>a, <1>b, <1>c DEF StorageInv, Rest, LeftAtFree, CanWrite
<1>11. GoalIsBackend'
  BY <1>a, <1>b, <1>c DEF StorageInv, Rest, GoalIsBackend, Busy
<1>13. JobIsLate'
  BY <1>a, <1>b, <1>c DEF StorageInv, Rest, JobIsLate
<1>12. RestoreWritesAlone'
  BY <1>a, <1>b, <1>c DEF StorageInv, Rest, RestoreWritesAlone, Writes,
     CanWrite, Bound, Busy
<1> QED
  BY <1>1, <1>2, <1>3, <1>4, <1>5, <1>6, <1>7, <1>8, <1>9, <1>10, <1>11,
     <1>12, <1>13 DEF StorageInv, Rest

(* The look of TakeUnclaimed writes nothing.                               *)
LEMMA UnclaimedKeeps ==
  ASSUME StorageInv, NEW c \in Clusters, Unclaimed(c)
  PROVE  StorageInv'
<1> DEFINE p == IF Writers(c, pass[c].key) THEN [pass[c] EXCEPT !.at = "render", !.wait = TRUE]
                ELSE [pass[c] EXCEPT !.at = "create"]
<1>a. /\ p \in Passes /\ Goto(c, p)
      /\ p.key = pass[c].key
      /\ p.at = "create" \/ (p.at = "render" /\ p.wait)
  <2>1. pass[c] \in Passes /\ Idle \in Passes
    BY StorageWriterConstants DEF StorageInv, TypeOK, Idle, Passes
  <2>2. /\ p \in Passes
        /\ p.key = pass[c].key
        /\ p.at = "create" \/ (p.at = "render" /\ p.wait)
    BY <2>1 DEF Passes
  <2>3. Goto(c, p)
    BY <2>1, Zenon DEF Unclaimed, At, Goto
  <2> QED
    BY <2>2, <2>3
<1> HIDE DEF p
<1>b. /\ pass' \in [Clusters -> Passes] /\ pass'[c] = p
      /\ \A d \in Clusters \ {c} : pass'[d] = pass[d]
  BY <1>a, GotoFacts DEF StorageInv
<1>c. /\ life' = life /\ points' = points /\ suspend' = suspend /\ changes' = changes
      /\ tmpl' = tmpl /\ asked' = asked /\ old' = old
      /\ doing' = doing /\ target' = target /\ goal' = goal /\ jobs' = jobs /\ dumps' = dumps
      /\ pods' = pods
      /\ lease' = lease
      /\ pass[c].at = "unclaimed"
  BY StorageWriterConstants DEF StorageInv, Rest, TypeOK, KeyIsBackend,
     world, workload, restores, Unclaimed, At, Goto
<1>1. TypeOK'
  BY <1>a, <1>b, <1>c, StorageWriterConstants DEF StorageInv, TypeOK
<1>2. GoneIsIdle'
  BY <1>a, <1>b, <1>c DEF StorageInv, Rest, GoneIsIdle
<1>3. OnePod'
  BY <1>a, <1>b, <1>c DEF StorageInv, Rest, OnePod
<1>4. HoldsWhatItWrites'
  BY <1>a, <1>b, <1>c DEF StorageInv, Rest, HoldsWhatItWrites, CanWrite,
     Bound
<1>5. NoTwoWrite'
  BY <1>a, <1>b, <1>c DEF StorageInv, Rest, NoTwoWrite, Writes, CanWrite,
     Bound
<1>6. KeyIsBackend'
  BY <1>a, <1>b, <1>c DEF StorageInv, Rest, KeyIsBackend
<1>7. KeyIsHeld'
  BY <1>a, <1>b, <1>c DEF StorageInv, Rest, KeyIsHeld, Cleared
<1>8. KeyIsFree'
  BY <1>a, <1>b, <1>c DEF StorageInv, Rest, KeyIsFree, Cleared, Writes,
     CanWrite, Bound, Busy
<1>9. LeftAtRollouts'
  BY <1>a, <1>b, <1>c DEF StorageInv, Rest, LeftAtRollouts
<1>10. LeftAtFree'
  BY <1>a, <1>b, <1>c DEF StorageInv, Rest, LeftAtFree, CanWrite
<1>11. GoalIsBackend'
  BY <1>a, <1>b, <1>c DEF StorageInv, Rest, GoalIsBackend, Busy
<1>13. JobIsLate'
  BY <1>a, <1>b, <1>c DEF StorageInv, Rest, JobIsLate
<1>12. RestoreWritesAlone'
  BY <1>a, <1>b, <1>c DEF StorageInv, Rest, RestoreWritesAlone, Writes,
     CanWrite, Bound, Busy
<1> QED
  BY <1>1, <1>2, <1>3, <1>4, <1>5, <1>6, <1>7, <1>8, <1>9, <1>10, <1>11,
     <1>12, <1>13 DEF StorageInv, Rest

(* The create takes a Lease that nobody has.                               *)
LEMMA CreateKeeps ==
  ASSUME StorageInv, NEW c \in Clusters, Create(c)
  PROVE  StorageInv'
<1> DEFINE p == IF lease[pass[c].key] = None THEN [pass[c] EXCEPT !.at = "gate"]
                ELSE [pass[c] EXCEPT !.at = "render", !.wait = TRUE]
<1>a. /\ p \in Passes /\ Goto(c, p)
      /\ p.key = pass[c].key
      /\ \/ p.at = "gate" /\ lease[p.key] = None /\ lease' = [lease EXCEPT ![p.key] = c]
         \/ p.at = "render" /\ p.wait /\ lease' = lease
  <2>1. pass[c] \in Passes /\ Idle \in Passes
    BY StorageWriterConstants DEF StorageInv, TypeOK, Idle, Passes
  <2>2. /\ p \in Passes
        /\ p.key = pass[c].key
    BY <2>1 DEF Passes
  <2>3. Goto(c, p)
    BY <2>1, Zenon DEF Create, At, Goto, SetLease
  <2>4. /\ \/ p.at = "gate" /\ lease[p.key] = None /\ lease' = [lease EXCEPT ![p.key] = c]
           \/ p.at = "render" /\ p.wait /\ lease' = lease
    BY <2>1 DEF Passes, Create, At, Goto, SetLease
  <2> QED
    BY <2>2, <2>3, <2>4
<1> HIDE DEF p
<1>b. /\ pass' \in [Clusters -> Passes] /\ pass'[c] = p
      /\ \A d \in Clusters \ {c} : pass'[d] = pass[d]
  BY <1>a, GotoFacts DEF StorageInv
<1>c. /\ life' = life /\ points' = points /\ suspend' = suspend /\ changes' = changes
      /\ tmpl' = tmpl /\ asked' = asked /\ old' = old
      /\ doing' = doing /\ target' = target /\ goal' = goal /\ jobs' = jobs /\ dumps' = dumps
      /\ pods' = pods
      /\ pass[c].at = "create" /\ pass[c].key \in Backends
  BY StorageWriterConstants DEF StorageInv, Rest, TypeOK, KeyIsBackend,
     world, workload, restores, Create, At, Goto, SetLease
<1>1. TypeOK'
  BY <1>a, <1>b, <1>c, StorageWriterConstants DEF StorageInv, TypeOK
<1>2. GoneIsIdle'
  BY <1>a, <1>b, <1>c DEF StorageInv, Rest, GoneIsIdle
<1>3. OnePod'
  BY <1>a, <1>b, <1>c DEF StorageInv, Rest, OnePod
<1>4. HoldsWhatItWrites'
  BY <1>a, <1>b, <1>c, StorageWriterConstants DEF StorageInv, Rest,
     HoldsWhatItWrites, CanWrite, Bound, TypeOK, GoneIsIdle
<1>5. NoTwoWrite'
  BY <1>a, <1>b, <1>c DEF StorageInv, Rest, NoTwoWrite, Writes, CanWrite,
     Bound
<1>6. KeyIsBackend'
  BY <1>a, <1>b, <1>c DEF StorageInv, Rest, KeyIsBackend
<1>7. KeyIsHeld'
  BY <1>a, <1>b, <1>c, StorageWriterConstants DEF StorageInv, Rest,
     KeyIsHeld, Cleared, TypeOK, KeyIsBackend, GoneIsIdle
<1>8. KeyIsFree'
  BY <1>a, <1>b, <1>c DEF StorageInv, Rest, KeyIsFree, Cleared, Writes,
     CanWrite, Bound, Busy
<1>9. LeftAtRollouts'
  BY <1>a, <1>b, <1>c DEF StorageInv, Rest, LeftAtRollouts
<1>10. LeftAtFree'
  BY <1>a, <1>b, <1>c DEF StorageInv, Rest, LeftAtFree, CanWrite
<1>11. GoalIsBackend'
  BY <1>a, <1>b, <1>c DEF StorageInv, Rest, GoalIsBackend, Busy
<1>13. JobIsLate'
  BY <1>a, <1>b, <1>c DEF StorageInv, Rest, JobIsLate
<1>12. RestoreWritesAlone'
  BY <1>a, <1>b, <1>c DEF StorageInv, Rest, RestoreWritesAlone, Writes,
     CanWrite, Bound, Busy
<1> QED
  BY <1>1, <1>2, <1>3, <1>4, <1>5, <1>6, <1>7, <1>8, <1>9, <1>10, <1>11,
     <1>12, <1>13 DEF StorageInv, Rest

(* A pass whose gate lets it render with replicas either has its own pod on *)
(* the backend, or saw nobody else who could write it.                      *)
LEMMA GateKeeps ==
  ASSUME StorageInv, NEW c \in Clusters, Gate(c)
  PROVE  StorageInv'
<1> DEFINE p == [pass[c] EXCEPT !.at = "render",
                  !.wait = (~pass[c].stop /\ (~pass[c].held \/ pass[c].key \notin PodsOf(c)))
                              /\ Writers(c, pass[c].key)]
<1>a. /\ p \in Passes /\ Goto(c, p)
      /\ p.key = pass[c].key /\ p.at = "render"
      /\ ~p.wait /\ ~p.stop /\ p.key \in Backends => <<c, p.key>> \in pods \/ ~Writers(c, p.key)
  <2>1. pass[c] \in Passes /\ Idle \in Passes
    BY StorageWriterConstants DEF StorageInv, TypeOK, Idle, Passes
  <2>2. /\ p \in Passes
        /\ p.key = pass[c].key /\ p.at = "render"
        /\ ~p.wait /\ ~p.stop /\ p.key \in Backends => <<c, p.key>> \in pods \/ ~Writers(c, p.key)
    BY <2>1 DEF Passes, PodsOf
  <2>3. Goto(c, p)
    BY <2>1, Zenon DEF Gate, At, Goto
  <2> QED
    BY <2>2, <2>3
<1> HIDE DEF p
<1>b. /\ pass' \in [Clusters -> Passes] /\ pass'[c] = p
      /\ \A d \in Clusters \ {c} : pass'[d] = pass[d]
  BY <1>a, GotoFacts DEF StorageInv
<1>c. /\ life' = life /\ points' = points /\ suspend' = suspend /\ changes' = changes
      /\ tmpl' = tmpl /\ asked' = asked /\ old' = old
      /\ doing' = doing /\ target' = target /\ goal' = goal /\ jobs' = jobs /\ dumps' = dumps
      /\ pods' = pods
      /\ lease' = lease
      /\ pass[c].at = "gate" /\ pass[c].key \in Backends
  BY StorageWriterConstants DEF StorageInv, Rest, TypeOK, KeyIsBackend,
     world, workload, restores, Gate, At, Goto
<1>1. TypeOK'
  BY <1>a, <1>b, <1>c, StorageWriterConstants DEF StorageInv, TypeOK
<1>2. GoneIsIdle'
  BY <1>a, <1>b, <1>c DEF StorageInv, Rest, GoneIsIdle
<1>3. OnePod'
  BY <1>a, <1>b, <1>c DEF StorageInv, Rest, OnePod
<1>4. HoldsWhatItWrites'
  BY <1>a, <1>b, <1>c DEF StorageInv, Rest, HoldsWhatItWrites, CanWrite,
     Bound
<1>5. NoTwoWrite'
  BY <1>a, <1>b, <1>c DEF StorageInv, Rest, NoTwoWrite, Writes, CanWrite,
     Bound
<1>6. KeyIsBackend'
  BY <1>a, <1>b, <1>c DEF StorageInv, Rest, KeyIsBackend
<1>7. KeyIsHeld'
  BY <1>a, <1>b, <1>c DEF StorageInv, Rest, KeyIsHeld, Cleared
<1>8. KeyIsFree'
  <2>1. \A d \in Clusters \ {c} : Cleared(d)' => Cleared(d) /\ pass'[d].key = pass[d].key
    BY <1>b DEF Cleared
  <2>2. \A d \in Clusters : \A b : Writes(d, b)' = Writes(d, b)
    BY <1>a, <1>b, <1>c DEF Writes, CanWrite, Bound
  <2>3. ASSUME Cleared(c)', NEW d \in Clusters \ {c}
        PROVE  ~Writes(d, p.key)
    BY ZenonT(60), <1>a, <1>b, <1>c, <2>3 DEF StorageInv, Rest, Cleared, Writes, CanWrite, Bound, KeyIsHeld,
       HoldsWhatItWrites, NoTwoWrite, Writers, OthersOnClaim, ClusterOnClaim
  <2>4. ASSUME Cleared(c)', NEW r \in Restores, Busy(r), goal[r] = p.key
        PROVE  target[r] = c
    BY <1>a, <1>b, <1>c, <2>3, <2>4 DEF StorageInv, Rest, Cleared, Writes, CanWrite, Bound,
       RestoreWritesAlone, Writers, Live, Registered, OthersOnClaim, JobOnClaim, Busy
  <2>5. ASSUME NEW d \in Clusters, Cleared(d)'
        PROVE  /\ \A e \in Clusters \ {d} : ~Writes(e, pass'[d].key)
               /\ \A r \in Restores : Busy(r) /\ goal[r] = pass'[d].key =>
                    target[r] = d
    <3>1. CASE d = c
      BY <1>b, <2>3, <2>4, <2>5, <3>1
    <3>2. CASE d # c
      BY <2>1, <2>5, <3>2 DEF StorageInv, Rest, KeyIsFree
    <3> QED
      BY <3>1, <3>2
  <2> QED
    BY <1>b, <1>c, <2>2, <2>5 DEF KeyIsFree, Busy
<1>9. LeftAtRollouts'
  BY <1>a, <1>b, <1>c DEF StorageInv, Rest, LeftAtRollouts
<1>10. LeftAtFree'
  BY <1>a, <1>b, <1>c DEF StorageInv, Rest, LeftAtFree, CanWrite
<1>11. GoalIsBackend'
  BY <1>a, <1>b, <1>c DEF StorageInv, Rest, GoalIsBackend, Busy
<1>13. JobIsLate'
  BY <1>a, <1>b, <1>c DEF StorageInv, Rest, JobIsLate
<1>12. RestoreWritesAlone'
  BY <1>a, <1>b, <1>c DEF StorageInv, Rest, RestoreWritesAlone, Writes,
     CanWrite, Bound, Busy
<1> QED
  BY <1>1, <1>2, <1>3, <1>4, <1>5, <1>6, <1>7, <1>8, <1>9, <1>10, <1>11,
     <1>12, <1>13 DEF StorageInv, Rest

(* What a pass renders with replicas is a backend that it holds and that   *)
(* nobody else can write.                                                  *)
LEMMA RenderKeeps ==
  ASSUME StorageInv, NEW c \in Clusters, Render(c)
  PROVE  StorageInv'
<1> DEFINE p == [pass[c] EXCEPT !.at = "look"]
<1>a. /\ p \in Passes /\ Goto(c, p)
      /\ p.at = "look"
  <2>1. pass[c] \in Passes /\ Idle \in Passes
    BY StorageWriterConstants DEF StorageInv, TypeOK, Idle, Passes
  <2>2. /\ p \in Passes
        /\ p.at = "look"
    BY <2>1 DEF Passes
  <2>3. Goto(c, p)
    BY <2>1, Zenon DEF Render, At, Cleared, Goto
  <2> QED
    BY <2>2, <2>3
<1> HIDE DEF p
<1>b. /\ pass' \in [Clusters -> Passes] /\ pass'[c] = p
      /\ \A d \in Clusters \ {c} : pass'[d] = pass[d]
  BY <1>a, GotoFacts DEF StorageInv
<1>c. /\ life' = life /\ points' = points /\ suspend' = suspend /\ changes' = changes
      /\ doing' = doing /\ target' = target /\ goal' = goal /\ jobs' = jobs /\ dumps' = dumps
      /\ pods' = pods
      /\ lease' = lease
      /\ pass[c].at = "render" /\ pass[c].key \in Backends
      /\ tmpl' \in [Clusters -> Backends \cup {None}] /\ tmpl'[c] = pass[c].key
      /\ asked' \in [Clusters -> BOOLEAN] /\ (asked'[c] <=> Cleared(c))
      /\ old' \in [Clusters -> Backends \cup {None}]
      /\ old'[c] = pass[c].key \/ (asked[c] /\ old'[c] = old[c])
      /\ \A d \in Clusters \ {c} : tmpl'[d] = tmpl[d] /\ asked'[d] = asked[d] /\ old'[d] = old[d]
  BY StorageWriterConstants DEF StorageInv, Rest, TypeOK, KeyIsBackend,
     world, workload, restores, Render, At, Cleared, Goto
<1>1. TypeOK'
  BY <1>a, <1>b, <1>c, StorageWriterConstants DEF StorageInv, TypeOK
<1>2. GoneIsIdle'
  BY <1>a, <1>b, <1>c DEF StorageInv, Rest, GoneIsIdle
<1>3. OnePod'
  BY <1>a, <1>b, <1>c DEF StorageInv, Rest, OnePod
<1>4. HoldsWhatItWrites'
  BY <1>a, <1>b, <1>c DEF StorageInv, Rest, HoldsWhatItWrites, CanWrite,
     Bound, KeyIsHeld, Cleared
<1>5. NoTwoWrite'
  BY <1>a, <1>b, <1>c DEF StorageInv, Rest, NoTwoWrite, Writes, CanWrite,
     Bound, KeyIsFree, Cleared
<1>6. KeyIsBackend'
  BY <1>a, <1>b, <1>c DEF StorageInv, Rest, KeyIsBackend
<1>7. KeyIsHeld'
  BY <1>a, <1>b, <1>c DEF StorageInv, Rest, KeyIsHeld, Cleared
<1>8. KeyIsFree'
  BY <1>a, <1>b, <1>c DEF StorageInv, Rest, KeyIsFree, Cleared, Writes,
     CanWrite, Bound, KeyIsHeld, Busy
<1>9. LeftAtRollouts'
  BY <1>a, <1>b, <1>c DEF StorageInv, Rest, LeftAtRollouts
<1>10. LeftAtFree'
  BY <1>a, <1>b, <1>c DEF StorageInv, Rest, LeftAtFree, CanWrite
<1>11. GoalIsBackend'
  BY <1>a, <1>b, <1>c DEF StorageInv, Rest, GoalIsBackend, Busy
<1>13. JobIsLate'
  BY <1>a, <1>b, <1>c DEF StorageInv, Rest, JobIsLate
<1>12. RestoreWritesAlone'
  BY <1>a, <1>b, <1>c DEF StorageInv, Rest, RestoreWritesAlone, Writes,
     CanWrite, Bound, KeyIsFree, Cleared, Busy
<1> QED
  BY <1>1, <1>2, <1>3, <1>4, <1>5, <1>6, <1>7, <1>8, <1>9, <1>10, <1>11,
     <1>12, <1>13 DEF StorageInv, Rest

(* A refused version change applies nothing.                               *)
LEMMA RefuseKeeps ==
  ASSUME StorageInv, NEW c \in Clusters, Refuse(c)
  PROVE  StorageInv'
<1>a. PICK p \in Passes : /\ Goto(c, p)
                          /\ p.at = "look"
  <2>1. PICK b \in Backends : Goto(c, [pass[c] EXCEPT !.at = "look", !.keep = b])
    BY DEF Refuse, At, PodsOf, StorageInv, Rest, KeyIsBackend
  <2> DEFINE q == [pass[c] EXCEPT !.at = "look", !.keep = b]
  <2>2. q \in Passes /\ q.at = "look" /\ Goto(c, q)
    BY ZenonT(60), <2>1 DEF StorageInv, TypeOK, Passes
  <2> HIDE DEF q
  <2> QED
    BY <2>2
<1>b. /\ pass' \in [Clusters -> Passes] /\ pass'[c] = p
      /\ \A d \in Clusters \ {c} : pass'[d] = pass[d]
  BY <1>a, GotoFacts DEF StorageInv
<1>c. /\ life' = life /\ points' = points /\ suspend' = suspend /\ changes' = changes
      /\ tmpl' = tmpl /\ asked' = asked /\ old' = old
      /\ doing' = doing /\ target' = target /\ goal' = goal /\ jobs' = jobs /\ dumps' = dumps
      /\ pods' = pods
      /\ lease' = lease
      /\ pass[c].at = "render"
  BY StorageWriterConstants DEF StorageInv, Rest, TypeOK, KeyIsBackend,
     world, workload, restores, Refuse, At, Goto
<1>1. TypeOK'
  BY <1>a, <1>b, <1>c, StorageWriterConstants DEF StorageInv, TypeOK
<1>2. GoneIsIdle'
  BY <1>a, <1>b, <1>c DEF StorageInv, Rest, GoneIsIdle
<1>3. OnePod'
  BY <1>a, <1>b, <1>c DEF StorageInv, Rest, OnePod
<1>4. HoldsWhatItWrites'
  BY <1>a, <1>b, <1>c DEF StorageInv, Rest, HoldsWhatItWrites, CanWrite,
     Bound
<1>5. NoTwoWrite'
  BY <1>a, <1>b, <1>c DEF StorageInv, Rest, NoTwoWrite, Writes, CanWrite,
     Bound
<1>6. KeyIsBackend'
  BY <1>a, <1>b, <1>c DEF StorageInv, Rest, KeyIsBackend
<1>7. KeyIsHeld'
  BY <1>a, <1>b, <1>c DEF StorageInv, Rest, KeyIsHeld, Cleared
<1>8. KeyIsFree'
  BY <1>a, <1>b, <1>c DEF StorageInv, Rest, KeyIsFree, Cleared, Writes,
     CanWrite, Bound, Busy
<1>9. LeftAtRollouts'
  BY <1>a, <1>b, <1>c DEF StorageInv, Rest, LeftAtRollouts
<1>10. LeftAtFree'
  BY <1>a, <1>b, <1>c DEF StorageInv, Rest, LeftAtFree, CanWrite
<1>11. GoalIsBackend'
  BY <1>a, <1>b, <1>c DEF StorageInv, Rest, GoalIsBackend, Busy
<1>13. JobIsLate'
  BY <1>a, <1>b, <1>c DEF StorageInv, Rest, JobIsLate
<1>12. RestoreWritesAlone'
  BY <1>a, <1>b, <1>c DEF StorageInv, Rest, RestoreWritesAlone, Writes,
     CanWrite, Bound, Busy
<1> QED
  BY <1>1, <1>2, <1>3, <1>4, <1>5, <1>6, <1>7, <1>8, <1>9, <1>10, <1>11,
     <1>12, <1>13 DEF StorageInv, Rest

(* A pre-check that fails can stop the workload, never start it.           *)
LEMMA FailPreCheckKeeps ==
  ASSUME StorageInv, NEW c \in Clusters, FailPreCheck(c)
  PROVE  StorageInv'
<1>a. PICK p \in Passes : /\ Goto(c, p)
                          /\ p.at \in {"idle", "look"}
  <2>1. CASE UNCHANGED pass
    BY <2>1 DEF Goto, StorageInv, TypeOK, FailPreCheck, At
  <2>2. CASE \E b \in PodsOf(c) : Goto(c, [Idle EXCEPT !.at = "look", !.keep = b])
    <3>1. PICK b \in Backends : Goto(c, [Idle EXCEPT !.at = "look", !.keep = b])
      BY <2>2 DEF PodsOf
    <3> DEFINE q == [Idle EXCEPT !.at = "look", !.keep = b]
    <3>2. q \in Passes /\ q.at = "look" /\ Goto(c, q)
      BY <3>1, StorageWriterConstants DEF Passes, Idle
    <3> HIDE DEF q
    <3> QED
      BY <3>2
  <2> QED
    BY <2>1, <2>2 DEF FailPreCheck
<1>b. /\ pass' \in [Clusters -> Passes] /\ pass'[c] = p
      /\ \A d \in Clusters \ {c} : pass'[d] = pass[d]
  BY <1>a, GotoFacts DEF StorageInv
<1>c. /\ life' = life /\ points' = points /\ suspend' = suspend /\ changes' = changes
      /\ doing' = doing /\ target' = target /\ goal' = goal /\ jobs' = jobs /\ dumps' = dumps
      /\ pods' = pods
      /\ lease' = lease
      /\ tmpl' = tmpl /\ old' = old
      /\ life[c] = "alive" /\ pass[c].at = "idle"
      /\ asked' \in [Clusters -> BOOLEAN] /\ (asked'[c] => asked[c])
      /\ \A d \in Clusters \ {c} : asked'[d] = asked[d]
  BY StorageWriterConstants DEF StorageInv, Rest, TypeOK, KeyIsBackend,
     world, workload, restores, FailPreCheck, At, Goto
<1>1. TypeOK'
  BY <1>a, <1>b, <1>c, StorageWriterConstants DEF StorageInv, TypeOK
<1>2. GoneIsIdle'
  BY <1>a, <1>b, <1>c DEF StorageInv, Rest, GoneIsIdle
<1>3. OnePod'
  BY <1>a, <1>b, <1>c DEF StorageInv, Rest, OnePod
<1>4. HoldsWhatItWrites'
  BY <1>a, <1>b, <1>c DEF StorageInv, Rest, HoldsWhatItWrites, CanWrite,
     Bound
<1>5. NoTwoWrite'
  BY <1>a, <1>b, <1>c DEF StorageInv, Rest, NoTwoWrite, Writes, CanWrite,
     Bound
<1>6. KeyIsBackend'
  BY <1>a, <1>b, <1>c DEF StorageInv, Rest, KeyIsBackend
<1>7. KeyIsHeld'
  BY <1>a, <1>b, <1>c DEF StorageInv, Rest, KeyIsHeld, Cleared
<1>8. KeyIsFree'
  BY <1>a, <1>b, <1>c DEF StorageInv, Rest, KeyIsFree, Cleared, Writes,
     CanWrite, Bound, Busy
<1>9. LeftAtRollouts'
  BY <1>a, <1>b, <1>c DEF StorageInv, Rest, LeftAtRollouts
<1>10. LeftAtFree'
  BY <1>a, <1>b, <1>c DEF StorageInv, Rest, LeftAtFree, CanWrite
<1>11. GoalIsBackend'
  BY <1>a, <1>b, <1>c DEF StorageInv, Rest, GoalIsBackend, Busy
<1>13. JobIsLate'
  BY <1>a, <1>b, <1>c DEF StorageInv, Rest, JobIsLate
<1>12. RestoreWritesAlone'
  BY <1>a, <1>b, <1>c DEF StorageInv, Rest, RestoreWritesAlone, Writes,
     CanWrite, Bound, Busy
<1> QED
  BY <1>1, <1>2, <1>3, <1>4, <1>5, <1>6, <1>7, <1>8, <1>9, <1>10, <1>11,
     <1>12, <1>13 DEF StorageInv, Rest

(* The Leases that a pass looks at carry no pod of its cluster.            *)
LEMMA LookKeeps ==
  ASSUME StorageInv, NEW c \in Clusters, Look(c)
  PROVE  StorageInv'
<1> DEFINE p == [pass[c] EXCEPT !.at = "rollouts",
                  !.free = {b \in Backends \ (PodsOf(c) \cup {pass[c].keep}) : lease[b] = c}]
<1>a. /\ p \in Passes /\ Goto(c, p)
      /\ p.at = "rollouts"
      /\ \A b \in p.free : <<c, b>> \notin pods
  <2>1. pass[c] \in Passes /\ Idle \in Passes
    BY StorageWriterConstants DEF StorageInv, TypeOK, Idle, Passes
  <2>2. /\ p \in Passes
        /\ p.at = "rollouts"
        /\ \A b \in p.free : <<c, b>> \notin pods
    BY <2>1 DEF Passes, PodsOf
  <2>3. Goto(c, p)
    BY <2>1, Zenon DEF Look, At, Goto
  <2> QED
    BY <2>2, <2>3
<1> HIDE DEF p
<1>b. /\ pass' \in [Clusters -> Passes] /\ pass'[c] = p
      /\ \A d \in Clusters \ {c} : pass'[d] = pass[d]
  BY <1>a, GotoFacts DEF StorageInv
<1>c. /\ life' = life /\ points' = points /\ suspend' = suspend /\ changes' = changes
      /\ tmpl' = tmpl /\ asked' = asked /\ old' = old
      /\ doing' = doing /\ target' = target /\ goal' = goal /\ jobs' = jobs /\ dumps' = dumps
      /\ pods' = pods
      /\ lease' = lease
      /\ pass[c].at = "look"
  BY StorageWriterConstants DEF StorageInv, Rest, TypeOK, KeyIsBackend,
     world, workload, restores, Look, At, Goto
<1>1. TypeOK'
  BY <1>a, <1>b, <1>c, StorageWriterConstants DEF StorageInv, TypeOK
<1>2. GoneIsIdle'
  BY <1>a, <1>b, <1>c DEF StorageInv, Rest, GoneIsIdle
<1>3. OnePod'
  BY <1>a, <1>b, <1>c DEF StorageInv, Rest, OnePod
<1>4. HoldsWhatItWrites'
  BY <1>a, <1>b, <1>c DEF StorageInv, Rest, HoldsWhatItWrites, CanWrite,
     Bound
<1>5. NoTwoWrite'
  BY <1>a, <1>b, <1>c DEF StorageInv, Rest, NoTwoWrite, Writes, CanWrite,
     Bound
<1>6. KeyIsBackend'
  BY <1>a, <1>b, <1>c DEF StorageInv, Rest, KeyIsBackend
<1>7. KeyIsHeld'
  BY <1>a, <1>b, <1>c DEF StorageInv, Rest, KeyIsHeld, Cleared
<1>8. KeyIsFree'
  BY <1>a, <1>b, <1>c DEF StorageInv, Rest, KeyIsFree, Cleared, Writes,
     CanWrite, Bound, Busy
<1>9. LeftAtRollouts'
  BY <1>a, <1>b, <1>c DEF StorageInv, Rest, LeftAtRollouts
<1>10. LeftAtFree'
  BY <1>a, <1>b, <1>c DEF StorageInv, Rest, LeftAtFree, CanWrite
<1>11. GoalIsBackend'
  BY <1>a, <1>b, <1>c DEF StorageInv, Rest, GoalIsBackend, Busy
<1>13. JobIsLate'
  BY <1>a, <1>b, <1>c DEF StorageInv, Rest, JobIsLate
<1>12. RestoreWritesAlone'
  BY <1>a, <1>b, <1>c DEF StorageInv, Rest, RestoreWritesAlone, Writes,
     CanWrite, Bound, Busy
<1> QED
  BY <1>1, <1>2, <1>3, <1>4, <1>5, <1>6, <1>7, <1>8, <1>9, <1>10, <1>11,
     <1>12, <1>13 DEF StorageInv, Rest

(* What is left after the rollouts is nothing that can be started again.   *)
LEMMA LookAtRolloutsKeeps ==
  ASSUME StorageInv, NEW c \in Clusters, LookAtRollouts(c)
  PROVE  StorageInv'
<1> DEFINE p == [pass[c] EXCEPT !.at = "free",
                  !.free = IF Updating(c) THEN {}
                           ELSE pass[c].free \ {b \in Backends : asked[c] /\ tmpl[c] = b}]
<1>a. /\ p \in Passes /\ Goto(c, p)
      /\ p.at = "free" /\ p.free \subseteq pass[c].free
      /\ \A b \in p.free : asked[c] => b # tmpl[c] /\ b # old[c]
  <2>1. pass[c] \in Passes /\ Idle \in Passes
    BY StorageWriterConstants DEF StorageInv, TypeOK, Idle, Passes
  <2>2. /\ p \in Passes
        /\ p.at = "free" /\ p.free \subseteq pass[c].free
        /\ \A b \in p.free : asked[c] => b # tmpl[c] /\ b # old[c]
    BY <2>1 DEF Passes, Updating
  <2>3. Goto(c, p)
    BY <2>1, Zenon DEF LookAtRollouts, At, Goto
  <2> QED
    BY <2>2, <2>3
<1> HIDE DEF p
<1>b. /\ pass' \in [Clusters -> Passes] /\ pass'[c] = p
      /\ \A d \in Clusters \ {c} : pass'[d] = pass[d]
  BY <1>a, GotoFacts DEF StorageInv
<1>c. /\ life' = life /\ points' = points /\ suspend' = suspend /\ changes' = changes
      /\ tmpl' = tmpl /\ asked' = asked /\ old' = old
      /\ doing' = doing /\ target' = target /\ goal' = goal /\ jobs' = jobs /\ dumps' = dumps
      /\ pods' = pods
      /\ lease' = lease
      /\ pass[c].at = "rollouts"
  BY StorageWriterConstants DEF StorageInv, Rest, TypeOK, KeyIsBackend,
     world, workload, restores, LookAtRollouts, At, Goto
<1>1. TypeOK'
  BY <1>a, <1>b, <1>c, StorageWriterConstants DEF StorageInv, TypeOK
<1>2. GoneIsIdle'
  BY <1>a, <1>b, <1>c DEF StorageInv, Rest, GoneIsIdle
<1>3. OnePod'
  BY <1>a, <1>b, <1>c DEF StorageInv, Rest, OnePod
<1>4. HoldsWhatItWrites'
  BY <1>a, <1>b, <1>c DEF StorageInv, Rest, HoldsWhatItWrites, CanWrite,
     Bound
<1>5. NoTwoWrite'
  BY <1>a, <1>b, <1>c DEF StorageInv, Rest, NoTwoWrite, Writes, CanWrite,
     Bound
<1>6. KeyIsBackend'
  BY <1>a, <1>b, <1>c DEF StorageInv, Rest, KeyIsBackend
<1>7. KeyIsHeld'
  BY <1>a, <1>b, <1>c DEF StorageInv, Rest, KeyIsHeld, Cleared
<1>8. KeyIsFree'
  BY <1>a, <1>b, <1>c DEF StorageInv, Rest, KeyIsFree, Cleared, Writes,
     CanWrite, Bound, Busy
<1>9. LeftAtRollouts'
  BY <1>a, <1>b, <1>c DEF StorageInv, Rest, LeftAtRollouts
<1>10. LeftAtFree'
  BY <1>a, <1>b, <1>c DEF StorageInv, Rest, LeftAtFree, CanWrite,
     LeftAtRollouts
<1>11. GoalIsBackend'
  BY <1>a, <1>b, <1>c DEF StorageInv, Rest, GoalIsBackend, Busy
<1>13. JobIsLate'
  BY <1>a, <1>b, <1>c DEF StorageInv, Rest, JobIsLate
<1>12. RestoreWritesAlone'
  BY <1>a, <1>b, <1>c DEF StorageInv, Rest, RestoreWritesAlone, Writes,
     CanWrite, Bound, Busy
<1> QED
  BY <1>1, <1>2, <1>3, <1>4, <1>5, <1>6, <1>7, <1>8, <1>9, <1>10, <1>11,
     <1>12, <1>13 DEF StorageInv, Rest

(* A pass frees nothing that its cluster can write.                        *)
LEMMA FreeKeeps ==
  ASSUME StorageInv, NEW c \in Clusters, Free(c)
  PROVE  StorageInv'
<1> DEFINE p == Idle
<1>a. /\ p \in Passes /\ Goto(c, p)
      /\ p.at = "idle"
  <2>1. pass[c] \in Passes /\ Idle \in Passes
    BY StorageWriterConstants DEF StorageInv, TypeOK, Idle, Passes
  <2>2. /\ p \in Passes
        /\ p.at = "idle"
    BY <2>1 DEF Passes, Idle
  <2>3. Goto(c, p)
    BY <2>1, Zenon DEF Free, At
  <2> QED
    BY <2>2, <2>3
<1> HIDE DEF p
<1>b. /\ pass' \in [Clusters -> Passes] /\ pass'[c] = p
      /\ \A d \in Clusters \ {c} : pass'[d] = pass[d]
  BY <1>a, GotoFacts DEF StorageInv
<1>c. /\ life' = life /\ points' = points /\ suspend' = suspend /\ changes' = changes
      /\ tmpl' = tmpl /\ asked' = asked /\ old' = old
      /\ doing' = doing /\ target' = target /\ goal' = goal /\ jobs' = jobs /\ dumps' = dumps
      /\ pods' = pods
      /\ lease' \in [Backends -> Clusters \cup {None}]
      /\ pass[c].at = "free"
      /\ \A b \in Backends : lease'[b] = lease[b] \/ (b \in pass[c].free /\ lease[b] = c)
  BY StorageWriterConstants DEF StorageInv, Rest, TypeOK, KeyIsBackend,
     world, workload, restores, Free, At
<1>1. TypeOK'
  BY <1>a, <1>b, <1>c, StorageWriterConstants DEF StorageInv, TypeOK
<1>2. GoneIsIdle'
  BY <1>a, <1>b, <1>c DEF StorageInv, Rest, GoneIsIdle
<1>3. OnePod'
  BY <1>a, <1>b, <1>c DEF StorageInv, Rest, OnePod
<1>4. HoldsWhatItWrites'
  BY <1>a, <1>b, <1>c DEF StorageInv, Rest, HoldsWhatItWrites, CanWrite,
     Bound, LeftAtFree
<1>5. NoTwoWrite'
  BY <1>a, <1>b, <1>c DEF StorageInv, Rest, NoTwoWrite, Writes, CanWrite,
     Bound
<1>6. KeyIsBackend'
  BY <1>a, <1>b, <1>c DEF StorageInv, Rest, KeyIsBackend
<1>7. KeyIsHeld'
  BY <1>a, <1>b, <1>c DEF StorageInv, Rest, KeyIsHeld, Cleared, KeyIsBackend
<1>8. KeyIsFree'
  BY <1>a, <1>b, <1>c DEF StorageInv, Rest, KeyIsFree, Cleared, Writes,
     CanWrite, Bound, Busy
<1>9. LeftAtRollouts'
  BY <1>a, <1>b, <1>c DEF StorageInv, Rest, LeftAtRollouts
<1>10. LeftAtFree'
  BY <1>a, <1>b, <1>c DEF StorageInv, Rest, LeftAtFree, CanWrite
<1>11. GoalIsBackend'
  BY <1>a, <1>b, <1>c DEF StorageInv, Rest, GoalIsBackend, Busy
<1>13. JobIsLate'
  BY <1>a, <1>b, <1>c DEF StorageInv, Rest, JobIsLate
<1>12. RestoreWritesAlone'
  BY <1>a, <1>b, <1>c DEF StorageInv, Rest, RestoreWritesAlone, Writes,
     CanWrite, Bound, Busy
<1> QED
  BY <1>1, <1>2, <1>3, <1>4, <1>5, <1>6, <1>7, <1>8, <1>9, <1>10, <1>11,
     <1>12, <1>13 DEF StorageInv, Rest

(* A pass that ends early leaves what it wrote.                            *)
LEMMA AbortKeeps ==
  ASSUME StorageInv, NEW c \in Clusters, Abort(c)
  PROVE  StorageInv'
<1> DEFINE p == Idle
<1>a. /\ p \in Passes /\ Goto(c, p)
      /\ p.at = "idle"
  <2>1. pass[c] \in Passes /\ Idle \in Passes
    BY StorageWriterConstants DEF StorageInv, TypeOK, Idle, Passes
  <2>2. /\ p \in Passes
        /\ p.at = "idle"
    BY <2>1 DEF Passes, Idle
  <2>3. Goto(c, p)
    BY <2>1, Zenon DEF Abort, At
  <2> QED
    BY <2>2, <2>3
<1> HIDE DEF p
<1>b. /\ pass' \in [Clusters -> Passes] /\ pass'[c] = p
      /\ \A d \in Clusters \ {c} : pass'[d] = pass[d]
  BY <1>a, GotoFacts DEF StorageInv
<1>c. /\ life' = life /\ points' = points /\ suspend' = suspend /\ changes' = changes
      /\ tmpl' = tmpl /\ asked' = asked /\ old' = old
      /\ doing' = doing /\ target' = target /\ goal' = goal /\ jobs' = jobs /\ dumps' = dumps
      /\ pods' = pods
      /\ lease' = lease
  BY StorageWriterConstants DEF StorageInv, Rest, TypeOK, KeyIsBackend,
     world, workload, restores, Abort, At
<1>1. TypeOK'
  BY <1>a, <1>b, <1>c, StorageWriterConstants DEF StorageInv, TypeOK
<1>2. GoneIsIdle'
  BY <1>a, <1>b, <1>c DEF StorageInv, Rest, GoneIsIdle
<1>3. OnePod'
  BY <1>a, <1>b, <1>c DEF StorageInv, Rest, OnePod
<1>4. HoldsWhatItWrites'
  BY <1>a, <1>b, <1>c DEF StorageInv, Rest, HoldsWhatItWrites, CanWrite,
     Bound
<1>5. NoTwoWrite'
  BY <1>a, <1>b, <1>c DEF StorageInv, Rest, NoTwoWrite, Writes, CanWrite,
     Bound
<1>6. KeyIsBackend'
  BY <1>a, <1>b, <1>c DEF StorageInv, Rest, KeyIsBackend
<1>7. KeyIsHeld'
  BY <1>a, <1>b, <1>c DEF StorageInv, Rest, KeyIsHeld, Cleared
<1>8. KeyIsFree'
  BY <1>a, <1>b, <1>c DEF StorageInv, Rest, KeyIsFree, Cleared, Writes,
     CanWrite, Bound, Busy
<1>9. LeftAtRollouts'
  BY <1>a, <1>b, <1>c DEF StorageInv, Rest, LeftAtRollouts
<1>10. LeftAtFree'
  BY <1>a, <1>b, <1>c DEF StorageInv, Rest, LeftAtFree, CanWrite
<1>11. GoalIsBackend'
  BY <1>a, <1>b, <1>c DEF StorageInv, Rest, GoalIsBackend, Busy
<1>13. JobIsLate'
  BY <1>a, <1>b, <1>c DEF StorageInv, Rest, JobIsLate
<1>12. RestoreWritesAlone'
  BY <1>a, <1>b, <1>c DEF StorageInv, Rest, RestoreWritesAlone, Writes,
     CanWrite, Bound, Busy
<1> QED
  BY <1>1, <1>2, <1>3, <1>4, <1>5, <1>6, <1>7, <1>8, <1>9, <1>10, <1>11,
     <1>12, <1>13 DEF StorageInv, Rest

(* A cluster in deletion has no pass: nobody asks for what it can write.   *)
LEMMA FinalizeKeeps ==
  ASSUME StorageInv, NEW c \in Clusters, Finalize(c)
  PROVE  StorageInv'
<1>c. /\ points' = points /\ suspend' = suspend /\ changes' = changes
      /\ tmpl' = tmpl /\ asked' = asked /\ old' = old
      /\ doing' = doing /\ target' = target /\ goal' = goal /\ jobs' = jobs /\ dumps' = dumps
      /\ pods' = pods /\ pass' = pass
      /\ life[c] = "deleting" /\ pass[c].at = "idle"
      /\ lease' \in [Backends -> Clusters \cup {None}]
      /\ \A b \in Backends : lease'[b] = lease[b] \/ lease[b] = c
      /\ life' \in [Clusters -> {"alive", "deleting", "gone"}] /\ life'[c] # "alive"
      /\ \A d \in Clusters \ {c} : life'[d] = life[d]
  BY StorageWriterConstants DEF StorageInv, Rest, TypeOK, KeyIsBackend,
     world, workload, restores, Finalize, At
<1>1. TypeOK'
  BY <1>c, StorageWriterConstants DEF StorageInv, TypeOK
<1>2. GoneIsIdle'
  BY <1>c DEF StorageInv, Rest, GoneIsIdle
<1>3. OnePod'
  BY <1>c DEF StorageInv, Rest, OnePod
<1>4. HoldsWhatItWrites'
  BY <1>c DEF StorageInv, Rest, HoldsWhatItWrites, CanWrite, Bound
<1>5. NoTwoWrite'
  BY <1>c DEF StorageInv, Rest, NoTwoWrite, Writes, CanWrite, Bound
<1>6. KeyIsBackend'
  BY <1>c DEF StorageInv, Rest, KeyIsBackend
<1>7. KeyIsHeld'
  BY <1>c DEF StorageInv, Rest, KeyIsHeld, Cleared, KeyIsBackend
<1>8. KeyIsFree'
  BY <1>c DEF StorageInv, Rest, KeyIsFree, Cleared, Writes, CanWrite, Bound, Busy
<1>9. LeftAtRollouts'
  BY <1>c DEF StorageInv, Rest, LeftAtRollouts
<1>10. LeftAtFree'
  BY <1>c DEF StorageInv, Rest, LeftAtFree, CanWrite
<1>11. GoalIsBackend'
  BY <1>c DEF StorageInv, Rest, GoalIsBackend, Busy
<1>13. JobIsLate'
  BY <1>c DEF StorageInv, Rest, JobIsLate
<1>12. RestoreWritesAlone'
  BY <1>c DEF StorageInv, Rest, RestoreWritesAlone, Writes, CanWrite, Bound, Busy
<1> QED
  BY <1>1, <1>2, <1>3, <1>4, <1>5, <1>6, <1>7, <1>8, <1>9, <1>10, <1>11,
     <1>12, <1>13 DEF StorageInv, Rest

(* A pod that starts carries what its StatefulSet could start before.      *)
LEMMA PodStartsKeeps ==
  ASSUME StorageInv, NEW c \in Clusters, PodStarts(c)
  PROVE  StorageInv'
<1>c. /\ life' = life /\ points' = points /\ suspend' = suspend /\ changes' = changes
      /\ doing' = doing /\ target' = target /\ goal' = goal /\ jobs' = jobs /\ dumps' = dumps
      /\ tmpl' = tmpl /\ asked' = asked /\ old' = old
      /\ lease' = lease
      /\ pass' = pass
      /\ asked[c] /\ tmpl[c] \in Backends /\ old[c] \in Backends
      /\ \A b \in Backends : <<c, b>> \notin pods
      /\ \E b \in {tmpl[c], old[c]} : pods' = pods \cup {<<c, b>>}
  BY StorageWriterConstants DEF StorageInv, Rest, TypeOK, KeyIsBackend,
     world, workload, restores, PodStarts, PodsOf
<1>1. TypeOK'
  BY <1>c, StorageWriterConstants DEF StorageInv, TypeOK
<1>2. GoneIsIdle'
  BY <1>c DEF StorageInv, Rest, GoneIsIdle
<1>3. OnePod'
  BY <1>c DEF StorageInv, Rest, OnePod
<1>4. HoldsWhatItWrites'
  BY <1>c DEF StorageInv, Rest, HoldsWhatItWrites, CanWrite, Bound
<1>5. NoTwoWrite'
  BY <1>c DEF StorageInv, Rest, NoTwoWrite, Writes, CanWrite, Bound
<1>6. KeyIsBackend'
  BY <1>c DEF StorageInv, Rest, KeyIsBackend
<1>7. KeyIsHeld'
  BY <1>c DEF StorageInv, Rest, KeyIsHeld, Cleared
<1>8. KeyIsFree'
  BY <1>c DEF StorageInv, Rest, KeyIsFree, Cleared, Writes, CanWrite, Bound, Busy
<1>9. LeftAtRollouts'
  BY <1>c DEF StorageInv, Rest, LeftAtRollouts
<1>10. LeftAtFree'
  BY <1>c DEF StorageInv, Rest, LeftAtFree, CanWrite
<1>11. GoalIsBackend'
  BY <1>c DEF StorageInv, Rest, GoalIsBackend, Busy
<1>13. JobIsLate'
  BY <1>c DEF StorageInv, Rest, JobIsLate
<1>12. RestoreWritesAlone'
  BY <1>c DEF StorageInv, Rest, RestoreWritesAlone, Writes, CanWrite, Bound, Busy
<1> QED
  BY <1>1, <1>2, <1>3, <1>4, <1>5, <1>6, <1>7, <1>8, <1>9, <1>10, <1>11,
     <1>12, <1>13 DEF StorageInv, Rest

(* A pod that ends writes nothing any more.                                *)
LEMMA PodEndsKeeps ==
  ASSUME StorageInv, NEW c \in Clusters, PodEnds(c)
  PROVE  StorageInv'
<1>c. /\ life' = life /\ points' = points /\ suspend' = suspend /\ changes' = changes
      /\ doing' = doing /\ target' = target /\ goal' = goal /\ jobs' = jobs /\ dumps' = dumps
      /\ tmpl' = tmpl /\ asked' = asked /\ old' = old
      /\ lease' = lease
      /\ pass' = pass
      /\ pods' \subseteq pods
  BY StorageWriterConstants DEF StorageInv, Rest, TypeOK, KeyIsBackend,
     world, workload, restores, PodEnds
<1>1. TypeOK'
  BY <1>c, StorageWriterConstants DEF StorageInv, TypeOK
<1>2. GoneIsIdle'
  BY <1>c DEF StorageInv, Rest, GoneIsIdle
<1>3. OnePod'
  BY <1>c DEF StorageInv, Rest, OnePod
<1>4. HoldsWhatItWrites'
  BY <1>c DEF StorageInv, Rest, HoldsWhatItWrites, CanWrite, Bound
<1>5. NoTwoWrite'
  BY <1>c DEF StorageInv, Rest, NoTwoWrite, Writes, CanWrite, Bound
<1>6. KeyIsBackend'
  BY <1>c DEF StorageInv, Rest, KeyIsBackend
<1>7. KeyIsHeld'
  BY <1>c DEF StorageInv, Rest, KeyIsHeld, Cleared
<1>8. KeyIsFree'
  BY <1>c DEF StorageInv, Rest, KeyIsFree, Cleared, Writes, CanWrite, Bound, Busy
<1>9. LeftAtRollouts'
  BY <1>c DEF StorageInv, Rest, LeftAtRollouts
<1>10. LeftAtFree'
  BY <1>c DEF StorageInv, Rest, LeftAtFree, CanWrite
<1>11. GoalIsBackend'
  BY <1>c DEF StorageInv, Rest, GoalIsBackend, Busy
<1>13. JobIsLate'
  BY <1>c DEF StorageInv, Rest, JobIsLate
<1>12. RestoreWritesAlone'
  BY <1>c DEF StorageInv, Rest, RestoreWritesAlone, Writes, CanWrite, Bound, Busy
<1> QED
  BY <1>1, <1>2, <1>3, <1>4, <1>5, <1>6, <1>7, <1>8, <1>9, <1>10, <1>11,
     <1>12, <1>13 DEF StorageInv, Rest

(* A finished rollout leaves no other revision to start.                   *)
LEMMA RolledOutKeeps ==
  ASSUME StorageInv, NEW c \in Clusters, RolledOut(c)
  PROVE  StorageInv'
<1>c. /\ life' = life /\ points' = points /\ suspend' = suspend /\ changes' = changes
      /\ doing' = doing /\ target' = target /\ goal' = goal /\ jobs' = jobs /\ dumps' = dumps
      /\ tmpl' = tmpl /\ asked' = asked
      /\ lease' = lease
      /\ pass' = pass /\ pods' = pods
      /\ old' = [old EXCEPT ![c] = tmpl[c]]
      /\ asked[c] => <<c, tmpl[c]>> \in pods
  BY StorageWriterConstants DEF StorageInv, Rest, TypeOK, KeyIsBackend,
     world, workload, restores, RolledOut
<1>1. TypeOK'
  BY <1>c, StorageWriterConstants DEF StorageInv, TypeOK
<1>2. GoneIsIdle'
  BY <1>c DEF StorageInv, Rest, GoneIsIdle, TypeOK
<1>3. OnePod'
  BY <1>c DEF StorageInv, Rest, OnePod, TypeOK
<1>4. HoldsWhatItWrites'
  BY <1>c DEF StorageInv, Rest, HoldsWhatItWrites, CanWrite, Bound, TypeOK
<1>5. NoTwoWrite'
  BY <1>c DEF StorageInv, Rest, NoTwoWrite, Writes, CanWrite, Bound, TypeOK
<1>6. KeyIsBackend'
  BY <1>c DEF StorageInv, Rest, KeyIsBackend, TypeOK
<1>7. KeyIsHeld'
  BY <1>c DEF StorageInv, Rest, KeyIsHeld, Cleared, TypeOK
<1>8. KeyIsFree'
  BY <1>c DEF StorageInv, Rest, KeyIsFree, Cleared, Writes, CanWrite, Bound,
     TypeOK, Busy
<1>9. LeftAtRollouts'
  BY <1>c DEF StorageInv, Rest, LeftAtRollouts, TypeOK, OnePod, KeyIsBackend
<1>10. LeftAtFree'
  BY <1>c DEF StorageInv, Rest, LeftAtFree, CanWrite, TypeOK
<1>11. GoalIsBackend'
  BY <1>c DEF StorageInv, Rest, GoalIsBackend, TypeOK, Busy
<1>13. JobIsLate'
  BY <1>c DEF StorageInv, Rest, JobIsLate, TypeOK
<1>12. RestoreWritesAlone'
  BY <1>c DEF StorageInv, Rest, RestoreWritesAlone, Writes, CanWrite, Bound,
     TypeOK, Busy
<1> QED
  BY <1>1, <1>2, <1>3, <1>4, <1>5, <1>6, <1>7, <1>8, <1>9, <1>10, <1>11,
     <1>12, <1>13 DEF StorageInv, Rest

(* The garbage collector stops what is gone.                               *)
LEMMA CollectKeeps ==
  ASSUME StorageInv, NEW c \in Clusters, Collect(c)
  PROVE  StorageInv'
<1>c. /\ life' = life /\ points' = points /\ suspend' = suspend /\ changes' = changes
      /\ doing' = doing /\ target' = target /\ goal' = goal /\ jobs' = jobs /\ dumps' = dumps
      /\ tmpl' = tmpl /\ old' = old
      /\ lease' = lease
      /\ pass' = pass /\ pods' = pods
      /\ life[c] = "gone"
      /\ asked' = [asked EXCEPT ![c] = FALSE]
  BY StorageWriterConstants DEF StorageInv, Rest, TypeOK, KeyIsBackend,
     world, workload, restores, Collect
<1>1. TypeOK'
  BY <1>c, StorageWriterConstants DEF StorageInv, TypeOK
<1>2. GoneIsIdle'
  BY <1>c DEF StorageInv, Rest, GoneIsIdle, TypeOK
<1>3. OnePod'
  BY <1>c DEF StorageInv, Rest, OnePod, TypeOK
<1>4. HoldsWhatItWrites'
  BY <1>c DEF StorageInv, Rest, HoldsWhatItWrites, CanWrite, Bound, TypeOK
<1>5. NoTwoWrite'
  BY <1>c DEF StorageInv, Rest, NoTwoWrite, Writes, CanWrite, Bound, TypeOK
<1>6. KeyIsBackend'
  BY <1>c DEF StorageInv, Rest, KeyIsBackend, TypeOK
<1>7. KeyIsHeld'
  BY <1>c DEF StorageInv, Rest, KeyIsHeld, Cleared, TypeOK
<1>8. KeyIsFree'
  BY <1>c DEF StorageInv, Rest, KeyIsFree, Cleared, Writes, CanWrite, Bound,
     TypeOK, Busy
<1>9. LeftAtRollouts'
  BY <1>c DEF StorageInv, Rest, LeftAtRollouts, TypeOK, GoneIsIdle
<1>10. LeftAtFree'
  BY <1>c DEF StorageInv, Rest, LeftAtFree, CanWrite, TypeOK
<1>11. GoalIsBackend'
  BY <1>c DEF StorageInv, Rest, GoalIsBackend, TypeOK, Busy
<1>13. JobIsLate'
  BY <1>c DEF StorageInv, Rest, JobIsLate, TypeOK
<1>12. RestoreWritesAlone'
  BY <1>c DEF StorageInv, Rest, RestoreWritesAlone, Writes, CanWrite, Bound,
     TypeOK, Busy
<1> QED
  BY <1>1, <1>2, <1>3, <1>4, <1>5, <1>6, <1>7, <1>8, <1>9, <1>10, <1>11,
     <1>12, <1>13 DEF StorageInv, Rest

(* What a restore begins to write, the second look found free.             *)
LEMMA WriteKeeps ==
  ASSUME StorageInv, NEW r \in Restores, Write(r)
  PROVE  StorageInv'
<1>c. /\ life' = life /\ points' = points /\ suspend' = suspend /\ changes' = changes
      /\ tmpl' = tmpl /\ asked' = asked /\ old' = old
      /\ lease' = lease
      /\ pass' = pass /\ pods' = pods
      /\ target' = target /\ goal' = goal /\ jobs' = jobs /\ dumps' = dumps
      /\ doing[r] = "registered"
      /\ doing' = [doing EXCEPT ![r] = "writing"]
      /\ goal[r] \in Backends /\ lease[goal[r]] = target[r]
      /\ \A c \in Clusters : <<c, goal[r]>> \notin pods /\ ~(asked[c] /\ tmpl[c] = goal[r])
  BY StorageWriterConstants DEF StorageInv, Rest, TypeOK, KeyIsBackend,
     world, workload, restores, Write, Advance, CheckBackend, ClusterOnClaim, GoalIsBackend
<1>1. TypeOK'
  BY <1>c, StorageWriterConstants DEF StorageInv, TypeOK
<1>2. GoneIsIdle'
  BY <1>c DEF StorageInv, Rest, GoneIsIdle
<1>3. OnePod'
  BY <1>c DEF StorageInv, Rest, OnePod
<1>4. HoldsWhatItWrites'
  BY <1>c DEF StorageInv, Rest, HoldsWhatItWrites, CanWrite, Bound
<1>5. NoTwoWrite'
  BY <1>c DEF StorageInv, Rest, NoTwoWrite, Writes, CanWrite, Bound
<1>6. KeyIsBackend'
  BY <1>c DEF StorageInv, Rest, KeyIsBackend
<1>7. KeyIsHeld'
  BY <1>c DEF StorageInv, Rest, KeyIsHeld, Cleared
<1>8. KeyIsFree'
  BY <1>c DEF StorageInv, Rest, KeyIsFree, Cleared, Writes, CanWrite, Bound,
     TypeOK, KeyIsHeld, Busy
<1>9. LeftAtRollouts'
  BY <1>c DEF StorageInv, Rest, LeftAtRollouts
<1>10. LeftAtFree'
  BY <1>c DEF StorageInv, Rest, LeftAtFree, CanWrite
<1>11. GoalIsBackend'
  BY <1>c DEF StorageInv, Rest, GoalIsBackend, TypeOK, Busy
<1>13. JobIsLate'
  BY <1>c DEF StorageInv, Rest, JobIsLate, TypeOK
<1>12. RestoreWritesAlone'
  BY <1>c DEF StorageInv, Rest, RestoreWritesAlone, Writes, CanWrite, Bound,
     TypeOK, HoldsWhatItWrites, Busy
<1> QED
  BY <1>1, <1>2, <1>3, <1>4, <1>5, <1>6, <1>7, <1>8, <1>9, <1>10, <1>11,
     <1>12, <1>13 DEF StorageInv, Rest

(* A restore that takes a target, or a backend, has no Job yet.            *)
LEMMA BeginsKeeps ==
  ASSUME StorageInv, NEW r \in Restores, LookFirst(r) \/ \E c \in Clusters : Prepare(r, c)
  PROVE  StorageInv'
<1>1. /\ UNCHANGED <<life, points, suspend, changes, lease, workload, pods, pass, jobs, dumps>>
      /\ \E to \in {"looked", "prepare"} : doing' = [doing EXCEPT ![r] = to]
      /\ doing[r] \in {"idle", "prepare"}
      /\ target' \in [Restores -> Clusters \cup {None}]
      /\ goal' \in [Restores -> Backends \cup {None}]
      /\ doing'[r] = "looked" => goal'[r] \in Backends
      /\ \A s \in Restores \ {r} : target'[s] = target[s] /\ goal'[s] = goal[s]
  BY DEF StorageInv, TypeOK, world, LookFirst, Prepare
<1>2. /\ doing' \in [Restores -> {"idle", "prepare", "looked", "registered", "writing",
                                 "dumping", "terminal", "deleting", "released", "over"}]
      /\ doing'[r] \in {"looked", "prepare"}
      /\ \A s \in Restores \ {r} : doing'[s] = doing[s]
  BY <1>1 DEF StorageInv, TypeOK
<1>3. r \notin jobs \cup dumps
  BY <1>1 DEF StorageInv, Rest, JobIsLate
<1>4. TypeOK'
  BY <1>1, <1>2 DEF StorageInv, TypeOK, workload
<1>5. GoalIsBackend' /\ JobIsLate'
  BY <1>1, <1>2, <1>3 DEF StorageInv, Rest, GoalIsBackend, JobIsLate, Busy
<1>6. \A s \in Restores : Busy(s)' => Busy(s) /\ goal'[s] = goal[s] /\ target'[s] = target[s]
  BY <1>1, <1>2, <1>3 DEF Busy
<1> QED
  BY <1>1, <1>4, <1>5, <1>6, StillKeeps

(* A restore that goes on without a write.                                 *)
LEMMA AdvanceKeeps ==
  ASSUME StorageInv, NEW r \in Restores,
         Register(r) \/ End(r) \/ Withdraw(r) \/ Release(r) \/ Unhold(r)
  PROVE  StorageInv'
<1>1. /\ UNCHANGED <<life, points, suspend, changes, lease, workload, pods, pass, target, goal,
                    jobs, dumps>>
      /\ \E to \in {"registered", "terminal", "deleting", "released", "over"} :
           /\ doing' = [doing EXCEPT ![r] = to]
           /\ to = "registered" => doing[r] = "looked"
           /\ to = "over" => r \notin jobs \cup dumps
  BY DEF world, Register, End, Withdraw, Release, Unhold, JobGone, Advance
<1>2. /\ doing' \in [Restores -> {"idle", "prepare", "looked", "registered", "writing",
                                 "dumping", "terminal", "deleting", "released", "over"}]
      /\ doing'[r] \in {"registered", "terminal", "deleting", "released", "over"}
      /\ doing'[r] = "registered" => doing[r] = "looked"
      /\ doing'[r] = "over" => r \notin jobs \cup dumps
      /\ \A s \in Restores \ {r} : doing'[s] = doing[s]
  BY <1>1 DEF StorageInv, TypeOK
<1>3. TypeOK'
  BY <1>1, <1>2 DEF StorageInv, TypeOK, workload
<1>4. \A s \in Restores : Busy(s)' => Busy(s) /\ goal'[s] = goal[s] /\ target'[s] = target[s]
  BY <1>1, <1>2 DEF Busy
<1>5. GoalIsBackend' /\ JobIsLate'
  BY <1>1, <1>2, <1>4 DEF StorageInv, Rest, GoalIsBackend, JobIsLate, Busy
<1> QED
  BY <1>1, <1>3, <1>4, <1>5, StillKeeps

(* The Job of a restore that writes is created, starts its pods, and goes. *)
LEMMA JobKeeps ==
  ASSUME StorageInv, NEW r \in Restores, CreateJob(r) \/ RemoveJob(r) \/ JobController(r)
  PROVE  StorageInv'
<1>1. /\ UNCHANGED <<life, points, suspend, changes, lease, workload, pods, pass, target, goal>>
      /\ \A s \in Restores \ {r} : doing'[s] = doing[s]
      /\ doing'[r] = doing[r] \/ (doing[r] = "writing" /\ doing'[r] = "dumping")
      /\ doing' \in [Restores -> {"idle", "prepare", "looked", "registered", "writing",
                                 "dumping", "terminal", "deleting", "released", "over"}]
      /\ jobs' \subseteq jobs \cup {r} /\ dumps' \subseteq dumps \cup {r}
      /\ r \in jobs' \cup dumps' => Busy(r)
  BY DEF StorageInv, TypeOK, world, CreateJob, RemoveJob, JobController, JobStarts, JobPodEnds,
     JobEnds, Busy
<1>2. TypeOK'
  BY <1>1 DEF StorageInv, TypeOK, workload
<1>3. \A s \in Restores : Busy(s)' => Busy(s) /\ goal'[s] = goal[s] /\ target'[s] = target[s]
  BY <1>1 DEF Busy
<1>4. GoalIsBackend' /\ JobIsLate'
  BY <1>1, <1>3 DEF StorageInv, Rest, GoalIsBackend, JobIsLate, Busy
<1> QED
  BY <1>1, <1>2, <1>3, <1>4, StillKeeps

(* Every step keeps the invariant.                                         *)
LEMMA NextStorageInv == StorageInv /\ [Next]_vars => StorageInv'
<1> SUFFICES ASSUME StorageInv, [Next]_vars PROVE StorageInv'
  OBVIOUS
<1> USE DEF world, restores, workload
<1>1. ASSUME NEW c \in Clusters, Pass(c) PROVE StorageInv'
  BY <1>1, BeginKeeps, UnclaimedKeeps, CreateKeeps, GateKeeps, RenderKeeps, LookKeeps,
     LookAtRolloutsKeeps, FreeKeeps DEF Pass
<1>2. ASSUME NEW c \in Clusters, Fault(c) PROVE StorageInv'
  BY <1>2, RefuseKeeps, FailPreCheckKeeps, AbortKeeps DEF Fault
<1>3. ASSUME NEW c \in Clusters, Kubelet(c) PROVE StorageInv'
  BY <1>3, PodStartsKeeps, RolledOutKeeps, CollectKeeps DEF Kubelet
<1>4. ASSUME NEW c \in Clusters, Toggle(c) \/ Delete(c) \/ \E b \in Backends : Move(c, b)
      PROVE  StorageInv'
  <2>0. UNCHANGED <<lease, tmpl, asked, old, pods, pass, doing, target, goal, jobs, dumps>>
    BY <1>4 DEF Toggle, Delete, Move
  <2>1. changes' \in 0..MaxChanges
    BY <1>4, StorageWriterConstants DEF Toggle, Delete, Move, Change, StorageInv, TypeOK
  <2>2. TypeOK' /\ GoalIsBackend' /\ JobIsLate'
    <3>1. CASE Toggle(c)
      BY <2>0, <2>1, <3>1 DEF StorageInv, Rest, TypeOK, GoalIsBackend, JobIsLate,
         Busy, Toggle
    <3>2. CASE Delete(c)
      BY <2>0, <2>1, <3>2 DEF StorageInv, Rest, TypeOK, GoalIsBackend, JobIsLate,
         Busy, Delete
    <3>3. CASE \E b \in Backends : Move(c, b)
      BY <2>0, <2>1, <3>3 DEF StorageInv, Rest, TypeOK, GoalIsBackend, JobIsLate,
         Busy, Move
    <3> QED
      BY <1>4, <3>1, <3>2, <3>3
  <2>3. \A d \in Clusters : /\ (life'[d] = "alive") => (life[d] = "alive")
                            /\ (life'[d] = "gone") => (life[d] = "gone")
    BY <1>4 DEF StorageInv, TypeOK, Toggle, Delete, Move
  <2> QED
    BY <2>0, <2>2, <2>3, StillKeeps DEF Busy
<1>5. ASSUME NEW r \in Restores, Restore(r) \/ JobController(r)
      PROVE  StorageInv'
  <2>1. CASE Write(r)
    BY <2>1, WriteKeeps
  <2>2. CASE LookFirst(r) \/ \E c \in Clusters : Prepare(r, c)
    BY <2>2, BeginsKeeps
  <2>3. CASE \/ Register(r) \/ End(r) \/ Withdraw(r) \/ Release(r) \/ Unhold(r)
    BY <2>3, AdvanceKeeps
  <2>4. CASE CreateJob(r) \/ RemoveJob(r) \/ JobController(r)
    BY <2>4, JobKeeps
  <2> QED
    BY <1>5, <2>1, <2>2, <2>3, <2>4 DEF Restore
<1>6. CASE UNCHANGED vars
  BY <1>6, StillKeeps DEF vars, StorageInv, Rest, TypeOK, GoalIsBackend, JobIsLate, Busy
<1> QED
  BY <1>1, <1>2, <1>3, <1>4, <1>5, <1>6, FinalizeKeeps, PodEndsKeeps DEF Next

(* The invariant holds in every state of the system.                       *)
THEOREM StorageInvariant == Spec => []StorageInv
BY InitStorageInv, NextStorageInv, PTL DEF Spec

(* The claims, workloads, pods and passes always have their types: a pod   *)
(* carries a backend, and no pass renders without one.                     *)
THEOREM StorageTypeCorrect == Spec => []TypeOK
<1>1. StorageInv => TypeOK
  BY DEF StorageInv
<1> QED
  BY <1>1, StorageInvariant, PTL

(* Pods of two clusters never write one backend: the Lease, the wait at    *)
(* zero and the release that looks at the pods are enough, for any number  *)
(* of clusters, backends, restores, moves, suspensions and deletions.      *)
THEOREM StorageOneWriter == Spec => []OneWriter
<1>1. StorageInv => OneWriter
  BY DEF StorageInv, Rest, NoTwoWrite, OneWriter, Leftover, Writes, CanWrite, Bound
<1> QED
  BY <1>1, StorageInvariant, PTL

(* No pod of another cluster writes the backend that a restore writes.     *)
THEOREM StorageRestoreAlone == Spec => []RestoreAlone
<1>1. StorageInv => RestoreAlone
  BY DEF StorageInv, Rest, GoalIsBackend, RestoreWritesAlone, RestoreAlone, Leftover, Writes,
     CanWrite, Bound, Busy
<1> QED
  BY <1>1, StorageInvariant, PTL

=============================================================================
