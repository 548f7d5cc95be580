--------------------------- MODULE RollbackProofs ---------------------------
(***************************************************************************)
(* Proofs about the two sides of a rollback: PitRestore, which asks for it,*)
(* and ServerRecovery, which does it.  For every set of places and of      *)
(* requests, and every number of user actions, faults and lost writes.     *)
(***************************************************************************)
EXTENDS PitRestore, ServerRecovery, TLAPS

-----------------------------------------------------------------------------
(* The restore.                                                            *)

Exists == life \in {"alive", "deleting"}

(* A pass between its look and its write.                                  *)
LookInPhase ==
  /\ look.next = "none" <=> look = NoLook
  /\ look.next # "none" => Exists /\ look.pin.at \in Places
  /\ look.next = "register" => phase = "Pending"
  /\ look.next = "ask" => phase = "RestoringDatabase"

(* Past Pending the restore has a pin.                                     *)
PinnedPastPending ==
  /\ phase \in {"RestoringDatabase", "Validating", "Primary"} => kept.pin.at \in Places
  /\ phase = "RestoringDatabase" => kept.backend \in Places

(* While it restores the database it has a registration, and nobody else   *)
(* looked at the database but before that.                                 *)
RestoringHeld ==
  phase = "RestoringDatabase" /\ Exists => regs # {} /\ (other # "down" => passed)

(* The server answers when it has finished.                                *)
RunsUnanswered == server.run => ~Answered

(* The server can be rolling back, or accept a request.                    *)
Open == server.run \/ (contract.there /\ contract.asked /\ ~Answered)

(* A rollback that is open has a restore that waits for it.                *)
OpenIsWaitedFor == Open /\ ~gaveUp => phase = "RestoringDatabase" /\ Exists

(* A restore that was never submitted, and one that is gone, hold nothing. *)
NothingBefore == life = "absent" => phase = "Pending"
NothingAfter == life = "gone" => regs = {}

(* The volumes are emptied over a database at its point.                   *)
PrimaryMatched == phase = "Primary" => woken \/ data[kept.pin.at] = "point"

PitInv ==
  /\ TypeOK
  /\ LookInPhase /\ PinnedPastPending /\ RestoringHeld /\ RunsUnanswered
  /\ OpenIsWaitedFor /\ NothingBefore /\ NothingAfter /\ PrimaryMatched
-----------------------------------------------------------------------------
(* The values that the restore starts from have their types.               *)
LEMMA StartTypes ==
  /\ NoPin \in Pin /\ NoLook \in [next : {"none", "register", "ask"}, pin : Pin]
  /\ [pin |-> NoPin, backend |-> None, clock |-> FALSE] \in Status
BY DEF NoPin, Pin, NoLook, Status

(* What a pass that ends leaves of the restore.                            *)
StatusStep ==
  /\ look' = NoLook /\ phase' \in Phases /\ kept' \in Status /\ lost' \in 0..MaxLost
  /\ regs' \subseteq Places /\ gaveUp' \in BOOLEAN /\ (gaveUp => gaveUp')
  /\ phase' \in {"RestoringDatabase", "Validating", "Primary"} => kept'.pin.at \in Places
  /\ phase' = "RestoringDatabase" =>
       /\ kept'.backend \in Places /\ regs' # {} /\ (other # "down" => passed')
  /\ Open /\ ~gaveUp' => phase' = "RestoringDatabase"
  /\ phase' = "Primary" => woken \/ data[kept'.pin.at] = "point"

Targets == [is : {"there", "gone", "replaced"}, chain : {"home", "other", "broken"},
            suspended : BOOLEAN, run : BOOLEAN]

(* A pass of a restore that exists, which writes its status, registrations *)
(* and the suspension of its cluster, keeps the invariant.                 *)
LEMMA StatusKeeps ==
  ASSUME PitInv, StatusStep, Exists,
         UNCHANGED <<life, woken, backend, world, acts>>, passed' \in BOOLEAN, cluster' \in Targets
  PROVE  PitInv'
<1>1. /\ life' = life /\ woken' = woken /\ lease' = lease /\ other' = other
      /\ contract' = contract /\ server' = server /\ data' = data /\ acts' = acts
  BY DEF backend, world
<1>2. TypeOK'
  BY <1>1, StartTypes DEF PitInv, TypeOK, StatusStep, Targets
<1>3. LookInPhase'
  BY <1>1 DEF StatusStep, LookInPhase, NoLook
<1>4. PinnedPastPending' /\ RestoringHeld'
  BY <1>1 DEF StatusStep, PinnedPastPending, RestoringHeld
<1>5. RunsUnanswered' /\ OpenIsWaitedFor'
  BY <1>1 DEF PitInv, StatusStep, RunsUnanswered, OpenIsWaitedFor, Open, Answered, Exists
<1>6. NothingBefore' /\ NothingAfter' /\ PrimaryMatched'
  BY <1>1 DEF StatusStep, NothingBefore, NothingAfter, PrimaryMatched, Exists
<1> QED
  BY <1>2, <1>3, <1>4, <1>5, <1>6 DEF PitInv

(* The same for a pass that leaves the cluster alone.                      *)
LEMMA OnlyStatusKeeps ==
  ASSUME PitInv, StatusStep, Exists, OnlyStatus
  PROVE  PitInv'
<1>1. /\ UNCHANGED <<life, woken, backend, world, acts>> /\ passed' \in BOOLEAN
      /\ cluster' \in Targets
  BY DEF PitInv, TypeOK, OnlyStatus, Targets
<1> QED
  BY <1>1, StatusKeeps

(* What a flush writes: all of it, or nothing.                             *)
LEMMA FlushFacts ==
  ASSUME TypeOK, NEW p, NEW k, Flush(p, k)
  PROVE  /\ look' = NoLook /\ lost' \in 0..MaxLost
         /\ \/ phase' = p /\ kept' = k
            \/ phase' = phase /\ kept' = kept
BY PitRestoreConstants DEF TypeOK, Flush

(* The edits of a status.                                                  *)
LEMMA StatusEdits ==
  ASSUME NEW k \in Status, NEW v \in BOOLEAN
  PROVE  LET t == [k EXCEPT !.clock = v]
         IN t \in Status /\ t.pin = k.pin /\ t.backend = k.backend
BY DEF Status

(* The registrations and the status while a restore follows its database.  *)
LEMMA FollowFacts ==
  ASSUME PitInv, phase = "RestoringDatabase", Exists
  PROVE  /\ kept \in Status /\ kept.pin.at \in Places /\ kept.backend \in Places
         /\ Follow \in Status /\ Follow.pin = kept.pin /\ Follow.backend \in Places
         /\ Registered \subseteq Places /\ Registered # {}
         /\ FollowRegs \subseteq Places /\ FollowRegs # {}
<1>1. /\ kept \in Status /\ kept.pin.at \in Places /\ kept.backend \in Places
      /\ regs \subseteq Places /\ regs # {} /\ server.at \in Places
  BY DEF PitInv, TypeOK, PinnedPastPending, RestoringHeld
<1>2. Follow \in Status /\ Follow.pin = kept.pin /\ Follow.backend = server.at
  BY <1>1 DEF Follow, Status
<1>3. Registered \subseteq Places /\ Registered # {}
  BY <1>1 DEF Registered
<1>4. FollowRegs \subseteq Places /\ FollowRegs # {}
  BY <1>1, <1>3 DEF FollowRegs
<1> QED
  BY <1>1, <1>2, <1>3, <1>4

(* A flush in RestoringDatabase that keeps the phase, or ends a restore    *)
(* that nobody answers any more, or that gave up.                          *)
LEMMA RestoringFlush ==
  ASSUME PitInv, phase = "RestoringDatabase", Exists, passed' = passed,
         NEW q \in Phases, NEW k \in Status, k.pin.at \in Places, k.backend \in Places, Flush(q, k),
         regs' \subseteq Places, regs' # {}, gaveUp' \in BOOLEAN, gaveUp => gaveUp',
         q = "RestoringDatabase" \/ (q \in {"Failed", "Validating"} /\ (phase' = q => gaveUp' \/ ~Open))
  PROVE  StatusStep
<1>1. /\ look' = NoLook /\ lost' \in 0..MaxLost
      /\ (phase' = q /\ kept' = k) \/ (phase' = phase /\ kept' = kept)
  BY FlushFacts DEF PitInv
<1>2. kept \in Status /\ phase \in Phases
  BY DEF PitInv, TypeOK
<1> QED
  BY <1>1, <1>2, Zenon DEF PitInv, StatusStep, PinnedPastPending, RestoringHeld

(* The grace in RestoringDatabase.                                         *)
LEMMA RestoringHold ==
  ASSUME PitInv, phase = "RestoringDatabase", Exists, passed' = passed,
         NEW k \in Status, k.pin.at \in Places, k.backend \in Places, HoldStarted(k),
         regs' \subseteq Places, regs' # {}
  PROVE  StatusStep
<1> DEFINE t == [k EXCEPT !.clock = TRUE]
<1>1. t \in Status /\ t.pin = k.pin /\ t.backend = k.backend
  BY StatusEdits
<1>2. gaveUp \in BOOLEAN /\ "Failed" \in Phases /\ phase \in Phases
  BY DEF PitInv, TypeOK, Phases
<1>3. CASE Flush(phase, t) /\ UNCHANGED gaveUp
  <2> HIDE DEF t
  <2> QED
    BY <1>1, <1>2, <1>3, RestoringFlush
<1>4. CASE /\ Flush("Failed", k)
           /\ gaveUp' = (gaveUp \/ (phase = "RestoringDatabase" /\ phase' = "Failed"))
  BY <1>2, <1>4, RestoringFlush
<1> QED
  BY <1>3, <1>4 DEF HoldStarted

(* A hold for the rollback.                                                *)
LEMMA RollbackHold ==
  ASSUME PitInv, phase = "RestoringDatabase", Exists, passed' = passed, HoldForRollback
  PROVE  StatusStep
<1>1. phase \in Phases /\ gaveUp \in BOOLEAN
  BY DEF PitInv, TypeOK
<1>2. PICK k \in {Follow, kept} :
        /\ regs' \in {FollowRegs, Registered}
        /\ (Flush(phase, k) /\ UNCHANGED gaveUp) \/ HoldStarted(k)
  BY DEF HoldForRollback
<1>3. /\ k \in Status /\ k.pin.at \in Places /\ k.backend \in Places
      /\ regs' \subseteq Places /\ regs' # {}
  BY <1>2, FollowFacts
<1>4. CASE Flush(phase, k) /\ UNCHANGED gaveUp
  BY <1>1, <1>3, <1>4, RestoringFlush
<1>5. CASE HoldStarted(k)
  BY <1>3, <1>5, RestoringHold
<1> QED
  BY <1>2, <1>4, <1>5

(* A flush in another phase: no rollback is open, unless the restore gave  *)
(* up.                                                                     *)
LEMMA OtherFlush ==
  ASSUME PitInv, phase # "RestoringDatabase",
         NEW q \in Phases \ {"RestoringDatabase"}, NEW k \in Status, Flush(q, k),
         regs' \subseteq Places, gaveUp' \in BOOLEAN, gaveUp => gaveUp',
         q \in {"Validating", "Primary"} => k.pin.at \in Places,
         q = "Primary" => woken \/ data[k.pin.at] = "point"
  PROVE  StatusStep
<1>1. /\ look' = NoLook /\ lost' \in 0..MaxLost
      /\ (phase' = q /\ kept' = k) \/ (phase' = phase /\ kept' = kept)
  BY FlushFacts DEF PitInv
<1>2. kept \in Status /\ phase \in Phases
  BY DEF PitInv, TypeOK
<1>3. ~Open \/ gaveUp
  BY DEF PitInv, OpenIsWaitedFor
<1>4. CASE phase' = q /\ kept' = k
  BY <1>1, <1>3, <1>4, Zenon DEF StatusStep
<1>5. CASE phase' = phase /\ kept' = kept
  BY <1>1, <1>2, <1>3, <1>5 DEF PitInv, StatusStep, PinnedPastPending, PrimaryMatched
<1> QED
  BY <1>1, <1>4, <1>5

(* The types of what a pass reads.                                         *)
LEMMA PassTypes ==
  ASSUME PitInv
  PROVE  /\ kept \in Status /\ Registered \subseteq Places /\ gaveUp \in BOOLEAN
         /\ server.at \in Places /\ Here \in Pin /\ Here.at = server.at
         /\ (IF kept.backend = None THEN {} ELSE Registered) \subseteq Places
<1>1. /\ kept \in Status /\ regs \subseteq Places /\ gaveUp \in BOOLEAN
      /\ server.at \in Places /\ contract.uid \in Nat
  BY DEF PitInv, TypeOK
<1>2. Registered \subseteq Places
  BY <1>1 DEF Registered, Status
<1>3. Here \in Pin /\ Here.at = server.at
  BY <1>1 DEF Here, Pin
<1> QED
  BY <1>1, <1>2, <1>3

(* A pass that goes back to Pending.                                       *)
LEMMA WaitStep ==
  ASSUME PitInv, phase # "RestoringDatabase", NEW k \in Status, Wait(k), gaveUp' = gaveUp
  PROVE  StatusStep
<1> DEFINE t == [k EXCEPT !.clock = FALSE]
<1>1. t \in Status
  BY StatusEdits
<1>2. Flush("Pending", t) /\ regs' \subseteq Places
  BY PassTypes DEF Wait
<1>3. "Pending" \in Phases \ {"RestoringDatabase"} /\ gaveUp' \in BOOLEAN /\ (gaveUp => gaveUp')
  BY PassTypes DEF Phases
<1> HIDE DEF t
<1> QED
  BY <1>1, <1>2, <1>3, OtherFlush

(* A pass that fails the restore while no rollback is open.                *)
LEMMA FailStep ==
  ASSUME PitInv, phase # "RestoringDatabase", NEW k \in Status, Fail(k), regs' \subseteq Places
  PROVE  StatusStep
BY PassTypes, OtherFlush DEF Fail, Phases

(* A pass that reads the database where the restore is pinned.             *)
LEMMA ReadStep ==
  ASSUME PitInv, phase # "RestoringDatabase", NEW k \in Status, k.pin.at = server.at,
         Read(k) \/ Unread(k)
  PROVE  StatusStep
<1>1. /\ server.at \in Places /\ gaveUp \in BOOLEAN /\ Registered \subseteq Places
      /\ {"Primary", "Validating"} \subseteq Phases \ {"RestoringDatabase"}
  BY PassTypes DEF Phases
<1>2. CASE data[server.at] = "point" /\ regs' = Registered
           /\ Flush("Primary", [k EXCEPT !.clock = FALSE]) /\ UNCHANGED gaveUp
  <2> DEFINE t == [k EXCEPT !.clock = FALSE]
  <2>1. t \in Status /\ t.pin = k.pin
    BY StatusEdits
  <2>2. Flush("Primary", t) /\ gaveUp' = gaveUp /\ regs' \subseteq Places
    BY <1>1, <1>2
  <2> HIDE DEF t
  <2> QED
    BY <1>1, <1>2, <2>1, <2>2, OtherFlush
<1>3. CASE Wait(k) /\ UNCHANGED gaveUp
  BY <1>3, WaitStep
<1>4. CASE regs' = Registered /\ Flush("Validating", [k EXCEPT !.clock = TRUE]) /\ UNCHANGED gaveUp
  <2> DEFINE t == [k EXCEPT !.clock = TRUE]
  <2>1. t \in Status /\ t.pin = k.pin
    BY StatusEdits
  <2>2. Flush("Validating", t) /\ gaveUp' = gaveUp /\ regs' \subseteq Places
    BY <1>1, <1>4
  <2> HIDE DEF t
  <2> QED
    BY <1>1, <2>1, <2>2, OtherFlush
<1>5. CASE regs' = Registered /\ Fail(k)
  BY <1>1, <1>5, FailStep
<1> QED
  BY <1>2, <1>3, <1>4, <1>5 DEF Read, Unread

(* A chain that resolves for exactly what was pinned is where it was.      *)
LEMMA WholeIsPinned ==
  ASSUME PitInv, Resolve(TRUE) = "ok", kept.pin.at \in Places
  PROVE  kept.pin.at = server.at
<1>1. Agrees(TRUE)
  BY DEF Resolve
<1>2. kept.pin # NoPin
  BY PitRestoreConstants DEF NoPin
<1> QED
  BY <1>1, <1>2 DEF Agrees

(* Once a rollback is over, the server has nothing left to take.           *)
LEMMA OverIsClosed ==
  ASSUME PitInv, phase = "RestoringDatabase", Rollback = "over" \/ Answered
  PROVE  ~Open
<1>1. kept.pin # NoPin
  BY PitRestoreConstants DEF PitInv, PinnedPastPending, NoPin
<1>2. Answered
  BY <1>1 DEF Rollback, Pinned
<1> QED
  BY <1>2 DEF PitInv, RunsUnanswered, Open
-----------------------------------------------------------------------------
(* The passes of a restore that waits.                                     *)
LEMMA PendingStep ==
  ASSUME PitInv, Waits \/ AdmitFails \/ AdmitExternal
  PROVE  PitInv'
<1>1. /\ life = "alive" /\ phase = "Pending" /\ OnlyStatus /\ Exists /\ kept \in Status
      /\ Registered \subseteq Places
  BY PassTypes DEF Waits, AdmitFails, AdmitExternal, In, Exists
<1>2. CASE Waits
  <2>1. StatusStep
    BY <1>1, <1>2, WaitStep DEF Waits
  <2> QED
    BY <1>1, <2>1, OnlyStatusKeeps
<1>3. CASE AdmitFails
  <2>1. StatusStep
    BY <1>1, <1>3, FailStep DEF AdmitFails
  <2> QED
    BY <1>1, <2>1, OnlyStatusKeeps
<1>4. CASE AdmitExternal
  <2> DEFINE k == [kept EXCEPT !.pin = Here]
  <2>1. k \in Status /\ k.pin.at = server.at
    BY <1>1, PassTypes DEF Status
  <2>2. Read(k) \/ Unread(k)
    BY <1>4 DEF AdmitExternal
  <2> HIDE DEF k
  <2>3. StatusStep
    BY <1>1, <2>1, <2>2, ReadStep
  <2> QED
    BY <1>1, <2>3, OnlyStatusKeeps
<1> QED
  BY <1>2, <1>3, <1>4

(* The suspension of the cluster.                                          *)
LEMMA SuspendStep ==
  ASSUME PitInv, Suspends
  PROVE  PitInv'
<1>1. StatusStep /\ Exists
  BY PassTypes, WaitStep DEF Suspends, In, Exists
<1>2. cluster' \in Targets /\ passed' \in BOOLEAN
  BY DEF PitInv, TypeOK, Suspends, Targets
<1> QED
  BY <1>1, <1>2, StatusKeeps DEF Suspends

(* The look at the backend before the registration on it.                  *)
LEMMA LookStep ==
  ASSUME PitInv, AdmitOperator
  PROVE  PitInv'
<1>1. /\ life' = life /\ passed' = passed /\ woken' = woken /\ cluster' = cluster
      /\ lease' = lease /\ other' = other /\ contract' = contract /\ server' = server
      /\ data' = data /\ acts' = acts /\ phase' = phase /\ kept' = kept /\ gaveUp' = gaveUp
      /\ lost' = lost /\ regs' = Registered /\ phase = "Pending" /\ life = "alive"
      /\ look' = [next |-> "register", pin |-> Here]
  BY DEF AdmitOperator, OnlyStatus, backend, world, In
<1>2. /\ look'.next = "register" /\ look'.pin = Here
      /\ look' \in [next : {"none", "register", "ask"}, pin : Pin]
  BY <1>1, PassTypes
<1>3. TypeOK'
  BY <1>1, <1>2, PassTypes DEF PitInv, TypeOK
<1>4. LookInPhase'
  BY <1>1, <1>2, PassTypes DEF LookInPhase, NoLook, Exists
<1>5. /\ PinnedPastPending' /\ RestoringHeld' /\ RunsUnanswered' /\ NothingBefore'
      /\ NothingAfter' /\ PrimaryMatched'
  BY <1>1 DEF PitInv, PinnedPastPending, RestoringHeld, RunsUnanswered, NothingBefore,
              NothingAfter, PrimaryMatched, Answered
<1>6. OpenIsWaitedFor'
  BY <1>1 DEF PitInv, OpenIsWaitedFor, Open, Answered, Exists
<1> QED
  BY <1>3, <1>4, <1>5, <1>6 DEF PitInv

(* The registration.                                                       *)
LEMMA RegisterStep ==
  ASSUME PitInv, Register
  PROVE  PitInv'
<1> DEFINE k == [kept EXCEPT !.pin = look.pin, !.backend = look.pin.at]
<1>1. /\ Exists /\ phase = "Pending" /\ look.pin \in Pin /\ look.pin.at \in Places
      /\ regs \subseteq Places /\ gaveUp \in BOOLEAN /\ kept \in Status /\ passed \in BOOLEAN
      /\ phase \in Phases
  BY DEF PitInv, TypeOK, LookInPhase, Register
<1>2. k \in Status /\ k.pin.at \in Places /\ k.backend \in Places
  BY <1>1 DEF Status
<1>3. Flush("RestoringDatabase", k) /\ gaveUp' = gaveUp
  BY DEF Register
<1> HIDE DEF k
<1>4. /\ look' = NoLook /\ lost' \in 0..MaxLost
      /\ (phase' = "RestoringDatabase" /\ kept' = k) \/ (phase' = phase /\ kept' = kept)
  BY <1>3, FlushFacts DEF PitInv
<1>5. /\ regs' \subseteq Places /\ regs' # {} /\ passed' \in BOOLEAN
      /\ other # "down" => passed'
  BY <1>1 DEF Register
<1>6. ~Open \/ gaveUp
  BY <1>1 DEF PitInv, OpenIsWaitedFor
<1>7. StatusStep
  BY <1>1, <1>2, <1>3, <1>4, <1>5, <1>6 DEF StatusStep, Phases
<1>8. UNCHANGED <<life, woken, backend, world, acts>> /\ cluster' \in Targets
  BY DEF Register, PitInv, TypeOK, Targets
<1> QED
  BY <1>1, <1>5, <1>7, <1>8, StatusKeeps
-----------------------------------------------------------------------------
(* The passes of RestoringDatabase that end with a flush.                  *)
LEMMA RestoringStep ==
  ASSUME PitInv, Exists, phase = "RestoringDatabase", OnlyStatus,
         \/ HoldForRollback
         \/ (Rollback = "over" \/ Answered) /\ regs' = Registered /\ Fail(kept)
         \/ (Rollback = "over" \/ Answered) /\ regs' = FollowRegs /\ Fail(Follow)
         \/ regs' = Registered /\ HoldStarted(kept)
         \/ regs' = FollowRegs /\ HoldStarted(Follow)
         \/ regs' = FollowRegs /\ Flush(phase, Follow) /\ UNCHANGED gaveUp
         \/ /\ Answered /\ regs' = FollowRegs /\ UNCHANGED gaveUp
            /\ Flush("Validating", [Follow EXCEPT !.pin = Here, !.clock = FALSE])
  PROVE  PitInv'
<1>1. /\ passed' = passed /\ phase \in Phases /\ {"Failed", "Validating"} \subseteq Phases
      /\ gaveUp \in BOOLEAN
  BY DEF OnlyStatus, PitInv, TypeOK, Phases
<1>2. CASE HoldForRollback
  BY <1>1, <1>2, RollbackHold, OnlyStatusKeeps
<1>3. CASE (Rollback = "over" \/ Answered) /\ regs' = Registered /\ Fail(kept)
  <2>1. StatusStep
    BY <1>1, <1>3, FollowFacts, OverIsClosed, RestoringFlush DEF Fail
  <2> QED
    BY <2>1, OnlyStatusKeeps
<1>4. CASE (Rollback = "over" \/ Answered) /\ regs' = FollowRegs /\ Fail(Follow)
  <2>1. StatusStep
    BY <1>1, <1>4, FollowFacts, OverIsClosed, RestoringFlush DEF Fail
  <2> QED
    BY <2>1, OnlyStatusKeeps
<1>5. CASE \/ regs' = Registered /\ HoldStarted(kept)
           \/ regs' = FollowRegs /\ HoldStarted(Follow)
  BY <1>1, <1>5, FollowFacts, RestoringHold, OnlyStatusKeeps
<1>6. CASE regs' = FollowRegs /\ Flush(phase, Follow) /\ UNCHANGED gaveUp
  <2>1. StatusStep
    BY <1>1, <1>6, FollowFacts, RestoringFlush
  <2> QED
    BY <2>1, OnlyStatusKeeps
<1>7. CASE /\ Answered /\ regs' = FollowRegs /\ UNCHANGED gaveUp
           /\ Flush("Validating", [Follow EXCEPT !.pin = Here, !.clock = FALSE])
  <2> DEFINE k == [Follow EXCEPT !.pin = Here, !.clock = FALSE]
  <2>1. k \in Status /\ k.pin = Here /\ k.backend = Follow.backend
    BY FollowFacts, PassTypes DEF Status
  <2>2. Flush("Validating", k)
    BY <1>7
  <2> HIDE DEF k
  <2>3. StatusStep
    BY <1>1, <1>7, <2>1, <2>2, FollowFacts, PassTypes, OverIsClosed, RestoringFlush
  <2> QED
    BY <2>3, OnlyStatusKeeps
<1> QED
  BY <1>2, <1>3, <1>4, <1>5, <1>6, <1>7

(* Each pass of RestoringDatabase but the one that asks is one of them.    *)
LEMMA RestoringPasses ==
  ASSUME PitInv,
         \/ TargetLost \/ Unresolved \/ Awake \/ NoLongerRecovers \/ ReadAnswer \/ HoldDeletion
  PROVE  PitInv'
<1>1. CASE TargetLost
  BY <1>1, RestoringStep DEF TargetLost, In, Exists
<1>2. CASE Unresolved
  BY <1>2, RestoringStep DEF Unresolved, In, Exists
<1>3. CASE Awake
  BY <1>3, RestoringStep DEF Awake, Resolved, In, Exists
<1>4. CASE NoLongerRecovers
  BY <1>4, RestoringStep DEF NoLongerRecovers, Asleep, Resolved, In, Exists
<1>5. CASE ReadAnswer
  BY <1>5, RestoringStep DEF ReadAnswer, Asleep, Resolved, In, Exists
<1>6. CASE HoldDeletion
  BY <1>6, RestoringStep DEF HoldDeletion, MustHold, Exists
<1> QED
  BY <1>1, <1>2, <1>3, <1>4, <1>5, <1>6

(* The pass that goes on to ask.                                           *)
LEMMA GoOnStep ==
  ASSUME PitInv, GoOnToAsk
  PROVE  PitInv'
<1>1. /\ life = "alive" /\ phase = "RestoringDatabase" /\ Exists /\ OnlyStatus
      /\ regs' = FollowRegs /\ gaveUp' = gaveUp
  BY DEF GoOnToAsk, Asleep, Resolved, In, Exists
<1>2. CASE Flush(phase, Follow)
  BY <1>1, <1>2, RestoringStep
<1>3. CASE look' = [next |-> "ask", pin |-> Here] /\ UNCHANGED <<phase, kept, lost>>
  <2>1. /\ life' = life /\ passed' = passed /\ woken' = woken /\ cluster' = cluster
        /\ lease' = lease /\ other' = other /\ contract' = contract /\ server' = server
        /\ data' = data /\ acts' = acts /\ phase' = phase /\ kept' = kept
        /\ lost' = lost
    BY <1>1, <1>3 DEF OnlyStatus, backend, world
  <2>2. /\ look'.next = "ask" /\ look'.pin = Here
        /\ look' \in [next : {"none", "register", "ask"}, pin : Pin]
    BY <1>3, PassTypes
  <2>3. regs' \subseteq Places /\ regs' # {}
    BY <1>1, FollowFacts
  <2>4. TypeOK'
    BY <1>1, <2>1, <2>2, <2>3 DEF PitInv, TypeOK
  <2>5. LookInPhase'
    BY <1>1, <2>1, <2>2, PassTypes DEF LookInPhase, NoLook, Exists
  <2>6. PinnedPastPending' /\ RestoringHeld' /\ NothingBefore' /\ NothingAfter' /\ PrimaryMatched'
    BY <1>1, <2>1, <2>3 DEF PitInv, PinnedPastPending, RestoringHeld, NothingBefore,
                             NothingAfter, PrimaryMatched, Exists
  <2>7. RunsUnanswered' /\ OpenIsWaitedFor'
    BY <1>1, <2>1 DEF PitInv, RunsUnanswered, OpenIsWaitedFor, Open, Answered, Exists
  <2> QED
    BY <2>4, <2>5, <2>6, <2>7 DEF PitInv
<1> QED
  BY <1>2, <1>3 DEF GoOnToAsk

(* The request: an open rollback that the restore waits for.               *)
LEMMA AskStep ==
  ASSUME PitInv, AskForRecovery
  PROVE  PitInv'
<1> DEFINE k == [kept EXCEPT !.backend = look.pin.at]
<1>1. /\ phase = "RestoringDatabase" /\ Exists /\ look.pin.at \in Places /\ kept \in Status
      /\ gaveUp \in BOOLEAN /\ phase \in Phases
  BY DEF PitInv, TypeOK, LookInPhase, AskForRecovery
<1>2. k \in Status /\ k.pin = kept.pin /\ k.backend \in Places
  BY <1>1 DEF Status
<1>3. Flush(phase, k)
  BY DEF AskForRecovery
<1> HIDE DEF k
<1>4. /\ look' = NoLook /\ lost' \in 0..MaxLost /\ phase' = phase
      /\ kept' \in Status /\ kept'.pin = kept.pin /\ kept'.backend \in Places
  BY <1>1, <1>2, <1>3, FlushFacts DEF PitInv, PinnedPastPending
<1>5. /\ life' = life /\ regs' = regs /\ gaveUp' = gaveUp /\ passed' = passed /\ woken' = woken
      /\ cluster' = cluster /\ lease' = lease /\ other' = other /\ server' = server
      /\ data' = data /\ acts' = acts
  BY DEF AskForRecovery, backend
<1>6. contract' \in [uid : Nat, there : BOOLEAN, recovers : BOOLEAN, asked : BOOLEAN,
                     ready : BOOLEAN]
  BY DEF AskForRecovery, PitInv, TypeOK
<1>7. TypeOK'
  BY <1>4, <1>5, <1>6, StartTypes DEF PitInv, TypeOK
<1>8. LookInPhase'
  BY <1>4 DEF LookInPhase, NoLook
<1>9. /\ PinnedPastPending' /\ RestoringHeld' /\ RunsUnanswered' /\ NothingBefore'
      /\ NothingAfter' /\ PrimaryMatched'
  BY <1>1, <1>4, <1>5 DEF PitInv, PinnedPastPending, RestoringHeld, RunsUnanswered, Answered,
                          NothingBefore, NothingAfter, PrimaryMatched, Exists
<1>10. OpenIsWaitedFor'
  BY <1>1, <1>4, <1>5 DEF OpenIsWaitedFor, Exists
<1> QED
  BY <1>7, <1>8, <1>9, <1>10 DEF PitInv
-----------------------------------------------------------------------------
(* The passes that hold a late phase or fail it.                           *)
LEMMA HoldLateStep ==
  ASSUME PitInv, HoldLate
  PROVE  PitInv'
<1>1. /\ Exists /\ phase \in {"Validating", "Primary"} /\ phase \in Phases /\ OnlyStatus
      /\ regs' \subseteq Places /\ kept \in Status /\ gaveUp \in BOOLEAN
      /\ kept.pin.at \in Places
  BY PassTypes DEF HoldLate, In, Exists, Phases, PitInv, PinnedPastPending
<1>2. CASE HoldStarted(kept)
  <2> DEFINE t == [kept EXCEPT !.clock = TRUE]
  <2>1. t \in Status /\ t.pin = kept.pin
    BY <1>1, StatusEdits
  <2>2. CASE Flush(phase, t) /\ gaveUp' = gaveUp
    <3> HIDE DEF t
    <3>1. StatusStep
      BY <1>1, <2>1, <2>2, OtherFlush DEF PitInv, PrimaryMatched
    <3> QED
      BY <1>1, <3>1, OnlyStatusKeeps
  <2>3. CASE Flush("Failed", kept) /\ gaveUp' = gaveUp
    <3>1. StatusStep
      BY <1>1, <2>3, OtherFlush DEF Phases
    <3> QED
      BY <1>1, <3>1, OnlyStatusKeeps
  <2>4. phase # "RestoringDatabase"
    BY <1>1
  <2> QED
    BY <1>1, <1>2, <2>2, <2>3, <2>4 DEF HoldStarted
<1>3. CASE Fail(kept)
  <2>1. StatusStep
    BY <1>1, <1>3, FailStep
  <2> QED
    BY <1>1, <2>1, OnlyStatusKeeps
<1> QED
  BY <1>2, <1>3 DEF HoldLate

(* The validation and the restore of the volumes.                          *)
LEMMA LateStep ==
  ASSUME PitInv, Validate \/ RestorePrimary
  PROVE  PitInv'
<1>1. CASE Validate
  <2>1. /\ Exists /\ phase = "Validating" /\ OnlyStatus /\ kept \in Status
        /\ kept.pin.at = server.at
    BY <1>1, PassTypes, WholeIsPinned
    DEF Validate, Whole, In, Exists, PitInv, PinnedPastPending
  <2>2. StatusStep
    BY <1>1, <2>1, ReadStep DEF Validate
  <2> QED
    BY <2>1, <2>2, OnlyStatusKeeps
<1>2. CASE RestorePrimary
  <2>1. /\ Exists /\ phase = "Primary" /\ OnlyStatus /\ kept \in Status
        /\ kept.pin.at \in Places /\ regs' \subseteq Places /\ gaveUp' = gaveUp
        /\ gaveUp' \in BOOLEAN /\ {"Primary", "Completed", "Failed"} \subseteq Phases
        /\ woken \/ data[kept.pin.at] = "point"
    BY <1>2, PassTypes
    DEF RestorePrimary, Whole, In, Exists, PitInv, PinnedPastPending, PrimaryMatched, Phases
  <2>2. PICK p \in {"Primary", "Completed", "Failed"} : Flush(p, kept)
    BY <1>2 DEF RestorePrimary
  <2>3. StatusStep
    BY <2>1, <2>2, OtherFlush
  <2> QED
    BY <2>1, <2>3, OnlyStatusKeeps
<1> QED
  BY <1>1, <1>2

(* The end, the finalizer and a stop between two writes.                   *)
LEMMA EndStep ==
  ASSUME PitInv, Finish \/ Finalize \/ Crash
  PROVE  PitInv'
<1>1. /\ passed' = passed /\ woken' = woken /\ phase' = phase /\ kept' = kept
      /\ lease' = lease /\ other' = other /\ contract' = contract /\ server' = server
      /\ data' = data /\ acts' = acts
  BY DEF Finish, Finalize, Crash, backend, world
<1>2. RunsUnanswered' /\ PrimaryMatched' /\ PinnedPastPending'
  BY <1>1 DEF PitInv, RunsUnanswered, Answered, PrimaryMatched, PinnedPastPending
<1>3. CASE Finish
  <2>1. /\ life' = life /\ life = "alive" /\ look' = look /\ gaveUp' = gaveUp /\ lost' = lost
        /\ regs' = {} /\ cluster' \in Targets /\ phase # "RestoringDatabase"
    BY <1>3 DEF Finish, Terminal, PitInv, TypeOK, Targets
  <2>2. TypeOK'
    BY <1>1, <2>1 DEF PitInv, TypeOK, Targets
  <2>3. /\ LookInPhase' /\ RestoringHeld' /\ NothingBefore' /\ NothingAfter'
        /\ OpenIsWaitedFor'
    BY <1>1, <2>1 DEF PitInv, LookInPhase, RestoringHeld, NothingBefore, NothingAfter,
                      OpenIsWaitedFor, Open, Answered, Exists
  <2> QED
    BY <1>2, <2>2, <2>3 DEF PitInv
<1>4. CASE Finalize
  <2>1. /\ life' = "gone" /\ look' = look /\ look = NoLook /\ regs' = {} /\ lost' = lost
        /\ cluster' = cluster /\ gaveUp' \in BOOLEAN
    BY <1>4 DEF Finalize, PitInv, TypeOK
  <2>2. TypeOK'
    BY <1>1, <2>1 DEF PitInv, TypeOK
  <2>3. ~Open \/ gaveUp'
    <3>1. CASE ~MustHold /\ gaveUp' = gaveUp
      BY <3>1, OverIsClosed DEF MustHold, PitInv, OpenIsWaitedFor
    <3> QED
      BY <1>4, <3>1 DEF Finalize
  <2>4. /\ LookInPhase' /\ RestoringHeld' /\ NothingBefore' /\ NothingAfter'
        /\ OpenIsWaitedFor'
    BY <1>1, <2>1, <2>3 DEF LookInPhase, RestoringHeld, NothingBefore, NothingAfter,
                            OpenIsWaitedFor, Open, Answered, Exists, NoLook
  <2> QED
    BY <1>2, <2>2, <2>4 DEF PitInv
<1>5. CASE Crash
  <2>1. /\ life' = life /\ look' = NoLook /\ regs' = regs /\ gaveUp' = gaveUp
        /\ cluster' = cluster /\ lost' \in 0..MaxLost
    BY <1>5, PitRestoreConstants DEF Crash, PitInv, TypeOK
  <2>2. TypeOK'
    BY <1>1, <2>1, StartTypes DEF PitInv, TypeOK
  <2>3. /\ LookInPhase' /\ RestoringHeld' /\ NothingBefore' /\ NothingAfter'
        /\ OpenIsWaitedFor'
    BY <1>1, <2>1 DEF PitInv, LookInPhase, RestoringHeld, NothingBefore, NothingAfter,
                      OpenIsWaitedFor, Open, Answered, Exists, NoLook
  <2> QED
    BY <1>2, <2>2, <2>3 DEF PitInv
<1> QED
  BY <1>3, <1>4, <1>5
-----------------------------------------------------------------------------
(* What the world may do under a restore: it opens no rollback, no other   *)
(* cluster looks past a registration, and the point stays where it was     *)
(* read until brokers start.                                               *)
WorldStep ==
  /\ UNCHANGED <<phase, kept, look, regs, gaveUp, passed, lost>>
  /\ \/ life' = life
     \/ life = "absent" /\ life' = "alive"
     \/ life = "alive" /\ life' = "deleting"
  /\ woken' \in BOOLEAN /\ cluster' \in Targets /\ lease' \in [Places -> {"free", "target", "other"}]
  /\ other' \in {"down", "cleared", "runs"}
  /\ contract' \in [uid : Nat, there : BOOLEAN, recovers : BOOLEAN, asked : BOOLEAN, ready : BOOLEAN]
  /\ server' \in [at : Places, run : BOOLEAN, moved : BOOLEAN,
                  out : {"none", "Completed", "Failed", "Unavailable"}]
  /\ data' \in [Places -> {"live", "point"}] /\ acts' \in 0..MaxActs
  /\ other' # "down" => other # "down" \/ regs = {}
  /\ server'.run => server'.out = "none"
  /\ Open' => Open
  /\ phase = "Primary" => woken' \/ (~woken /\ \A p \in Places : data[p] = "point" => data'[p] = "point")

(* A step of the world keeps the invariant.                                *)
LEMMA WorldKeeps ==
  ASSUME PitInv, WorldStep
  PROVE  PitInv'
<1>1. /\ phase' = phase /\ kept' = kept /\ look' = look /\ regs' = regs /\ gaveUp' = gaveUp
      /\ passed' = passed /\ lost' = lost
  BY DEF WorldStep
<1>2. TypeOK'
  BY <1>1 DEF PitInv, TypeOK, WorldStep, Targets
<1>3. LookInPhase' /\ PinnedPastPending' /\ NothingBefore' /\ NothingAfter'
  BY <1>1 DEF PitInv, WorldStep, LookInPhase, PinnedPastPending, NothingBefore, NothingAfter,
              Exists
<1>4. RestoringHeld'
  BY <1>1 DEF PitInv, WorldStep, RestoringHeld, NothingBefore, Exists
<1>5. RunsUnanswered' /\ OpenIsWaitedFor'
  BY <1>1 DEF PitInv, WorldStep, RunsUnanswered, Answered, OpenIsWaitedFor, Exists
<1>6. PrimaryMatched'
  BY <1>1 DEF PitInv, WorldStep, PrimaryMatched, PinnedPastPending
<1> QED
  BY <1>2, <1>3, <1>4, <1>5, <1>6 DEF PitInv

(* The types of the world.                                                 *)
LEMMA WorldTypes ==
  ASSUME PitInv
  PROVE  /\ life \in {"absent", "alive", "deleting", "gone"} /\ woken \in BOOLEAN
         /\ cluster \in Targets /\ lease \in [Places -> {"free", "target", "other"}]
         /\ other \in {"down", "cleared", "runs"}
         /\ contract \in [uid : Nat, there : BOOLEAN, recovers : BOOLEAN, asked : BOOLEAN,
                          ready : BOOLEAN]
         /\ server \in [at : Places, run : BOOLEAN, moved : BOOLEAN,
                        out : {"none", "Completed", "Failed", "Unavailable"}]
         /\ data \in [Places -> {"live", "point"}] /\ acts \in 0..MaxActs
         /\ server.run => server.out = "none"
BY DEF PitInv, TypeOK, Targets, RunsUnanswered, Answered

(* Edits of a contract that ask for nothing.                               *)
LEMMA ContractEdits ==
  ASSUME NEW c, c \in [uid : Nat, there : BOOLEAN, recovers : BOOLEAN, asked : BOOLEAN,
                       ready : BOOLEAN],
         NEW d,
         \/ d \in {[c EXCEPT !.there = FALSE], [c EXCEPT !.recovers = ~@], [c EXCEPT !.asked = FALSE],
                   [c EXCEPT !.ready = FALSE], [c EXCEPT !.ready = TRUE]}
         \/ d = [c EXCEPT !.uid = @ + 1, !.there = TRUE, !.asked = FALSE, !.ready = FALSE]
  PROVE  /\ d \in [uid : Nat, there : BOOLEAN, recovers : BOOLEAN, asked : BOOLEAN, ready : BOOLEAN]
         /\ d.there /\ d.asked => c.there /\ c.asked
<1>1. CASE d = [c EXCEPT !.there = FALSE]
  BY <1>1
<1>2. CASE d = [c EXCEPT !.recovers = ~@]
  <2>1. (~c.recovers) \in BOOLEAN
    OBVIOUS
  <2> QED
    BY <1>2, <2>1, Zenon
<1>3. CASE d = [c EXCEPT !.asked = FALSE]
  BY <1>3
<1>4. CASE d = [c EXCEPT !.ready = FALSE]
  BY <1>4
<1>5. CASE d = [c EXCEPT !.ready = TRUE]
  BY <1>5
<1>6. CASE d = [c EXCEPT !.uid = @ + 1, !.there = TRUE, !.asked = FALSE, !.ready = FALSE]
  <2>1. d = [uid |-> c.uid + 1, there |-> TRUE, recovers |-> c.recovers, asked |-> FALSE,
             ready |-> FALSE]
    BY <1>6
  <2>2. c.uid + 1 \in Nat /\ c.recovers \in BOOLEAN
    OBVIOUS
  <2>3. d.asked = FALSE
    BY <2>1
  <2> QED
    BY <2>1, <2>2, <2>3, Zenon
<1> QED
  BY <1>1, <1>2, <1>3, <1>4, <1>5, <1>6

(* The clusters.                                                           *)
LEMMA ClustersStep ==
  ASSUME PitInv, Clusters
  PROVE  PitInv'
<1> USE WorldTypes
<1>1. CASE ScaleUp \/ OtherStarts
  <2>1. WorldStep
    BY ZenonT(60), <1>1 DEF ScaleUp, OtherStarts, Starts, WorldStep, Targets, Open, Answered
  <2> QED
    BY <2>1, WorldKeeps
<1>2. CASE ScaleDown
  <2>1. WorldStep
    BY ZenonT(60), <1>2 DEF ScaleDown, OnlyBackend, restore, backend, world, WorldStep, Targets,
       Open, Answered
  <2> QED
    BY <2>1, WorldKeeps
<1>4. CASE TargetClaims \/ OtherClaims \/ \E p \in Places : TargetLeaves(p)
  <2>1. lease' \in [Places -> {"free", "target", "other"}]
    BY <1>4 DEF TargetClaims, OtherClaims, TargetLeaves
  <2>2. UNCHANGED <<restore, world, lost, cluster, other, acts>>
    BY <1>4 DEF TargetClaims, OtherClaims, TargetLeaves, OnlyBackend
  <2>3. WorldStep
    BY <2>1, <2>2 DEF restore, world, WorldStep, Targets, Open, Answered
  <2> QED
    BY <2>3, WorldKeeps
<1>3. CASE OtherLooks \/ OtherLeaves
  <2>1. acts' \in 0..MaxActs
    BY <1>3, PitRestoreConstants DEF OtherLooks, OtherLeaves
  <2>2. WorldStep
    BY <1>3, <2>1 DEF OtherLooks, OtherLeaves, Live, OnlyBackend, restore, world,
                      WorldStep, Targets, Open, Answered
  <2> QED
    BY <2>2, WorldKeeps
<1> QED
  BY <1>1, <1>2, <1>3, <1>4 DEF Clusters

(* The server.                                                             *)
LEMMA ProducerStep ==
  ASSUME PitInv, Producer
  PROVE  PitInv'
<1> USE WorldTypes
<1>1. CASE Accept \/ Refuse \/ Answer
  <2>1. WorldStep
    BY ZenonT(60), <1>1 DEF Accept, Refuse, Answer, OnlyServer, restore, backend, WorldStep, Open, Answered
  <2> QED
    BY <2>1, WorldKeeps
<1>2. CASE Probe \/ Republish
  <2>1. /\ contract' \in [uid : Nat, there : BOOLEAN, recovers : BOOLEAN, asked : BOOLEAN,
                          ready : BOOLEAN]
        /\ contract'.there /\ contract'.asked => contract.there /\ contract.asked
    BY <1>2, ContractEdits DEF Probe, Republish
  <2>2. UNCHANGED <<server, data, restore, cluster, backend, acts, lost>>
    BY <1>2 DEF Probe, Republish, OnlyServer
  <2>3. WorldStep
    BY <2>1, <2>2 DEF restore, backend, WorldStep, Open, Answered
  <2> QED
    BY <2>3, WorldKeeps
<1>3. CASE \E p \in Places : CutOver(p)
  <2>1. /\ contract' \in [uid : Nat, there : BOOLEAN, recovers : BOOLEAN, asked : BOOLEAN,
                          ready : BOOLEAN]
        /\ contract'.there /\ contract'.asked => contract.there /\ contract.asked
    BY <1>3, ContractEdits DEF CutOver
  <2>2. UNCHANGED <<restore, cluster, backend, acts, lost>>
    BY <1>3 DEF CutOver, OnlyServer
  <2>3. PICK p \in Places : /\ server' = [server EXCEPT !.at = p, !.moved = TRUE]
                            /\ data' = [data EXCEPT ![p] = "point"]
    BY <1>3 DEF CutOver
  <2>4. /\ server' \in [at : Places, run : BOOLEAN, moved : BOOLEAN,
                        out : {"none", "Completed", "Failed", "Unavailable"}]
        /\ server'.out = server.out /\ server'.run = server.run
    BY <2>3
  <2>5. /\ data' \in [Places -> {"live", "point"}]
        /\ \A q \in Places : data[q] = "point" => data'[q] = "point"
    BY <2>3
  <2>6. Open' => Open
    BY <2>1, <2>4, Zenon DEF Open, Answered
  <2>7. WorldStep
    BY <2>1, <2>2, <2>4, <2>5, <2>6, Zenon DEF restore, backend, WorldStep
  <2> QED
    BY <2>7, WorldKeeps
<1> QED
  BY <1>1, <1>2, <1>3 DEF Producer

(* The users.                                                              *)
LEMMA UsersStep ==
  ASSUME PitInv, Users
  PROVE  PitInv'
<1> USE WorldTypes
<1>1. CASE Submit \/ Delete
  <2>1. WorldStep
    BY <1>1 DEF Submit, Delete, backend, world, WorldStep, Open, Answered
  <2> QED
    BY <2>1, WorldKeeps
<1>2. CASE ChangeContract \/ ChangeCluster \/ ChangeServer
  <2>1. acts' \in 0..MaxActs
    BY <1>2, PitRestoreConstants DEF ChangeContract, ChangeCluster, ChangeServer, Act
  <2>2. CASE ChangeContract
    <3>1. /\ contract' \in [uid : Nat, there : BOOLEAN, recovers : BOOLEAN, asked : BOOLEAN,
                            ready : BOOLEAN]
          /\ contract'.there /\ contract'.asked => contract.there /\ contract.asked
      BY <2>2, ContractEdits DEF ChangeContract
    <3>2. UNCHANGED <<restore, cluster, backend, server, data, lost>>
      BY <2>2 DEF ChangeContract
    <3>3. WorldStep
      BY <2>1, <3>1, <3>2 DEF restore, backend, WorldStep, Open, Answered
    <3> QED
      BY <3>3, WorldKeeps
  <2>3. CASE ChangeCluster
    <3>1. cluster' \in Targets
      <4>1. CASE \/ cluster' = [cluster EXCEPT !.is = "replaced"]
                 \/ cluster' = [cluster EXCEPT !.is = "gone"]
        BY <4>1 DEF Targets
      <4>2. CASE cluster' = [cluster EXCEPT !.suspended = ~@]
        <5>1. (~cluster.suspended) \in BOOLEAN
          OBVIOUS
        <5> QED
          BY <4>2, <5>1, Zenon DEF Targets
      <4>3. CASE \E c \in {"home", "other", "broken"} : cluster' = [cluster EXCEPT !.chain = c]
        BY <4>3 DEF Targets
      <4> QED
        BY <2>3, <4>1, <4>2, <4>3 DEF ChangeCluster
    <3>2. UNCHANGED <<backend, restore, world, lost>>
      BY <2>3 DEF ChangeCluster
    <3>3. WorldStep
      BY <2>1, <3>1, <3>2 DEF restore, backend, world, WorldStep, Open, Answered
    <3> QED
      BY <3>3, WorldKeeps
  <2>4. CASE ChangeServer
    <3>1. /\ contract' \in [uid : Nat, there : BOOLEAN, recovers : BOOLEAN, asked : BOOLEAN,
                            ready : BOOLEAN]
          /\ contract'.there /\ contract'.asked => contract.there /\ contract.asked
      BY <2>4, ContractEdits DEF ChangeServer
    <3>2. /\ server' \in [at : Places, run : BOOLEAN, moved : BOOLEAN,
                          out : {"none", "Completed", "Failed", "Unavailable"}]
          /\ server'.out = server.out /\ server'.run = server.run
      BY <2>4 DEF ChangeServer
    <3>3. /\ data' \in [Places -> {"live", "point"}]
          /\ \A q \in Places : data[q] = "point" => data'[q] = "point"
      BY <2>4 DEF ChangeServer
    <3>4. UNCHANGED <<restore, cluster, backend, lost>>
      BY <2>4 DEF ChangeServer
    <3>5. Open' => Open
      BY <3>1, <3>2, Zenon DEF Open, Answered
    <3>6. WorldStep
      BY <2>1, <3>1, <3>2, <3>3, <3>4, <3>5, Zenon DEF restore, backend, WorldStep
    <3> QED
      BY <3>6, WorldKeeps
  <2> QED
    BY <1>2, <2>2, <2>3, <2>4
<1> QED
  BY <1>1, <1>2 DEF Users
-----------------------------------------------------------------------------
(* Initially nothing is restored.                                          *)
LEMMA PitInitially == Init => PitInv
<1> SUFFICES ASSUME Init PROVE PitInv
  OBVIOUS
<1>1. TypeOK
  <2>1. contract \in [uid : Nat, there : BOOLEAN, recovers : BOOLEAN, asked : BOOLEAN, ready : BOOLEAN]
    <3>1. PICK b \in BOOLEAN :
            contract = [uid |-> 1, there |-> TRUE, recovers |-> b, asked |-> FALSE, ready |-> TRUE]
      BY DEF Init
    <3> QED
      BY <3>1
  <2>2. lease \in [Places -> {"free", "target", "other"}] /\ data \in [Places -> {"live", "point"}]
    BY DEF Init
  <2>3. /\ server \in [at : Places, run : BOOLEAN, moved : BOOLEAN,
                       out : {"none", "Completed", "Failed", "Unavailable"}]
        /\ cluster \in [is : {"there", "gone", "replaced"}, chain : {"home", "other", "broken"},
                        suspended : BOOLEAN, run : BOOLEAN]
    BY PitRestoreConstants DEF Init
  <2>4. acts \in 0..MaxActs /\ lost \in 0..MaxLost
    BY PitRestoreConstants DEF Init
  <2> QED
    BY <2>1, <2>2, <2>3, <2>4, StartTypes DEF Init, TypeOK, Phases
<1>2. /\ LookInPhase /\ PinnedPastPending /\ RestoringHeld /\ RunsUnanswered
      /\ NothingBefore /\ NothingAfter /\ PrimaryMatched
  BY DEF Init, LookInPhase, NoLook, PinnedPastPending, RestoringHeld, RunsUnanswered,
         NothingBefore, NothingAfter, PrimaryMatched, Exists
<1>3. OpenIsWaitedFor
  BY DEF Init, OpenIsWaitedFor, Open
<1> QED
  BY <1>1, <1>2, <1>3 DEF PitInv

(* Every step keeps the invariant.                                         *)
LEMMA PitKept == PitInv /\ [Next]_vars => PitInv'
<1> SUFFICES ASSUME PitInv, [Next]_vars PROVE PitInv'
  OBVIOUS
<1>1. CASE Pass
  BY <1>1, PendingStep, SuspendStep, LookStep, RegisterStep, RestoringPasses, GoOnStep, AskStep,
     HoldLateStep, LateStep, EndStep DEF Pass
<1>2. CASE Crash \/ Producer \/ Clusters \/ Users
  BY <1>2, EndStep, ProducerStep, ClustersStep, UsersStep
<1>3. CASE UNCHANGED vars
  <2>1. /\ UNCHANGED <<life, phase, kept, look, regs, gaveUp, passed, woken>>
        /\ UNCHANGED <<cluster, lease, other, contract, server, data, acts, lost>>
    BY <1>3 DEF vars, restore, backend, world
  <2>2. TypeOK'
    BY <2>1 DEF PitInv, TypeOK
  <2> QED
    BY <2>1, <2>2 DEF PitInv, LookInPhase, PinnedPastPending, RestoringHeld, RunsUnanswered,
                      OpenIsWaitedFor, Open, Answered, NothingBefore, NothingAfter,
                      PrimaryMatched, Exists
<1> QED
  BY <1>1, <1>2, <1>3 DEF Next

(* The inductive invariant: a rollback that runs or can still be accepted  *)
(* has a restore in RestoringDatabase that waits for it, with a            *)
(* registration that turns every look of another cluster away.             *)
THEOREM PitInvariant == Spec => []PitInv
<1> QED
  BY PitInitially, PitKept, PTL DEF Spec

(* A restore and the world around it keep their types.                     *)
THEOREM PitTypeCorrect == Spec => []TypeOK
<1>1. PitInv => TypeOK
  BY DEF PitInv
<1> QED
  BY <1>1, PitInvariant, PTL

(* While the server rolls back, the restore that asked holds the database, *)
(* unless the grace of a failing pass ended it.                            *)
THEOREM PitRollbackIsCovered == Spec => []RollbackIsCovered
<1>1. PitInv => RollbackIsCovered
  BY DEF PitInv, RollbackIsCovered, OpenIsWaitedFor, Open, RestoringHeld
<1> QED
  BY <1>1, PitInvariant, PTL

(* No other cluster writes the database while its server rolls back, but   *)
(* for one that had claimed it between the look and the registration.      *)
THEOREM PitRolledBackAlone == Spec => []RolledBackAlone
<1>1. PitInv => RolledBackAlone
  BY DEF PitInv, RolledBackAlone, OpenIsWaitedFor, Open, RestoringHeld
<1> QED
  BY <1>1, PitInvariant, PTL

(* A restore that is gone leaves no registration on any backend.           *)
THEOREM PitGoneLeavesNoWriter == Spec => []GoneLeavesNoWriter
<1>1. PitInv => GoneLeavesNoWriter
  BY DEF PitInv, GoneLeavesNoWriter, NothingAfter
<1> QED
  BY <1>1, PitInvariant, PTL

(* The broker volumes are emptied only over a database at its point, or    *)
(* one that brokers started over after it was read.                        *)
THEOREM PitErasesOnlyMatched == Spec => ErasesOnlyMatched
<1>1. PitInv /\ RestorePrimary => woken \/ data[server.at] = "point"
  <2> SUFFICES ASSUME PitInv, RestorePrimary PROVE woken \/ data[server.at] = "point"
    OBVIOUS
  <2>1. phase = "Primary" /\ kept.pin.at \in Places /\ Resolve(TRUE) = "ok"
    BY DEF RestorePrimary, In, Whole, PitInv, PinnedPastPending
  <2> QED
    BY <2>1, WholeIsPinned DEF PitInv, PrimaryMatched
<1>2. PitInv /\ [Next]_vars => [RestorePrimary => woken \/ data[server.at] = "point"]_vars
  BY <1>1
<1> QED
  BY <1>2, PitInvariant, PTL DEF Spec, ErasesOnlyMatched

-----------------------------------------------------------------------------
(* The server.  The invariant has two layers: what the records say of each *)
(* other, which the types rest on too, and what the clusters hold while    *)
(* nobody else destroyed the data.                                         *)

(* A running record names a request that was made, and past the cutover    *)
(* the cluster to go back to.                                              *)
Formed(s, q) ==
  /\ s.rec.req \in q \cup {NoRequest}
  /\ Running(s) => s.rec.req \in q
  /\ IsCutOver(s) => s.rec.prev \in Names

(* An answer Completed that a status does not have yet was overtaken by    *)
(* another request.                                                        *)
Behind(s, c) ==
  c.out.result = "Completed" /\ s.rec.req # c.out.req => c.req \notin {NoRequest, c.out.req}

(* A pass does not go on with what is answered already.                    *)
Unsettled(s, c) == Running(s) => c.out.req # s.rec.req

ConfigFits(c, q) ==
  /\ c.req \in q \cup {NoRequest} /\ c.out.req \in q \cup {NoRequest}
  /\ ~c.there => c = NoContract
  /\ c.out.result = "Completed" => c.out.req \in q

RecordsInv ==
  /\ ConfigFits(config, asked)
  /\ Formed(status, asked) /\ Behind(status, config)
  /\ pc # "idle" => Formed(copy, asked) /\ Behind(copy, config) /\ Unsettled(copy, config)

(* The cluster serves the data b.                                          *)
Good(n, o, b) ==
  o[n].owner = "server" /\ ~o[n].going /\ o[n].state # "failing" /\ o[n].holds = b

(* The status names the cluster with the data, or the way back to it.      *)
Kept(s, o, b) ==
  Good(s.cluster, o, b) \/ (IsCutOver(s) /\ Good(s.rec.prev, o, b))

(* The cluster of a running recovery holds the point of the request.       *)
Right(s, o, i) ==
  LET n == s.rec.cluster IN
  Running(s) /\ n # NoName /\ o[n].owner = "server" /\ ~o[n].going =>
    o[n].holds = s.rec.req \/ s.rec.req \in i

(* A recorded answer Completed is true.                                    *)
Told(s, b, i) ==
  ~Running(s) /\ s.rec.result = "Completed" => b = s.rec.req \/ s.rec.req \in i

Sound(s, o, b, i) == Kept(s, o, b) /\ Right(s, o, i) /\ Told(s, b, i)

(* An answer that is only on the contract fits the running record.         *)
AnswerFits(s, c, o, b) ==
  Running(s) /\ c.out.req = s.rec.req =>
    /\ c.out.result = "Completed" =>
         IsCutOver(s) /\ Good(s.cluster, o, b) /\ c.host = s.cluster
    /\ IsCutOver(s) => c.out.result # "Unavailable"
    /\ IsCutOver(s) /\ c.out.result = "Failed" => Good(s.rec.prev, o, b)

(* The pass that published it, or read it, stays on its cluster.           *)
SameCluster(s, m, c) ==
  Running(s) /\ c.out.req = s.rec.req /\ c.out.result = "Completed" => m.cluster = s.cluster

ClustersInv ==
  /\ Sound(status, object, base, inherited)
  /\ AnswerFits(status, config, object, base)
  /\ pc # "idle" => Sound(copy, object, base, inherited) /\ SameCluster(status, copy, config)

ServerInv == ServerTypeOK /\ RecordsInv /\ (~spoiled => ClustersInv) /\ CompletedHoldsThePoint

-----------------------------------------------------------------------------
(* What the code derives from a status, and what it makes of one.          *)

(* The name of the next cluster is not the one of the server.              *)
LEMMA NextNameIsFree ==
  ASSUME NEW s \in ServerStatus
  PROVE  RecoveryClusterName(s) \in Names /\ RecoveryClusterName(s) # s.cluster
BY ServerRecoveryConstants DEF ServerStatus, RecoveryClusterName, Names

LEMMA NoNameIsNoName == NoName \notin Names
BY ServerRecoveryConstants DEF NoName, Names

LEMMA ClosedArchive ==
  ASSUME NEW s \in ServerStatus, NEW n
  PROVE  CloseArchive(s, n) \in ServerStatus /\ CloseArchive(s, n).rec = s.rec
         /\ CloseArchive(s, n).cluster = s.cluster
BY DEF CloseArchive, ServerStatus

(* The record of an answer: the running one, done, or a new one.           *)
Answering(m, r, result) ==
  [m EXCEPT !.rec = IF m.rec.req = r THEN AnsweredAs(m, result)
                    ELSE [NoRecord EXCEPT !.req = r, !.result = result]]

LEMMA AnswerIsRecorded ==
  ASSUME NEW m \in ServerStatus, NEW r \in Requests, NEW result \in Results,
         NEW a, a = Answering(m, r, result)
  PROVE  /\ a \in ServerStatus /\ a.cluster = m.cluster
         /\ ~Running(a) /\ a.rec.req = r /\ a.rec.result = result
<1> DEFINE k == IF m.rec.req = r THEN AnsweredAs(m, result)
                ELSE [NoRecord EXCEPT !.req = r, !.result = result]
<1>1. m.rec \in Record
  BY DEF ServerStatus
<1>2. k \in Record /\ k.done = TRUE /\ k.req = r /\ k.result = result
  <2>1. CASE m.rec.req = r
    BY <2>1, <1>1 DEF AnsweredAs, Record
  <2>2. CASE m.rec.req # r
    BY <2>2 DEF NoRecord, Record
  <2> QED BY <2>1, <2>2
<1>3. a = [m EXCEPT !.rec = k]
  BY DEF Answering
<1> HIDE DEF k
<1>4. a \in ServerStatus /\ a.rec = k /\ a.cluster = m.cluster
  BY <1>2, <1>3 DEF ServerStatus
<1>5. ~Running(a)
  BY <1>2, <1>4 DEF Running
<1> QED BY <1>2, <1>4, <1>5

(* A status whose record is answered needs its cluster only.               *)
LEMMA AnsweredIsSound ==
  ASSUME NEW a, NEW o, NEW b, NEW i, ~Running(a), Good(a.cluster, o, b),
         a.rec.result = "Completed" => b = a.rec.req \/ a.rec.req \in i
  PROVE  Sound(a, o, b, i)
BY DEF Sound, Kept, Right, Told, Running, IsCutOver

LEMMA AnsweredIsFormed ==
  ASSUME NEW a, NEW q, NEW c, ~Running(a), a.rec.req \in q
  PROVE  /\ Formed(a, q) /\ Unsettled(a, c)
         /\ c.out.result # "Completed" \/ c.out.req = a.rec.req => Behind(a, c)
BY DEF Formed, Unsettled, Behind, Running, IsCutOver

(* What stands of a cluster with the data, and of what it holds.           *)
Standing(n, o) == o[n].owner = "server" /\ ~o[n].going

(* Nothing that stands now did not stand before, holding the same.         *)
Shrinks(o, p) ==
  \A n \in Names : Standing(n, p) => Standing(n, o) /\ p[n].holds = o[n].holds

Spared(n, o, p, b) == Good(n, o, b) => Good(n, p, b)

(* A status stays sound while the clusters that it needs are spared.       *)
LEMMA SoundStays ==
  ASSUME NEW s \in ServerStatus, NEW o, NEW p, NEW b, NEW i, NEW j, Sound(s, o, b, i),
         Spared(s.cluster, o, p, b), IsCutOver(s) => Spared(s.rec.prev, o, p, b),
         Shrinks(o, p), i \subseteq j
  PROVE  Sound(s, p, b, j)
<1>1. s.rec.cluster \in Names \cup {NoName}
  BY DEF ServerStatus, Record
<1>2. Kept(s, p, b)
  BY DEF Sound, Kept, Spared
<1>3. Right(s, p, j)
  BY <1>1 DEF Sound, Right, Shrinks, Standing
<1>4. Told(s, b, j)
  BY DEF Sound, Told
<1> QED BY <1>2, <1>3, <1>4 DEF Sound

LEMMA AnswerStays ==
  ASSUME NEW s, NEW o, NEW p, NEW b, NEW c, NEW d, AnswerFits(s, c, o, b),
         d.out = c.out, d.host = c.host \/ d.host = s.cluster,
         Spared(s.cluster, o, p, b), IsCutOver(s) => Spared(s.rec.prev, o, p, b)
  PROVE  AnswerFits(s, d, p, b)
BY DEF AnswerFits, Spared

-----------------------------------------------------------------------------
(* A pass of the recovery.                                                 *)

(* The pass goes on with m as its copy, or ended with the operator.        *)
Entered(m) ==
  \/ pc' \in {"components", "flush"} /\ copy' = m
  \/ pc' = "idle" /\ copy' = copy

LEMMA PassEnters ==
  ASSUME NEW m
  PROVE  (Continue(m) => Entered(m)) /\ (Stop(m) => Entered(m)) /\ (Halt => Entered(m))
BY DEF Continue, Stop, Halt, Entered

LEMMA FaultIsCounted ==
  ASSUME ServerTypeOK, Fault \/ UNCHANGED faults
  PROVE  faults' \in 0..MaxFaults
BY ServerRecoveryConstants DEF ServerTypeOK, Fault

(* What a look removes is not the cluster of its copy.                     *)
LEMMA CleanUpSpares ==
  ASSUME ServerTypeOK, NEW m \in ServerStatus, CleanUp(m)
  PROVE  /\ Entered(m) /\ faults' \in 0..MaxFaults /\ object' \in [Names -> Object]
         /\ Shrinks(object, object') /\ object'[m.cluster] = object[m.cluster]
<1>1. PICK gone \in SUBSET Superseded(m) :
        /\ object' = [n \in Names |-> IF n \in gone THEN [object[n] EXCEPT !.going = TRUE]
                                                    ELSE object[n]]
        /\ IF gone = Superseded(m) THEN Continue(m) /\ UNCHANGED faults ELSE (Stop(m) \/ Halt) /\ Fault
  BY DEF CleanUp
<1>2. Entered(m) /\ (Fault \/ UNCHANGED faults)
  BY <1>1, PassEnters
<1>3. m.cluster \in Names /\ m.cluster \notin gone
  BY <1>1 DEF ServerStatus, Superseded
<1>4. \A n \in Names : [object[n] EXCEPT !.going = TRUE] \in Object
  BY DEF ServerTypeOK, Object
<1>5. object' \in [Names -> Object]
  BY <1>1, <1>4 DEF ServerTypeOK
<1>6. ASSUME NEW n \in Names, Standing(n, object')
      PROVE  Standing(n, object) /\ object'[n].holds = object[n].holds
  <2>1. object[n] \in Object
    BY DEF ServerTypeOK
  <2>2. n \notin gone
    BY <1>1, <1>6, <2>1 DEF Standing, Object
  <2> QED BY <1>1, <1>6, <2>2 DEF Standing
<1>7. object'[m.cluster] = object[m.cluster]
  BY <1>1, <1>3
<1> QED BY <1>2, <1>5, <1>6, <1>7, FaultIsCounted DEF Shrinks

(* What a look leaves alone, and what it finds.                            *)
LEMMA LookFinds ==
  ASSUME ServerInv, NEW r \in Requests, Look(r)
  PROVE  /\ pc = "idle" /\ config.there /\ r \in asked /\ r # NoRequest
         /\ Running(status) => status.rec.req = r
         /\ ~Running(status) => config.req = r
         /\ stale' = FALSE /\ UNCHANGED <<suspended, asked, spoiled, serverActs>>
<1>1. r # NoRequest /\ PendingRequest(status) = r /\ config.there /\ pc = "idle"
      /\ stale' = FALSE /\ UNCHANGED <<suspended, asked, spoiled, serverActs>>
  BY DEF Look
<1>2. (Running(status) => status.rec.req = r) /\ (~Running(status) => config.req = r)
  BY <1>1 DEF PendingRequest
<1>3. r \in asked
  BY <1>1, <1>2 DEF ServerInv, RecordsInv, Formed, ConfigFits
<1> QED BY <1>1, <1>2, <1>3

(* The form of every step of the recovery.                                 *)
LEMMA RecoverKeeps ==
  ASSUME ServerInv, NEW m \in ServerStatus, Entered(m), status' \in {status, m},
         stale' = FALSE, UNCHANGED <<suspended, asked, spoiled, serverActs>>,
         faults' \in 0..MaxFaults, config' \in Contract, object' \in [Names -> Object],
         base' \in Points, inherited' \subseteq Requests,
         ConfigFits(config', asked), Behind(status', config'),
         Formed(m, asked), Behind(m, config'), Unsettled(m, config'),
         ~spoiled => /\ Sound(status', object', base', inherited')
                     /\ Sound(m, object', base', inherited')
                     /\ AnswerFits(status', config', object', base')
                     /\ SameCluster(status', m, config')
                     /\ CompletedHoldsThePoint'
  PROVE  ServerInv'
<1>1. ServerTypeOK'
  BY DEF ServerInv, ServerTypeOK, Entered
<1>2. RecordsInv'
  BY DEF ServerInv, RecordsInv, Entered
<1>3. (~spoiled => ClustersInv)'
  BY DEF ClustersInv, Entered
<1>4. CompletedHoldsThePoint'
  BY DEF CompletedHoldsThePoint
<1> QED BY <1>1, <1>2, <1>3, <1>4 DEF ServerInv

(* The pass goes on and changed nothing but its copy.                      *)
LEMMA RecoverGoesOn ==
  ASSUME ServerInv, NEW m \in ServerStatus, Entered(m),
         stale' = FALSE, UNCHANGED <<suspended, asked, spoiled, serverActs>>,
         UNCHANGED <<status, config, object, base, inherited>>, faults' \in 0..MaxFaults,
         Formed(m, asked), Behind(m, config), Unsettled(m, config),
         ~spoiled => Sound(m, object, base, inherited) /\ SameCluster(status, m, config)
  PROVE  ServerInv'
<1>1. /\ config' = config /\ object' = object /\ base' = base /\ inherited' = inherited
      /\ status' = status
  OBVIOUS
<1>2. /\ config \in Contract /\ object \in [Names -> Object] /\ base \in Points
      /\ inherited \subseteq Requests
  BY DEF ServerInv, ServerTypeOK
<1>3. ConfigFits(config, asked) /\ Behind(status, config)
  BY DEF ServerInv, RecordsInv
<1>4. ~spoiled => Sound(status, object, base, inherited) /\ AnswerFits(status, config, object, base)
  BY DEF ServerInv, ClustersInv
<1>5. CompletedHoldsThePoint'
  BY <1>1 DEF ServerInv, CompletedHoldsThePoint
<1> QED BY <1>1, <1>2, <1>3, <1>4, <1>5, RecoverKeeps

LEMMA UnansweredFinds ==
  ASSUME ServerInv, NEW r \in Requests, Unanswered(r)
  PROVE  /\ config.out.req # r /\ (Running(status) <=> status.rec.req = r)
         /\ Formed(status, asked) /\ Behind(status, config) /\ Unsettled(status, config)
         /\ \A m : SameCluster(status, m, config)
<1>1. Look(r) /\ ~RecoveryAnswered(status, r) /\ config.out.req # r
  BY DEF Unanswered, Published
<1>2. Running(status) <=> status.rec.req = r
  BY <1>1, LookFinds DEF RecoveryAnswered, Running
<1> QED BY <1>1, <1>2 DEF ServerInv, RecordsInv, Unsettled, SameCluster

LEMMA StatusTypes ==
  ASSUME ServerInv
  PROVE  /\ status \in ServerStatus /\ copy \in ServerStatus /\ config \in Contract
         /\ object \in [Names -> Object] /\ base \in Points /\ inherited \subseteq Requests
         /\ faults \in 0..MaxFaults /\ status.cluster \in Names /\ status.rec \in Record
         /\ status.rec.cluster \in Names \cup {NoName}
BY DEF ServerInv, ServerTypeOK, ServerStatus, Record

(* A pass that only looks.                                                 *)
LEMMA RecoverWaits ==
  ASSUME ServerInv, NEW r \in Requests, Unanswered(r), Entered(status),
         UNCHANGED <<status, config, object, base, inherited>>, faults' \in 0..MaxFaults
  PROVE  ServerInv'
<1>1. Look(r)
  BY DEF Unanswered
<1>2. /\ stale' = FALSE /\ UNCHANGED <<suspended, asked, spoiled, serverActs>>
  BY <1>1, LookFinds
<1>3. ~spoiled => Sound(status, object, base, inherited)
  BY DEF ServerInv, ClustersInv
<1>4. /\ Formed(status, asked) /\ Behind(status, config) /\ Unsettled(status, config)
      /\ SameCluster(status, status, config)
  BY UnansweredFinds
<1> QED BY <1>2, <1>3, <1>4, RecoverGoesOn, StatusTypes

LEMMA NothingAskedStep == ASSUME ServerInv, NothingAsked PROVE ServerInv'
<1>1. /\ stale' = FALSE /\ UNCHANGED <<suspended, asked, spoiled, serverActs>>
      /\ UNCHANGED <<status, config, object, base, inherited>> /\ UNCHANGED faults
      /\ Entered(status) /\ (~config.there \/ PendingRequest(status) = NoRequest)
  BY PassEnters DEF NothingAsked
<1>2. Formed(status, asked) /\ Behind(status, config) /\ ConfigFits(config, asked)
      /\ (Running(status) => status.rec.req \in Requests)
  BY DEF ServerInv, RecordsInv, Formed, ServerTypeOK
<1>3. Running(status) => config.out.req = NoRequest
  BY <1>1, <1>2, ServerRecoveryConstants DEF PendingRequest, ConfigFits, NoContract, NoOutcome
<1>4. Unsettled(status, config) /\ SameCluster(status, status, config)
  BY <1>2, <1>3, ServerRecoveryConstants DEF Unsettled, SameCluster
<1>5. ~spoiled => Sound(status, object, base, inherited)
  BY DEF ServerInv, ClustersInv
<1> QED BY <1>1, <1>2, <1>4, <1>5, RecoverGoesOn, StatusTypes

(* Every cluster but a failing one can be where the data is.               *)
LEMMA SoundAfterCleanUp ==
  ASSUME NEW s \in ServerStatus, NEW o, NEW p, NEW b, NEW i, Sound(s, o, b, i), Shrinks(o, p),
         \/ p[s.cluster] = o[s.cluster] /\ ~IsCutOver(s)
         \/ p[s.cluster] = o[s.cluster] /\ Good(s.cluster, o, b)
         \/ IsCutOver(s) /\ p[s.rec.prev] = o[s.rec.prev] /\ Good(s.rec.prev, o, b)
  PROVE  Sound(s, p, b, i)
<1>1. Kept(s, p, b)
  BY DEF Sound, Kept, Good
<1>2. s.rec.cluster \in Names \cup {NoName}
  BY DEF ServerStatus, Record
<1>3. Right(s, p, i)
  BY <1>2 DEF Sound, Right, Shrinks, Standing
<1> QED BY <1>1, <1>3 DEF Sound

LEMMA ReadRecordedAnswerStep ==
  ASSUME ServerInv, NEW r \in Requests, ReadRecordedAnswer(r), UNCHANGED inherited
  PROVE  ServerInv'
<1>1. /\ Look(r) /\ RecoveryAnswered(status, r) /\ CleanUp(status) /\ status' = status /\ base' = base
      /\ config' = IF Published(r) THEN config
                   ELSE [config EXCEPT !.out = [req |-> r, result |-> status.rec.result],
                                       !.probed = FALSE]
  BY DEF ReadRecordedAnswer
<1>2. status.rec.req = r /\ status.rec.done /\ ~Running(status)
  BY <1>1 DEF RecoveryAnswered, Running
<1>3. /\ Entered(status) /\ faults' \in 0..MaxFaults /\ object' \in [Names -> Object]
      /\ Shrinks(object, object') /\ object'[status.cluster] = object[status.cluster]
  BY <1>1, CleanUpSpares, StatusTypes DEF ServerInv
<1>4. /\ config' \in Contract /\ config'.there = config.there /\ config'.req = config.req
      /\ config'.out.req = r
      /\ config'.out.result = config.out.result \/ config'.out.result = status.rec.result
      /\ config'.out = config.out \/ config'.out.result = status.rec.result
  BY <1>1, StatusTypes DEF Published, Contract, Outcome, Record
<1>5. config.there /\ r \in asked /\ stale' = FALSE /\ UNCHANGED <<suspended, asked, spoiled, serverActs>>
  BY <1>1, LookFinds
<1>6. ConfigFits(config', asked)
  BY <1>4, <1>5 DEF ServerInv, RecordsInv, ConfigFits
<1>7. Formed(status, asked) /\ Behind(status, config') /\ Unsettled(status, config')
      /\ SameCluster(status, status, config')
  BY <1>2, <1>4 DEF ServerInv, RecordsInv, Behind, Unsettled, SameCluster
<1>8. ASSUME ~spoiled
      PROVE  /\ Sound(status, object', base, inherited)
             /\ AnswerFits(status, config', object', base)
             /\ CompletedHoldsThePoint'
  <2>1. Sound(status, object, base, inherited)
    BY <1>8 DEF ServerInv, ClustersInv
  <2>2. Sound(status, object', base, inherited)
    BY <2>1, <1>2, <1>3, SoundAfterCleanUp, StatusTypes DEF IsCutOver
  <2>3. AnswerFits(status, config', object', base)
    BY <1>2 DEF AnswerFits
  <2>4. CompletedHoldsThePoint'
    BY <2>1, <1>1, <1>2, <1>4, <1>5, <1>8 DEF ServerInv, CompletedHoldsThePoint, Sound, Told
  <2> QED BY <2>2, <2>3, <2>4
<1> QED BY <1>1, <1>3, <1>4, <1>5, <1>6, <1>7, <1>8, RecoverKeeps, StatusTypes

(* What a pass records of an answer that it finds on the contract.         *)
LEMMA PublishedIsRecorded ==
  ASSUME NEW s \in ServerStatus, NEW r \in Requests, config \in Contract
  PROVE  LET m    == RecordPublished(s, r)
             back == s.rec.req = r /\ s.rec.cluster = s.cluster /\ s.rec.prev # NoName
         IN /\ m \in ServerStatus /\ m.rec.done = TRUE /\ m.rec.req = r
            /\ m.rec.result = config.out.result
            /\ config.out.result = "Completed" => m.cluster \in {s.cluster, config.host}
            /\ config.out.result = "Failed" /\ back => m.cluster = s.rec.prev
            /\ config.out.result = "Unavailable" \/ (config.out.result = "Failed" /\ ~back) =>
                 m.cluster = s.cluster
<1> DEFINE result == config.out.result
           rec == IF s.rec.req = r THEN AnsweredAs(s, result)
                  ELSE [NoRecord EXCEPT !.req = r, !.result = result]
           a == [s EXCEPT !.rec = rec]
           d == CloseArchive(a, rec.prev)
           back == s.rec.req = r /\ s.rec.cluster = s.cluster /\ s.rec.prev # NoName
           m == RecordPublished(s, r)
<1>1. result \in Results /\ config.host \in Names /\ s.rec \in Record /\ s.cluster \in Names
  BY DEF Contract, Outcome, ServerStatus
<1>2. rec \in Record /\ rec.done = TRUE /\ rec.req = r /\ rec.result = result
      /\ (s.rec.req = r => rec.prev = s.rec.prev)
  <2>1. CASE s.rec.req = r
    BY <2>1, <1>1 DEF AnsweredAs, Record
  <2>2. CASE s.rec.req # r
    BY <2>2, <1>1 DEF NoRecord, Record
  <2> QED BY <2>1, <2>2
<1>0. m = RecordPublished(s, r) /\ (back <=> s.rec.req = r /\ s.rec.cluster = s.cluster /\ s.rec.prev # NoName)
  OBVIOUS
<1>3. m = CASE result = "Completed" ->
                 (IF config.host # s.cluster /\ Owned(config.host)
                  THEN [d EXCEPT !.cluster = config.host, !.rec.cluster = config.host] ELSE d)
            [] result = "Failed" /\ back ->
                 [s EXCEPT !.cluster = s.rec.prev, !.rec = [rec EXCEPT !.cluster = NoName]]
            [] OTHER -> a
  BY DEF RecordPublished
<1> HIDE DEF rec, m
<1>4. a \in ServerStatus /\ a.rec = rec /\ a.cluster = s.cluster
  BY <1>2 DEF ServerStatus
<1> HIDE DEF a
<1>5. d \in ServerStatus /\ d.rec = rec /\ d.cluster = s.cluster
  BY <1>4, ClosedArchive
<1> HIDE DEF d
<1>6. CASE result = "Completed"
  <2>1. CASE config.host # s.cluster /\ Owned(config.host)
    <3> DEFINE k == [rec EXCEPT !.cluster = config.host]
    <3>1. k \in Record /\ k.done = TRUE /\ k.req = r /\ k.result = result
      BY <1>1, <1>2 DEF Record
    <3>2. m = [d EXCEPT !.cluster = config.host, !.rec = k]
      BY <2>1, <1>3, <1>5, <1>6 DEF ServerStatus
    <3> HIDE DEF k
    <3>3. m \in ServerStatus /\ m.rec = k /\ m.cluster = config.host
      BY <3>1, <3>2, <1>5, <1>1 DEF ServerStatus
    <3> QED BY <3>1, <3>3, <1>6, <1>0
  <2>2. CASE ~(config.host # s.cluster /\ Owned(config.host))
    <3>1. m = d
      BY <2>2, <1>3, <1>6
    <3> QED BY <3>1, <1>5, <1>2, <1>6, <1>0
  <2> QED BY <2>1, <2>2
<1>7. CASE result = "Failed" /\ back
  <2> DEFINE k == [rec EXCEPT !.cluster = NoName]
  <2>1. k \in Record /\ k.done = TRUE /\ k.req = r /\ k.result = result /\ s.rec.prev \in Names
    BY <1>1, <1>2, <1>7 DEF Record
  <2>2. m = [s EXCEPT !.cluster = s.rec.prev, !.rec = k]
    BY <1>3, <1>7
  <2> HIDE DEF k
  <2>3. m \in ServerStatus /\ m.rec = k /\ m.cluster = s.rec.prev
    BY <2>1, <2>2 DEF ServerStatus
  <2> QED BY <2>1, <2>3, <1>7, <1>0
<1>8. CASE result # "Completed" /\ ~(result = "Failed" /\ back)
  <2>1. m = a
    BY <1>3, <1>8
  <2> QED BY <2>1, <1>2, <1>4, <1>8, <1>0
<1> QED BY <1>6, <1>7, <1>8

LEMMA ReadPublishedAnswerStep ==
  ASSUME ServerInv, NEW r \in Requests, ReadPublishedAnswer(r), UNCHANGED inherited
  PROVE  ServerInv'
<1> DEFINE m == RecordPublished(status, r)
<1>1. /\ Look(r) /\ ~RecoveryAnswered(status, r) /\ config.out.req = r /\ CleanUp(m)
      /\ UNCHANGED <<status, config, base>>
  BY DEF ReadPublishedAnswer, Published
<1>2. /\ config.there /\ r \in asked /\ r # NoRequest /\ stale' = FALSE
      /\ UNCHANGED <<suspended, asked, spoiled, serverActs>>
      /\ Running(status) => status.rec.req = r
      /\ ~Running(status) => config.req = r
  BY <1>1, LookFinds
<1>t. /\ status \in ServerStatus /\ config \in Contract /\ status.cluster \in Names
      /\ status.rec \in Record
  BY StatusTypes
<1>3. /\ m \in ServerStatus /\ m.rec.done = TRUE /\ m.rec.req = r
      /\ m.rec.result = config.out.result
      /\ config.out.result = "Completed" => m.cluster \in {status.cluster, config.host}
      /\ config.out.result = "Failed" /\ status.rec.req = r /\ status.rec.cluster = status.cluster
           /\ status.rec.prev # NoName => m.cluster = status.rec.prev
      /\ config.out.result = "Unavailable" \/ (config.out.result = "Failed"
           /\ ~(status.rec.req = r /\ status.rec.cluster = status.cluster /\ status.rec.prev # NoName))
             => m.cluster = status.cluster
  BY <1>t, PublishedIsRecorded
<1> HIDE DEF m
<1>4. /\ Entered(m) /\ faults' \in 0..MaxFaults /\ object' \in [Names -> Object]
      /\ Shrinks(object, object') /\ object'[m.cluster] = object[m.cluster]
  BY <1>1, <1>3, CleanUpSpares DEF ServerInv
<1>n. ~Running(m)
  BY <1>3 DEF Running
<1>5. Formed(m, asked) /\ Unsettled(m, config) /\ Behind(m, config)
  BY <1>1, <1>2, <1>3, <1>n, AnsweredIsFormed
<1>6. Formed(status, asked) /\ Behind(status, config) /\ ConfigFits(config, asked)
  BY DEF ServerInv, RecordsInv
<1>7. Running(status) <=> status.rec.req = r
  BY <1>1, <1>2 DEF RecoveryAnswered, Running
<1>8. config.out.result = "Completed" => Running(status)
  BY <1>1, <1>2, <1>6, <1>7 DEF Behind
<1>9. config.out.result \in {"Completed", "Failed", "Unavailable"}
  BY <1>t DEF Contract, Outcome, Results
<1>10. ASSUME ~spoiled
       PROVE  /\ Sound(status, object', base, inherited)
              /\ Sound(m, object', base, inherited)
              /\ AnswerFits(status, config, object', base)
              /\ SameCluster(status, m, config)
              /\ CompletedHoldsThePoint'
  <2>1. /\ Sound(status, object, base, inherited) /\ AnswerFits(status, config, object, base)
    BY <1>10 DEF ServerInv, ClustersInv
  <2>2. Good(m.cluster, object, base) /\ (IsCutOver(status) => m.cluster \in {status.cluster, status.rec.prev})
        /\ (~IsCutOver(status) => m.cluster = status.cluster)
        /\ SameCluster(status, m, config)
    <3>1. CASE config.out.result = "Completed"
      BY <3>1, <1>1, <1>3, <1>7, <1>8, <2>1 DEF AnswerFits, SameCluster
    <3>2. CASE config.out.result # "Completed" /\ IsCutOver(status)
      <4>1. Running(status) /\ status.rec.req = r /\ status.rec.cluster = status.cluster
        BY <3>2, <1>7 DEF IsCutOver
      <4>2. status.rec.prev # NoName
        BY <3>2, <1>6, NoNameIsNoName DEF Formed
      <4>3. config.out.result = "Failed" /\ Good(status.rec.prev, object, base)
        BY <3>2, <4>1, <1>1, <1>9, <2>1 DEF AnswerFits
      <4> QED BY <3>2, <4>1, <4>2, <4>3, <1>3 DEF SameCluster
    <3>3. CASE config.out.result # "Completed" /\ ~IsCutOver(status)
      <4>1. ~(status.rec.req = r /\ status.rec.cluster = status.cluster)
        BY <3>3, <1>7 DEF IsCutOver
      <4>2. m.cluster = status.cluster
        BY <3>3, <4>1, <1>3, <1>9
      <4> QED BY <3>3, <4>2, <2>1 DEF Sound, Kept, SameCluster
    <3> QED BY <3>1, <3>2, <3>3
  <2>3. Good(m.cluster, object', base)
    BY <2>2, <1>4 DEF Good
  <2>4. Sound(status, object', base, inherited)
    BY <2>1, <2>2, <1>4, <1>t, SoundAfterCleanUp
  <2>5. CompletedHoldsThePoint'
    BY <1>1, <1>2, <1>10 DEF ServerInv, CompletedHoldsThePoint
  <2>6. Sound(m, object', base, inherited)
    BY <2>3, <1>1, <1>3, <1>n, <1>10, AnsweredIsSound DEF ServerInv, CompletedHoldsThePoint
  <2>7. AnswerFits(status, config, object', base)
    <3>1. CASE config.out.result = "Completed"
      <4>1. m.cluster = status.cluster
        BY <2>2, <3>1, <1>1, <1>7, <1>8 DEF SameCluster
      <4> QED BY <4>1, <2>1, <2>3, <3>1 DEF AnswerFits
    <3>2. CASE config.out.result # "Completed" /\ IsCutOver(status)
      <4>1. Running(status) /\ status.rec.req = r /\ status.rec.cluster = status.cluster
        BY <3>2, <1>7 DEF IsCutOver
      <4>2. status.rec.prev # NoName
        BY <3>2, <1>6, NoNameIsNoName DEF Formed
      <4>3. config.out.result = "Failed" => m.cluster = status.rec.prev
        BY <4>1, <4>2, <1>3
      <4> QED BY <4>3, <2>1, <2>3, <3>2 DEF AnswerFits
    <3>3. CASE config.out.result # "Completed" /\ ~IsCutOver(status)
      BY <3>3 DEF AnswerFits
    <3> QED BY <3>1, <3>2, <3>3
  <2> QED BY <2>2, <2>4, <2>5, <2>6, <2>7
<1>11. base' = base /\ config' = config /\ status' = status /\ inherited' = inherited
       /\ base \in Points /\ inherited \subseteq Requests
  BY <1>1, StatusTypes
<1> QED BY <1>2, <1>t, <1>3, <1>4, <1>5, <1>6, <1>10, <1>11, RecoverKeeps

(* An answer on the contract, with what it says of the base.               *)
LEMMA PublishedFitsConfig ==
  ASSUME ServerInv, NEW r \in Requests, r \in asked, config.there, NEW result \in Results,
         Publish(r, result)
  PROVE  /\ config' \in Contract /\ ConfigFits(config', asked)
         /\ config'.out.req = r /\ config'.out.result = result
         /\ config'.host = config.host /\ config'.req = config.req
         /\ result # "Completed" => base' = base
         /\ result = "Completed" => base' = object[config.host].holds
<1>1. /\ config' \in Contract /\ config'.there = config.there /\ config'.req = config.req
      /\ config'.out.req = r /\ config'.out.result = result /\ config'.host = config.host
  BY StatusTypes DEF Publish, Contract, Outcome
<1>2. ConfigFits(config', asked)
  BY <1>1 DEF ServerInv, RecordsInv, ConfigFits
<1> QED BY <1>1, <1>2 DEF Publish

(* A refusal, published or not.                                            *)
LEMMA RefusalKeeps ==
  ASSUME ServerInv, NEW r \in Requests, Unanswered(r), ~IsCutOver(status),
         NEW m \in ServerStatus, NEW result \in Results, result # "Completed",
         AnswerRecovery(m, r, result), UNCHANGED <<status, object, inherited>>,
         m.cluster = status.cluster, ~IsCutOver(m), m.rec.req = status.rec.req,
         Running(m) <=> Running(status),
         ~spoiled => Right(m, object, inherited) /\ Told(m, base, inherited)
  PROVE  ServerInv'
<1> DEFINE a == Answering(m, r, result)
<1>1. Look(r)
  BY DEF Unanswered
<1>2. /\ stale' = FALSE /\ UNCHANGED <<suspended, asked, spoiled, serverActs>>
      /\ r \in asked /\ config.there
  BY <1>1, LookFinds
<1>3. /\ Formed(status, asked) /\ Behind(status, config) /\ Unsettled(status, config)
      /\ SameCluster(status, m, config) /\ config.out.req # r
      /\ (Running(status) <=> status.rec.req = r)
  BY UnansweredFinds
<1>4. Formed(m, asked) /\ Behind(m, config) /\ Unsettled(m, config)
  BY <1>3 DEF Formed, Behind, Unsettled
<1>5. ~spoiled => /\ Sound(status, object, base, inherited)
                  /\ AnswerFits(status, config, object, base)
                  /\ Good(m.cluster, object, base)
  BY DEF ServerInv, ClustersInv, Sound, Kept
<1>6. CASE Stop(m) /\ Fault /\ UNCHANGED <<config, base>>
  <2>1. Entered(m) /\ faults' \in 0..MaxFaults
    BY <1>6, PassEnters, FaultIsCounted DEF ServerInv
  <2>2. ~spoiled => Sound(m, object, base, inherited)
    BY <1>5 DEF Sound, Kept
  <2> QED BY <1>2, <1>3, <1>4, <1>6, <2>1, <2>2, RecoverGoesOn
<1>7. CASE Publish(r, result) /\ Continue(a) /\ UNCHANGED faults
  <2>1. /\ config' \in Contract /\ ConfigFits(config', asked)
        /\ config'.out.req = r /\ config'.out.result = result
        /\ base' = base
    BY <1>2, <1>7, PublishedFitsConfig
  <2>2. Entered(a) /\ faults' \in 0..MaxFaults
    BY <1>7, PassEnters, StatusTypes
  <2>3. /\ a \in ServerStatus /\ a.cluster = m.cluster
        /\ ~Running(a) /\ a.rec.req = r /\ a.rec.result = result
    BY AnswerIsRecorded
  <2> HIDE DEF a
  <2>4. Formed(a, asked) /\ Unsettled(a, config') /\ Behind(a, config')
    BY <1>2, <2>1, <2>3, AnsweredIsFormed
  <2>5. Behind(status, config')
    BY <2>1 DEF Behind
  <2>6. ~spoiled => /\ Sound(a, object, base, inherited)
                    /\ AnswerFits(status, config', object, base)
                    /\ SameCluster(status, a, config')
    BY <1>5, <2>1, <2>3, AnsweredIsSound DEF AnswerFits, SameCluster
  <2>7. CompletedHoldsThePoint'
    BY <2>1 DEF CompletedHoldsThePoint
  <2>8. object' = object /\ inherited' = inherited /\ status' = status
    OBVIOUS
  <2> QED BY <1>2, <1>5, <2>1, <2>2, <2>3, <2>4, <2>5, <2>6, <2>7, <2>8, RecoverKeeps, StatusTypes
<1> QED BY <1>6, <1>7 DEF AnswerRecovery, Answering

LEMMA RefuseRecoveryStep ==
  ASSUME ServerInv, NEW r \in Requests, RefuseRecovery(r), UNCHANGED inherited
  PROVE  ServerInv'
<1>1. /\ Unanswered(r) /\ ~IsCutOver(status) /\ UNCHANGED <<status, object>>
      /\ AnswerRecovery(status, r, "Failed") \/ AnswerRecovery(status, r, "Unavailable")
  BY DEF RefuseRecovery
<1>2. ~spoiled => Right(status, object, inherited) /\ Told(status, base, inherited)
  BY DEF ServerInv, ClustersInv, Sound
<1>3. status \in ServerStatus /\ "Failed" \in Results /\ "Unavailable" \in Results
  BY StatusTypes DEF Results
<1>4. CASE AnswerRecovery(status, r, "Failed")
  BY <1>1, <1>2, <1>3, <1>4, RefusalKeeps
<1>5. CASE AnswerRecovery(status, r, "Unavailable")
  BY <1>1, <1>2, <1>3, <1>5, RefusalKeeps
<1> QED BY <1>1, <1>4, <1>5

LEMMA StartStep ==
  ASSUME ServerInv, NEW r \in Requests, Start(r)
  PROVE  ServerInv'
<1> DEFINE n == RecoveryClusterName(status)
           k == [req |-> r, cluster |-> n, prev |-> NoName, done |-> FALSE, result |-> "Failed"]
           m == [status EXCEPT !.rec = k]
<1>1. /\ Unanswered(r) /\ ~IsCutOver(status) /\ status.rec.req # r /\ Continue(m)
      /\ inherited' = IF Owned(n) /\ ~object[n].going THEN inherited \cup {r} ELSE inherited
      /\ UNCHANGED <<status, config, object, base, faults>>
  BY DEF Start
<1>2. Look(r)
  BY <1>1 DEF Unanswered
<1>3. /\ stale' = FALSE /\ UNCHANGED <<suspended, asked, spoiled, serverActs>>
      /\ r \in asked /\ config.there /\ r # NoRequest
      /\ ~Running(status) => config.req = r
  BY <1>2, LookFinds
<1>4. /\ Formed(status, asked) /\ Behind(status, config) /\ config.out.req # r
      /\ SameCluster(status, m, config) /\ (Running(status) <=> status.rec.req = r)
  BY <1>1, UnansweredFinds
<1>5. n \in Names /\ n # status.cluster /\ n # NoName
  BY NextNameIsFree, NoNameIsNoName, StatusTypes
<1>6. m \in ServerStatus /\ m.cluster = status.cluster /\ m.rec.req = r /\ m.rec.cluster = n
      /\ m.rec.done = FALSE
  <2>1. k \in Record /\ k.req = r /\ k.cluster = n /\ k.done = FALSE
    BY <1>5 DEF Record, Results
  <2> HIDE DEF k
  <2> QED BY <2>1, StatusTypes DEF ServerStatus
<1>e. Entered(m)
  BY <1>1, PassEnters
<1> HIDE DEF m, n
<1>7. Formed(m, asked) /\ Behind(m, config) /\ Unsettled(m, config)
  BY <1>1, <1>3, <1>4, <1>5, <1>6 DEF Formed, Behind, Unsettled, Running, IsCutOver
<1>8. /\ inherited' \subseteq Requests /\ inherited \subseteq inherited'
      /\ Owned(n) /\ ~object[n].going => r \in inherited'
  BY <1>1, StatusTypes
<1>9. ASSUME ~spoiled
      PROVE  /\ Sound(status, object, base, inherited')
             /\ Sound(m, object, base, inherited')
             /\ AnswerFits(status, config, object, base)
             /\ CompletedHoldsThePoint'
  <2>1. Sound(status, object, base, inherited) /\ AnswerFits(status, config, object, base)
    BY <1>9 DEF ServerInv, ClustersInv
  <2>2. Shrinks(object, object)
    BY DEF Shrinks
  <2>3. Sound(status, object, base, inherited')
    BY <1>8, <2>1, <2>2, SoundStays, StatusTypes DEF Spared
  <2>4. Kept(m, object, base)
    BY <2>1, <1>1, <1>6 DEF Sound, Kept
  <2>5. Right(m, object, inherited') /\ Told(m, base, inherited')
    BY <1>6, <1>8 DEF Right, Told, Running, Owned
  <2>6. CompletedHoldsThePoint'
    BY <1>1, <1>8, <1>9 DEF ServerInv, CompletedHoldsThePoint
  <2> QED BY <2>1, <2>3, <2>4, <2>5, <2>6 DEF Sound
<1>10. /\ config' = config /\ object' = object /\ base' = base /\ status' = status
       /\ faults' \in 0..MaxFaults /\ ConfigFits(config, asked)
  BY <1>1, StatusTypes DEF ServerInv, RecordsInv
<1> QED BY <1>3, <1>4, <1>6, <1>e, <1>7, <1>8, <1>9, <1>10, RecoverKeeps, StatusTypes

(* A recovery that advances runs under another name than the server.       *)
LEMMA AdvancingFinds ==
  ASSUME ServerInv, NEW r \in Requests, NEW n, Advancing(r, n)
  PROVE  /\ Unanswered(r) /\ ~IsCutOver(status) /\ status.rec.req = r /\ status.rec.cluster = n
         /\ status' = status /\ Running(status) /\ n # status.cluster
<1>1. /\ Unanswered(r) /\ ~IsCutOver(status) /\ status.rec.req = r /\ status.rec.cluster = n
      /\ status' = status
  BY DEF Advancing
<1> QED BY <1>1, UnansweredFinds DEF IsCutOver

LEMMA WaitingSteps ==
  ASSUME ServerInv, NEW r \in Requests, UNCHANGED inherited,
         AdvanceNameless(r) \/ WaitForContract(r) \/ (\E n \in Names : WaitForCluster(r, n))
  PROVE  ServerInv'
<1>1. /\ Unanswered(r) /\ Entered(status)
      /\ UNCHANGED <<status, config, object, base, inherited>> /\ UNCHANGED faults
  BY PassEnters
     DEF AdvanceNameless, WaitForContract, WaitForCluster, Advancing, Completing
<1> QED BY <1>1, RecoverWaits, StatusTypes

LEMMA CreateStep ==
  ASSUME ServerInv, NEW r \in Requests, NEW n \in Names, Create(r, n), UNCHANGED inherited
  PROVE  ServerInv'
<1> DEFINE new == [owner |-> "server", state |-> "building", going |-> FALSE, holds |-> r]
<1>1. /\ Advancing(r, n) /\ object[n].owner = "none" /\ Continue(status)
      /\ object' = [object EXCEPT ![n] = new]
      /\ UNCHANGED <<config, base, faults, inherited>>
  BY DEF Create
<1>2. /\ Unanswered(r) /\ ~IsCutOver(status) /\ status.rec.req = r /\ status.rec.cluster = n
      /\ status' = status /\ Running(status) /\ n # status.cluster
  BY <1>1, AdvancingFinds
<1>3. /\ stale' = FALSE /\ UNCHANGED <<suspended, asked, spoiled, serverActs>>
  BY <1>2, LookFinds DEF Unanswered
<1>4. /\ Formed(status, asked) /\ Behind(status, config) /\ Unsettled(status, config)
      /\ SameCluster(status, status, config)
  BY <1>2, UnansweredFinds
<1>5. new \in Object
  BY DEF Object, Points
<1>6. object' \in [Names -> Object] /\ object'[n] = new /\ object'[status.cluster] = object[status.cluster]
  BY <1>1, <1>2, <1>5, StatusTypes
<1>7. ASSUME ~spoiled
      PROVE  /\ Sound(status, object', base, inherited)
             /\ AnswerFits(status, config, object', base)
  <2>1. Sound(status, object, base, inherited) /\ AnswerFits(status, config, object, base)
    BY <1>7 DEF ServerInv, ClustersInv
  <2>2. Kept(status, object', base)
    BY <2>1, <1>2, <1>6 DEF Sound, Kept, Good
  <2>3. Right(status, object', inherited) /\ Told(status, base, inherited)
    BY <1>2, <1>6, <2>1 DEF Right, Sound
  <2>4. AnswerFits(status, config, object', base)
    BY <2>1, <1>2 DEF AnswerFits
  <2> QED BY <2>2, <2>3, <2>4 DEF Sound
<1>8. /\ config' = config /\ base' = base /\ inherited' = inherited /\ faults' \in 0..MaxFaults
      /\ Entered(status) /\ ConfigFits(config, asked)
  BY <1>1, PassEnters, StatusTypes DEF ServerInv, RecordsInv
<1>9. CompletedHoldsThePoint'
  BY <1>3, <1>8 DEF ServerInv, CompletedHoldsThePoint
<1> QED BY <1>2, <1>3, <1>4, <1>6, <1>7, <1>8, <1>9, RecoverKeeps, StatusTypes

LEMMA RefuseTakenNameStep ==
  ASSUME ServerInv, NEW r \in Requests, NEW n \in Names, RefuseTakenName(r, n), UNCHANGED inherited
  PROVE  ServerInv'
<1> DEFINE k == [status.rec EXCEPT !.cluster = NoName]
           m == [status EXCEPT !.rec = k]
<1>1. /\ Advancing(r, n) /\ UNCHANGED object
      /\ AnswerRecovery([status EXCEPT !.rec.cluster = NoName], r, "Failed")
  BY DEF RefuseTakenName
<1>2. /\ Unanswered(r) /\ ~IsCutOver(status) /\ status' = status
  BY <1>1, AdvancingFinds
<1>3. [status EXCEPT !.rec.cluster = NoName] = m
  BY StatusTypes DEF ServerStatus
<1>4. k \in Record /\ k.cluster = NoName /\ k.done = status.rec.done /\ k.req = status.rec.req
      /\ k.result = status.rec.result
  BY StatusTypes DEF Record
<1> HIDE DEF k
<1>5. m \in ServerStatus /\ m.rec = k /\ m.cluster = status.cluster
  BY <1>4, StatusTypes DEF ServerStatus
<1>6. AnswerRecovery(m, r, "Failed")
  BY <1>1, <1>3
<1> HIDE DEF m
<1>7. ~IsCutOver(m) /\ m.rec.req = status.rec.req /\ (Running(m) <=> Running(status))
  BY <1>4, <1>5, NoNameIsNoName, StatusTypes DEF IsCutOver, Running
<1>8. ~spoiled => Right(m, object, inherited) /\ Told(m, base, inherited)
  BY <1>4, <1>5, <1>7 DEF ServerInv, ClustersInv, Sound, Right, Told
<1>9. "Failed" \in Results
  BY DEF Results
<1> QED BY <1>1, <1>2, <1>5, <1>6, <1>7, <1>8, <1>9, RefusalKeeps

LEMMA RefuseFailingStep ==
  ASSUME ServerInv, NEW r \in Requests, NEW n \in Names, RefuseFailing(r, n), UNCHANGED inherited
  PROVE  ServerInv'
<1>1. Advancing(r, n) /\ AnswerRecovery(status, r, "Failed") /\ UNCHANGED object
  BY DEF RefuseFailing
<1>2. /\ Unanswered(r) /\ ~IsCutOver(status) /\ status' = status
  BY <1>1, AdvancingFinds
<1>3. ~spoiled => Right(status, object, inherited) /\ Told(status, base, inherited)
  BY DEF ServerInv, ClustersInv, Sound
<1>4. "Failed" \in Results
  BY DEF Results
<1> QED BY <1>1, <1>2, <1>3, <1>4, RefusalKeeps, StatusTypes

(* The cutover: the data stays under the name that the record keeps.       *)
LEMMA MoveOverStep ==
  ASSUME ServerInv, NEW r \in Requests, NEW n \in Names, MoveOver(r, n), UNCHANGED inherited
  PROVE  ServerInv'
<1> DEFINE k == [status.rec EXCEPT !.prev = status.cluster]
           m == [status EXCEPT !.rec = k, !.cluster = n]
<1>1. /\ Advancing(r, n) /\ UNCHANGED <<config, object, base, faults, inherited>>
      /\ Continue([status EXCEPT !.rec.prev = status.cluster, !.cluster = n])
  BY DEF MoveOver
<1>2. /\ Unanswered(r) /\ ~IsCutOver(status) /\ status.rec.req = r /\ status.rec.cluster = n
      /\ status' = status /\ Running(status)
  BY <1>1, AdvancingFinds
<1>3. /\ stale' = FALSE /\ UNCHANGED <<suspended, asked, spoiled, serverActs>>
  BY <1>2, LookFinds DEF Unanswered
<1>4. /\ Formed(status, asked) /\ Behind(status, config) /\ Unsettled(status, config)
      /\ SameCluster(status, m, config)
  BY <1>2, UnansweredFinds
<1>5. [status EXCEPT !.rec.prev = status.cluster, !.cluster = n] = m
  BY StatusTypes DEF ServerStatus
<1>6. k \in Record /\ k.prev = status.cluster /\ k.cluster = n /\ k.done = status.rec.done
      /\ k.req = r
  BY <1>2, StatusTypes DEF Record
<1> HIDE DEF k
<1>7. m \in ServerStatus /\ m.rec = k /\ m.cluster = n
  BY <1>6, StatusTypes DEF ServerStatus
<1>8. Entered(m)
  BY <1>1, <1>5, PassEnters
<1> HIDE DEF m
<1>9. Running(m) /\ IsCutOver(m) /\ m.rec.prev = status.cluster /\ m.rec.cluster = n /\ m.rec.req = r
  BY <1>2, <1>6, <1>7 DEF Running, IsCutOver
<1>10. Formed(m, asked) /\ Behind(m, config) /\ Unsettled(m, config)
  BY <1>2, <1>4, <1>9, StatusTypes DEF Formed, Behind, Unsettled
<1>11. ASSUME ~spoiled
       PROVE  Sound(m, object, base, inherited)
  <2>1. Sound(status, object, base, inherited)
    BY <1>11 DEF ServerInv, ClustersInv
  <2>2. Kept(m, object, base)
    BY <2>1, <1>2, <1>9 DEF Sound, Kept
  <2>3. Right(m, object, inherited) /\ Told(m, base, inherited)
    BY <2>1, <1>2, <1>9 DEF Sound, Right, Told
  <2> QED BY <2>2, <2>3 DEF Sound
<1>12. faults' \in 0..MaxFaults /\ UNCHANGED <<status, config, object, base, inherited>>
  BY <1>1, <1>2, StatusTypes
<1> QED BY <1>3, <1>4, <1>7, <1>8, <1>10, <1>11, <1>12, RecoverGoesOn

-----------------------------------------------------------------------------
(* Past the cutover.                                                       *)

LEMMA CompletingFinds ==
  ASSUME ServerInv, NEW r \in Requests, Completing(r)
  PROVE  /\ Unanswered(r) /\ IsCutOver(status) /\ Running(status) /\ status.rec.req = r
         /\ status.rec.cluster = status.cluster /\ status.rec.prev \in Names
         /\ stale' = FALSE /\ UNCHANGED <<suspended, asked, spoiled, serverActs>>
         /\ r \in asked /\ config.there
<1>1. Unanswered(r) /\ IsCutOver(status) /\ Look(r)
  BY DEF Completing, Unanswered
<1>2. Running(status) /\ status.rec.cluster = status.cluster /\ status.rec.prev \in Names
  BY <1>1, UnansweredFinds DEF IsCutOver, Formed
<1> QED BY <1>1, <1>2, UnansweredFinds, LookFinds

(* The way back: the cluster that is lost does not serve, so the data is   *)
(* under the name of the record.                                           *)
LEMMA AbandonStep ==
  ASSUME ServerInv, NEW r \in Requests, Abandon(r), UNCHANGED inherited
  PROVE  ServerInv'
<1> DEFINE k == [status.rec EXCEPT !.cluster = NoName]
           m == [status EXCEPT !.cluster = status.rec.prev, !.rec = k]
           j == AnsweredAs(m, "Failed")
           a == [m EXCEPT !.rec = j]
<1>1. Completing(r) /\ ~Serves(status.cluster) /\ object' = object /\ inherited' = inherited
  BY DEF Abandon
<1>2. /\ Unanswered(r) /\ IsCutOver(status) /\ Running(status) /\ status.rec.req = r
      /\ status.rec.cluster = status.cluster /\ status.rec.prev \in Names
      /\ stale' = FALSE /\ UNCHANGED <<suspended, asked, spoiled, serverActs>>
      /\ r \in asked /\ config.there
  BY <1>1, CompletingFinds
<1>3. /\ Formed(status, asked) /\ Behind(status, config) /\ config.out.req # r
      /\ SameCluster(status, m, config)
  BY <1>2, UnansweredFinds
<1>4. [status EXCEPT !.cluster = status.rec.prev, !.rec.cluster = NoName] = m
  BY StatusTypes DEF ServerStatus
<1>5. \/ /\ Publish(r, "Failed")
         /\ \/ Continue(a) /\ status' = a /\ UNCHANGED faults
            \/ (Stop(a) \/ Halt) /\ Fault /\ UNCHANGED status
      \/ Stop(m) /\ Fault /\ UNCHANGED <<status, config, base>>
  BY <1>4 DEF Abandon
<1>6. k \in Record /\ k.cluster = NoName /\ k.done = status.rec.done /\ k.req = r
  BY <1>2, StatusTypes DEF Record
<1> HIDE DEF k
<1>7. m \in ServerStatus /\ m.rec = k /\ m.cluster = status.rec.prev
  BY <1>2, <1>6, StatusTypes DEF ServerStatus
<1> HIDE DEF m
<1>8. j \in Record /\ j.done = TRUE /\ j.req = r /\ j.result = "Failed"
  BY <1>6, <1>7 DEF AnsweredAs, Record, Results
<1> HIDE DEF j
<1>9. a \in ServerStatus /\ a.rec = j /\ a.cluster = status.rec.prev
  BY <1>7, <1>8 DEF ServerStatus
<1> HIDE DEF a
<1>n. ~Running(a)
  BY <1>8, <1>9 DEF Running
<1>10. ~spoiled => /\ Sound(status, object, base, inherited)
                   /\ AnswerFits(status, config, object, base)
                   /\ Good(status.rec.prev, object, base)
  <2>1. ~Good(status.cluster, object, base)
    BY <1>1 DEF Serves, Good, Owned
  <2> QED BY <2>1 DEF ServerInv, ClustersInv, Sound, Kept
<1>11. CASE Stop(m) /\ Fault /\ UNCHANGED <<status, config, base>>
  <2>1. Entered(m) /\ faults' \in 0..MaxFaults
    BY <1>11, PassEnters, FaultIsCounted DEF ServerInv
  <2>2. Running(m) /\ ~IsCutOver(m)
    BY <1>2, <1>6, <1>7, NoNameIsNoName DEF Running, IsCutOver
  <2>3. Formed(m, asked) /\ Behind(m, config) /\ Unsettled(m, config)
    BY <1>2, <1>3, <1>6, <1>7, <2>2 DEF Formed, Behind, Unsettled
  <2>4. ~spoiled => Sound(m, object, base, inherited)
    BY <1>6, <1>7, <1>10, <2>2 DEF Sound, Kept, Right, Told
  <2> QED BY <1>1, <1>2, <1>3, <1>7, <1>11, <2>1, <2>3, <2>4, RecoverGoesOn
<1>12. CASE /\ Publish(r, "Failed")
            /\ \/ Continue(a) /\ status' = a /\ UNCHANGED faults
               \/ (Stop(a) \/ Halt) /\ Fault /\ UNCHANGED status
  <2>1. Entered(a) /\ faults' \in 0..MaxFaults /\ status' \in {status, a}
    BY <1>12, PassEnters, FaultIsCounted, StatusTypes DEF ServerInv
  <2>2. /\ config' \in Contract /\ ConfigFits(config', asked)
        /\ config'.out.req = r /\ config'.out.result = "Failed" /\ base' = base
    BY <1>2, <1>12, PublishedFitsConfig DEF Results
  <2>3. Formed(a, asked) /\ Unsettled(a, config') /\ Behind(a, config') /\ Behind(status', config')
    BY <1>2, <1>8, <1>9, <1>n, <2>2, AnsweredIsFormed DEF Behind
  <2>4. ~spoiled => Sound(a, object, base, inherited)
    BY <1>8, <1>9, <1>n, <1>10, AnsweredIsSound
  <2>5. ~spoiled => /\ Sound(status', object, base, inherited)
                    /\ AnswerFits(status', config', object, base)
                    /\ SameCluster(status', a, config')
    <3>2. CASE status' = status
      BY <3>2, <1>10, <2>2 DEF AnswerFits, SameCluster
    <3>3. CASE status' = a
      BY <1>n, <3>3, <2>4 DEF AnswerFits, SameCluster
    <3> QED BY <2>1, <3>2, <3>3
  <2>6. CompletedHoldsThePoint'
    BY <2>2 DEF CompletedHoldsThePoint
  <2> QED BY <1>1, <1>2, <1>9, <2>1, <2>2, <2>3, <2>4, <2>5, <2>6, RecoverKeeps, StatusTypes
<1> QED BY <1>5, <1>11, <1>12

(* Completed: the base moves to the cluster that serves the new data.      *)
LEMMA CompleteStep ==
  ASSUME ServerInv, NEW r \in Requests, Complete(r), UNCHANGED inherited
  PROVE  ServerInv'
<1> DEFINE m == CloseArchive(status, status.rec.prev)
           j == AnsweredAs(m, "Completed")
           a == [m EXCEPT !.rec = j]
           n == status.cluster
<1>1. /\ Completing(r) /\ Serves(n) /\ config.host = n /\ status' = status /\ inherited' = inherited
      /\ \/ Publish(r, "Completed") /\ CleanUp(a)
         \/ Stop(m) /\ Fault /\ UNCHANGED <<config, object, base>>
  BY DEF Complete
<1>2. /\ Unanswered(r) /\ IsCutOver(status) /\ Running(status) /\ status.rec.req = r
      /\ status.rec.cluster = n
      /\ stale' = FALSE /\ UNCHANGED <<suspended, asked, spoiled, serverActs>>
      /\ r \in asked /\ config.there
  BY <1>1, CompletingFinds
<1>3. /\ Formed(status, asked) /\ Behind(status, config) /\ Unsettled(status, config)
      /\ SameCluster(status, m, config)
  BY <1>2, UnansweredFinds
<1>4. m \in ServerStatus /\ m.rec = status.rec /\ m.cluster = n
  BY ClosedArchive, StatusTypes
<1> HIDE DEF m
<1>5. j \in Record /\ j.done = TRUE /\ j.req = r /\ j.result = "Completed"
  BY <1>2, <1>4, StatusTypes DEF AnsweredAs, Record, Results
<1> HIDE DEF j
<1>6. a \in ServerStatus /\ a.rec = j /\ a.cluster = n
  BY <1>4, <1>5 DEF ServerStatus
<1> HIDE DEF a
<1>n. ~Running(a)
  BY <1>5, <1>6 DEF Running
<1>7. ~spoiled => /\ Sound(status, object, base, inherited)
                  /\ AnswerFits(status, config, object, base)
  BY DEF ServerInv, ClustersInv
<1>8. CASE Stop(m) /\ Fault /\ UNCHANGED <<config, object, base>>
  <2>1. Entered(m) /\ faults' \in 0..MaxFaults
    BY <1>8, PassEnters, FaultIsCounted DEF ServerInv
  <2>2. Formed(m, asked) /\ Behind(m, config) /\ Unsettled(m, config)
    BY <1>3, <1>4 DEF Formed, Behind, Unsettled, Running, IsCutOver
  <2>3. ~spoiled => Sound(m, object, base, inherited)
    BY <1>4, <1>7 DEF Sound, Kept, Right, Told, Running, IsCutOver
  <2> QED BY <1>1, <1>2, <1>3, <1>4, <1>8, <2>1, <2>2, <2>3, RecoverGoesOn
<1>9. CASE Publish(r, "Completed") /\ CleanUp(a)
  <2>1. /\ Entered(a) /\ faults' \in 0..MaxFaults /\ object' \in [Names -> Object]
        /\ Shrinks(object, object') /\ object'[n] = object[n]
    BY <1>6, <1>9, CleanUpSpares DEF ServerInv
  <2>2. /\ config' \in Contract /\ ConfigFits(config', asked)
        /\ config'.out.req = r /\ config'.out.result = "Completed" /\ config'.host = n
        /\ base' = object[n].holds
    BY <1>1, <1>2, <1>9, PublishedFitsConfig DEF Results
  <2>3. Good(n, object', base')
    BY <1>1, <2>1, <2>2 DEF Serves, Owned, Good
  <2>4. base' \in Points
    BY <2>2, StatusTypes DEF Object
  <2>5. Formed(a, asked) /\ Unsettled(a, config') /\ Behind(a, config') /\ Behind(status, config')
    BY <1>2, <1>5, <1>6, <1>n, <2>2, AnsweredIsFormed DEF Behind
  <2>6. ASSUME ~spoiled
        PROVE  /\ Sound(status, object', base', inherited)
               /\ Sound(a, object', base', inherited)
               /\ AnswerFits(status, config', object', base')
               /\ SameCluster(status, a, config')
               /\ CompletedHoldsThePoint'
    <3>1. base' = r \/ r \in inherited
      BY <1>1, <1>2, <1>7, <2>2, <2>6, NoNameIsNoName, StatusTypes DEF Sound, Right, Serves, Owned
    <3>2. Kept(status, object', base') /\ Told(status, base', inherited)
      BY <1>2, <2>3 DEF Kept, Told
    <3>3. Right(status, object', inherited)
      BY <1>2, <3>1, <2>3 DEF Right, Good
    <3>4. Sound(a, object', base', inherited)
      BY <1>5, <1>6, <1>n, <2>3, <3>1, AnsweredIsSound
    <3>5. AnswerFits(status, config', object', base')
      BY <1>2, <2>2, <2>3 DEF AnswerFits
    <3>6. SameCluster(status, a, config')
      BY <1>6 DEF SameCluster
    <3>7. CompletedHoldsThePoint'
      BY <1>1, <2>2, <3>1 DEF CompletedHoldsThePoint
    <3> QED BY <3>2, <3>3, <3>4, <3>5, <3>6, <3>7 DEF Sound
  <2> QED BY <1>1, <1>2, <1>6, <2>1, <2>2, <2>4, <2>5, <2>6, RecoverKeeps, StatusTypes
<1> QED BY <1>1, <1>8, <1>9

-----------------------------------------------------------------------------
(* The components, the status write, and the world.                        *)

(* A contract without an answer says nothing of any record.                *)
LEMMA SilentFits ==
  ASSUME NEW q \in SUBSET Requests, NEW s, Formed(s, q), NEW c, c.out = NoOutcome
  PROVE  /\ Behind(s, c) /\ Unsettled(s, c) /\ \A m : SameCluster(s, m, c)
         /\ \A o, b : AnswerFits(s, c, o, b)
<1>1. c.out.req = NoRequest /\ c.out.result = "Failed"
  BY DEF NoOutcome
<1>2. Running(s) => c.out.req # s.rec.req
  BY <1>1, ServerRecoveryConstants DEF Formed
<1> QED BY <1>1, <1>2 DEF Behind, Unsettled, SameCluster, AnswerFits

LEMMA NoContractFits == ASSUME NEW q PROVE NoContract \in Contract /\ ConfigFits(NoContract, q)
BY ServerRecoveryConstants
   DEF NoContract, NoOutcome, Contract, Outcome, Results, Names, ConfigFits

(* While the data is where the server says, the cluster component finds a  *)
(* cluster under its name.                                                 *)
LEMMA ApplyClusterIsIdle ==
  ASSUME ServerInv, pc = "components", ApplyCluster, ~spoiled
  PROVE  object' = object
<1>1. Kept(copy, object, base)
  BY DEF ServerInv, ClustersInv, Sound
<1> QED BY <1>1 DEF ApplyCluster, Kept, Good

LEMMA ApplyContractKeeps ==
  ASSUME ServerInv, ApplyContract
  PROVE  /\ config' \in Contract /\ ConfigFits(config', asked)
         /\ \/ config' = NoContract
            \/ /\ config'.out = config.out /\ config'.req = config.req
               /\ config'.host = config.host \/ config'.host = copy.cluster
<1> DEFINE k == [config EXCEPT !.there = TRUE, !.host = copy.cluster,
                   !.probed = @ /\ config.there /\ config.host = copy.cluster]
<1>1. config' = NoContract \/ config' = config \/ config' = k
  BY DEF ApplyContract
<1>2. config \in Contract /\ copy.cluster \in Names /\ ConfigFits(config, asked)
  BY StatusTypes DEF ServerStatus, ServerInv, RecordsInv
<1>3. k \in Contract /\ k.there = TRUE /\ k.out = config.out /\ k.req = config.req
      /\ k.host = copy.cluster
  BY <1>2 DEF Contract
<1> HIDE DEF k
<1>4. ConfigFits(k, asked)
  BY <1>2, <1>3 DEF ConfigFits
<1>5. CASE config' = NoContract
  BY <1>5, NoContractFits
<1>6. CASE config' = config
  BY <1>6, <1>2
<1>7. CASE config' = k
  BY <1>7, <1>3, <1>4
<1> QED BY <1>1, <1>5, <1>6, <1>7

LEMMA RecordArchiveKeeps ==
  ASSUME ServerInv, RecordArchive
  PROVE  copy' \in ServerStatus /\ copy'.cluster = copy.cluster /\ copy'.rec = copy.rec
<1>1. copy \in ServerStatus
  BY StatusTypes
<1>2. CASE copy' = copy
  BY <1>1, <1>2
<1>3. CASE /\ copy.archives < MaxArchives
           /\ copy' = [copy EXCEPT !.archives = @ + 1, !.open = copy.cluster]
  <2>1. copy.archives \in 1..MaxArchives /\ copy.cluster \in Names /\ copy.rec \in Record
    BY <1>1 DEF ServerStatus
  <2>2. copy.archives + 1 \in 1..MaxArchives
    BY <2>1, <1>3, ServerRecoveryConstants
  <2>3. copy' = [copy EXCEPT !.archives = copy.archives + 1, !.open = copy.cluster]
    BY <1>3
  <2> QED BY <2>1, <2>2, <2>3, <1>1 DEF ServerStatus
<1>4. \/ copy' = copy
      \/ /\ copy.archives < MaxArchives
         /\ copy' = [copy EXCEPT !.archives = @ + 1, !.open = copy.cluster]
  BY Zenon DEF RecordArchive
<1> QED BY <1>2, <1>3, <1>4

LEMMA ComponentsStep == ASSUME ServerInv, Components PROVE ServerInv'
<1>1. /\ pc = "components" /\ pc' = "flush" /\ ApplyCluster /\ ApplyContract /\ RecordArchive
      /\ UNCHANGED <<status, stale, suspended, asked, base, spoiled, inherited, serverActs, faults>>
  BY DEF Components
<1>2. /\ config' \in Contract /\ ConfigFits(config', asked)
      /\ \/ config' = NoContract
         \/ /\ config'.out = config.out /\ config'.req = config.req
            /\ config'.host = config.host \/ config'.host = copy.cluster
  BY <1>1, ApplyContractKeeps
<1>3. copy' \in ServerStatus /\ copy'.cluster = copy.cluster /\ copy'.rec = copy.rec
  BY <1>1, RecordArchiveKeeps
<1>4. object' \in [Names -> Object]
  <2>1. [owner |-> "server", state |-> "building", going |-> FALSE, holds |-> "empty"] \in Object
    BY DEF Object, Points
  <2> QED BY <1>1, <2>1, StatusTypes DEF ApplyCluster
<1>5. ServerTypeOK'
  BY <1>1, <1>2, <1>3, <1>4 DEF ServerInv, ServerTypeOK
<1>6. /\ Formed(status, asked) /\ Behind(status, config)
      /\ Formed(copy, asked) /\ Behind(copy, config) /\ Unsettled(copy, config)
      /\ asked \subseteq Requests
  BY <1>1 DEF ServerInv, RecordsInv, ServerTypeOK
<1>7. config' = NoContract => config'.out = NoOutcome
  BY DEF NoContract
<1>8. /\ Formed(copy', asked)
      /\ config' = NoContract \/ (Behind(copy', config') /\ Unsettled(copy', config')
                                   /\ Behind(status, config'))
  BY <1>2, <1>3, <1>6 DEF Formed, Behind, Unsettled, Running, IsCutOver
<1>9. Behind(copy', config') /\ Unsettled(copy', config') /\ Behind(status, config')
  BY <1>6, <1>7, <1>8, SilentFits
<1>10. RecordsInv'
  BY <1>1, <1>2, <1>6, <1>8, <1>9 DEF RecordsInv
<1>11. ASSUME ~spoiled
       PROVE  ClustersInv'
  <2>1. object' = object
    BY <1>1, <1>11, ApplyClusterIsIdle
  <2>2. /\ Sound(status, object, base, inherited) /\ AnswerFits(status, config, object, base)
        /\ Sound(copy, object, base, inherited) /\ SameCluster(status, copy, config)
    BY <1>1, <1>11 DEF ServerInv, ClustersInv
  <2>3. Sound(copy', object, base, inherited)
    BY <2>2, <1>3 DEF Sound, Kept, Right, Told, Running, IsCutOver
  <2>4. AnswerFits(status, config', object, base) /\ SameCluster(status, copy', config')
    <3>1. CASE config' = NoContract
      BY <3>1, <1>6, <1>7, SilentFits
    <3>2. CASE /\ config'.out = config.out
               /\ config'.host = config.host \/ config'.host = copy.cluster
      BY <3>2, <2>2, <1>3 DEF AnswerFits, SameCluster
    <3> QED BY <1>2, <3>1, <3>2
  <2> QED BY <1>1, <2>1, <2>2, <2>3, <2>4 DEF ClustersInv
<1>12. CompletedHoldsThePoint'
  BY <1>1, <1>2 DEF ServerInv, CompletedHoldsThePoint, NoContract, NoOutcome
<1> QED BY <1>1, <1>5, <1>10, <1>11, <1>12 DEF ServerInv

LEMMA FlushStatusStep == ASSUME ServerInv, FlushStatus PROVE ServerInv'
<1>1. /\ pc = "flush" /\ pc' = "idle" /\ status' \in {status, copy}
      /\ UNCHANGED <<copy, stale, suspended, config, object, asked, base, spoiled, inherited, serverActs, faults>>
  BY DEF FlushStatus
<1>2. ServerTypeOK'
  BY <1>1 DEF ServerInv, ServerTypeOK
<1>3. /\ Formed(status, asked) /\ Behind(status, config) /\ Formed(copy, asked)
      /\ Behind(copy, config) /\ Unsettled(copy, config) /\ ConfigFits(config, asked)
  BY <1>1 DEF ServerInv, RecordsInv
<1>4. RecordsInv'
  BY <1>1, <1>3 DEF RecordsInv
<1>5. ASSUME ~spoiled
      PROVE  ClustersInv'
  <2>1. /\ Sound(status, object, base, inherited) /\ AnswerFits(status, config, object, base)
        /\ Sound(copy, object, base, inherited)
    BY <1>1, <1>5 DEF ServerInv, ClustersInv
  <2>2. AnswerFits(copy, config, object, base)
    BY <1>3 DEF AnswerFits, Unsettled
  <2> QED BY <1>1, <2>1, <2>2 DEF ClustersInv
<1>6. CompletedHoldsThePoint'
  BY <1>1 DEF ServerInv, CompletedHoldsThePoint
<1> QED BY <1>1, <1>2, <1>4, <1>5, <1>6 DEF ServerInv

LEMMA OperatorStopsStep == ASSUME ServerInv, OperatorStops PROVE ServerInv'
<1>1. /\ pc' = "idle" /\ faults' \in 0..MaxFaults
      /\ UNCHANGED <<status, copy, stale, suspended, config, object, asked, base, spoiled, inherited, serverActs>>
  BY FaultIsCounted DEF OperatorStops, ServerInv
<1>2. ServerTypeOK'
  BY <1>1 DEF ServerInv, ServerTypeOK
<1>3. RecordsInv'
  BY <1>1 DEF ServerInv, RecordsInv
<1>4. (~spoiled => ClustersInv)'
  BY <1>1 DEF ServerInv, ClustersInv
<1>5. CompletedHoldsThePoint'
  BY <1>1 DEF ServerInv, CompletedHoldsThePoint
<1> QED BY <1>2, <1>3, <1>4, <1>5 DEF ServerInv

(* The form of every step of the world.                                    *)
LEMMA ServerWorldKeeps ==
  ASSUME ServerInv, ServerTypeOK', UNCHANGED <<status, copy, pc, base, inherited>>,
         asked \subseteq asked', spoiled => spoiled', ConfigFits(config', asked'),
         \/ config' = NoContract
         \/ /\ config'.out = config.out /\ config'.host = config.host
            /\ Behind(status, config') /\ (pc # "idle" => Behind(copy, config')),
         ~spoiled' => /\ Shrinks(object, object')
                      /\ \A n \in Names : Spared(n, object, object', base)
  PROVE  ServerInv'
<1>1. /\ status' = status /\ copy' = copy /\ pc' = pc /\ base' = base /\ inherited' = inherited
  OBVIOUS
<1>2. /\ Formed(status, asked) /\ (pc # "idle" => Formed(copy, asked) /\ Unsettled(copy, config))
      /\ asked \in SUBSET Requests
  BY DEF ServerInv, RecordsInv, ServerTypeOK
<1>3. Formed(status, asked') /\ (pc # "idle" => Formed(copy, asked'))
  BY <1>2 DEF Formed
<1>4. /\ Behind(status, config') /\ (pc # "idle" => Behind(copy, config') /\ Unsettled(copy, config'))
      /\ (config' = NoContract =>
            /\ \A o, b : AnswerFits(status, config', o, b)
            /\ \A m : SameCluster(status, m, config'))
  <2>1. CASE config' = NoContract
    <3>1. config'.out = NoOutcome
      BY <2>1 DEF NoContract
    <3> QED BY <1>2, <3>1, SilentFits
  <2>2. CASE /\ config' # NoContract
             /\ config'.out = config.out /\ Behind(status, config')
             /\ (pc # "idle" => Behind(copy, config'))
    BY <1>2, <2>2 DEF Unsettled
  <2> QED BY <2>1, <2>2
<1>5. RecordsInv'
  BY <1>1, <1>3, <1>4 DEF RecordsInv
<1>6. ASSUME ~spoiled'
      PROVE  ClustersInv'
  <2>1. /\ Sound(status, object, base, inherited) /\ AnswerFits(status, config, object, base)
        /\ pc # "idle" => Sound(copy, object, base, inherited) /\ SameCluster(status, copy, config)
    BY <1>6 DEF ServerInv, ClustersInv
  <2>2. /\ Shrinks(object, object') /\ \A n \in Names : Spared(n, object, object', base)
    BY <1>6
  <2>3. /\ status.cluster \in Names /\ copy.cluster \in Names
        /\ status \in ServerStatus /\ copy \in ServerStatus
        /\ IsCutOver(status) => status.rec.prev \in Names
        /\ pc # "idle" /\ IsCutOver(copy) => copy.rec.prev \in Names
    BY <1>2, StatusTypes DEF Formed, ServerStatus
  <2>4. Sound(status, object', base, inherited)
    BY <2>1, <2>2, <2>3, SoundStays
  <2>5. pc # "idle" => Sound(copy, object', base, inherited)
    BY <2>1, <2>2, <2>3, SoundStays
  <2>6. AnswerFits(status, config', object', base)
    <3>1. CASE config' = NoContract
      BY <3>1, <1>4
    <3>2. CASE config'.out = config.out /\ config'.host = config.host
      BY <3>2, <2>1, <2>2, <2>3, AnswerStays
    <3> QED BY <3>1, <3>2
  <2>7. pc # "idle" => SameCluster(status, copy, config')
    BY <2>1, <1>4 DEF SameCluster
  <2> QED BY <1>1, <2>4, <2>5, <2>6, <2>7 DEF ClustersInv
<1>7. CompletedHoldsThePoint'
  BY <1>1 DEF ServerInv, CompletedHoldsThePoint, NoContract, NoOutcome
<1> QED BY <1>5, <1>6, <1>7 DEF ServerInv

(* The facts that a step of the world starts from.                         *)
LEMMA WorldFinds ==
  ASSUME ServerInv
  PROVE  /\ ConfigFits(config, asked) /\ Behind(status, config)
         /\ (pc # "idle" => Behind(copy, config))
         /\ Shrinks(object, object) /\ \A n \in Names : Spared(n, object, object, base)
BY DEF ServerInv, RecordsInv, Shrinks, Spared

LEMMA ToggleSuspendStep == ASSUME ServerInv, ToggleSuspend PROVE ServerInv'
<1>1. UNCHANGED <<status, copy, pc, config, object, asked, base, spoiled, inherited>>
  BY DEF ToggleSuspend
<1>2. ServerTypeOK'
  BY ServerRecoveryConstants DEF ToggleSuspend, ServerInv, ServerTypeOK
<1> QED BY <1>1, <1>2, WorldFinds, ServerWorldKeeps

LEMMA DeleteContractStep == ASSUME ServerInv, DeleteContract PROVE ServerInv'
<1>1. /\ UNCHANGED <<status, copy, pc, object, asked, base, spoiled, inherited>>
      /\ config' = NoContract
  BY DEF DeleteContract
<1>2. ServerTypeOK'
  BY NoContractFits, ServerRecoveryConstants DEF DeleteContract, UserAct, ServerInv, ServerTypeOK
<1> QED BY <1>1, <1>2, NoContractFits, WorldFinds, ServerWorldKeeps

LEMMA ProbeConfigStep == ASSUME ServerInv, ProbeConfig PROVE ServerInv'
<1>1. /\ UNCHANGED <<status, copy, pc, object, asked, base, spoiled, inherited>>
      /\ config' = [config EXCEPT !.probed = TRUE] /\ config.there
  BY DEF ProbeConfig
<1>2. /\ config' \in Contract /\ config'.out = config.out /\ config'.req = config.req
      /\ config'.host = config.host /\ config'.there
  BY <1>1, StatusTypes DEF Contract
<1>3. ServerTypeOK'
  BY <1>2 DEF ProbeConfig, ServerInv, ServerTypeOK
<1>4. ConfigFits(config', asked) /\ Behind(status, config') /\ (pc # "idle" => Behind(copy, config'))
  BY <1>2, WorldFinds DEF ConfigFits, Behind
<1> QED BY <1>1, <1>2, <1>3, <1>4, WorldFinds, ServerWorldKeeps

(* A request is new, or written on a contract that lost the last one: an   *)
(* answer Completed that is still read is none to it.                      *)
LEMMA ServerAskStep == ASSUME ServerInv, NEW r \in Requests, Ask(r) PROVE ServerInv'
<1>1. /\ UNCHANGED <<status, copy, pc, object, base, spoiled, inherited>>
      /\ config' = [config EXCEPT !.req = r, !.probed = FALSE] /\ asked' = asked \cup {r}
      /\ config.there /\ (r \notin asked \/ config.req = NoRequest)
  BY DEF Ask
<1>2. /\ config' \in Contract /\ config'.out = config.out /\ config'.req = r
      /\ config'.host = config.host /\ config'.there
  BY <1>1, StatusTypes DEF Contract
<1>3. ServerTypeOK'
  BY <1>1, <1>2 DEF Ask, ServerInv, ServerTypeOK
<1>4. ConfigFits(config', asked')
  BY <1>1, <1>2, WorldFinds DEF ConfigFits
<1>5. ASSUME NEW s, Behind(s, config)
      PROVE  Behind(s, config')
  BY <1>1, <1>2, <1>5, WorldFinds, ServerRecoveryConstants DEF Behind, ConfigFits
<1>6. asked \subseteq asked'
  BY <1>1
<1> QED BY <1>1, <1>2, <1>3, <1>4, <1>5, <1>6, WorldFinds, ServerWorldKeeps

(* A cluster changes: nothing comes to stand, and the loss of the data is  *)
(* recorded.                                                               *)
LEMMA ClusterStep ==
  ASSUME ServerInv, NEW n \in Names,
         \/ DeleteCluster(n) \/ TakeName(n) \/ ClusterFails(n) \/ ClusterBuilt(n) \/ ClusterGone(n)
  PROVE  ServerInv'
<1>1. PICK o : Change(n, o) /\ o \in Object
               /\ (o.owner = "server" /\ ~o.going => Standing(n, object) /\ o.holds = object[n].holds)
               /\ spoiled' \in BOOLEAN /\ (spoiled => spoiled')
               /\ (~spoiled' => (Good(n, object, base) =>
                     o.owner = "server" /\ ~o.going /\ o.state # "failing" /\ o.holds = base))
               /\ serverActs' \in 0..MaxServerActs /\ faults' \in 0..MaxFaults
  <2>0. object[n] \in Object /\ spoiled \in BOOLEAN
        /\ serverActs \in 0..MaxServerActs /\ faults \in 0..MaxFaults
    BY DEF ServerInv, ServerTypeOK
  <2>u. /\ UserAct => serverActs' \in 0..MaxServerActs
        /\ Fault => faults' \in 0..MaxFaults
    BY <2>0, ServerRecoveryConstants DEF UserAct, Fault
  <2>s. Spoils(n) => /\ spoiled' \in BOOLEAN /\ (spoiled => spoiled')
                     /\ (~spoiled' => ~Good(n, object, base))
    BY <2>0, Zenon DEF Spoils, Owned, Good
  <2>1. CASE DeleteCluster(n)
    <3> DEFINE o == [object[n] EXCEPT !.going = TRUE]
    <3>1. o \in Object /\ o.going
      BY <2>0 DEF Object
    <3>2. Change(n, o) /\ Spoils(n) /\ UserAct /\ UNCHANGED faults
      BY <2>1 DEF DeleteCluster
    <3> HIDE DEF o
    <3> QED BY <2>0, <2>u, <2>s, <3>1, <3>2
  <2>2. CASE TakeName(n)
    <3> DEFINE o == [owner |-> "other", state |-> "healthy", going |-> FALSE, holds |-> "empty"]
    <3>1. o \in Object /\ o.owner # "server"
      BY DEF Object, Points
    <3>2. Change(n, o) /\ UserAct /\ UNCHANGED <<spoiled, faults>> /\ object[n].owner = "none"
      BY <2>2 DEF TakeName
    <3> HIDE DEF o
    <3> QED BY <2>0, <2>u, <3>1, <3>2 DEF Good
  <2>3. CASE ClusterFails(n)
    <3> DEFINE o == [object[n] EXCEPT !.state = "failing"]
    <3>1. o \in Object /\ o.owner = object[n].owner /\ o.going = object[n].going
          /\ o.holds = object[n].holds
      BY <2>0 DEF Object
    <3>2. Change(n, o) /\ Spoils(n) /\ Fault /\ UNCHANGED serverActs
      BY <2>3 DEF ClusterFails
    <3> HIDE DEF o
    <3> QED BY <2>0, <2>u, <2>s, <3>1, <3>2 DEF Standing
  <2>4. CASE ClusterBuilt(n)
    <3> DEFINE o == [object[n] EXCEPT !.state = "healthy"]
    <3>1. o \in Object /\ o.owner = object[n].owner /\ o.going = object[n].going
          /\ o.holds = object[n].holds /\ o.state # "failing"
      BY <2>0 DEF Object
    <3>2. Change(n, o) /\ UNCHANGED <<spoiled, serverActs, faults>>
      BY <2>4 DEF ClusterBuilt
    <3> HIDE DEF o
    <3> QED BY <2>0, <3>1, <3>2 DEF Standing, Good
  <2>5. CASE ClusterGone(n)
    <3>1. Absent \in Object /\ Absent.owner # "server"
      BY DEF Absent, Object, Points
    <3>2. Change(n, Absent) /\ object[n].going /\ UNCHANGED <<spoiled, serverActs, faults>>
      BY <2>5 DEF ClusterGone
    <3> QED BY <2>0, <3>1, <3>2 DEF Good
  <2> QED BY <2>1, <2>2, <2>3, <2>4, <2>5
<1>2. /\ object' = [object EXCEPT ![n] = o]
      /\ UNCHANGED <<status, copy, pc, stale, suspended, config, asked, base, inherited>>
  BY <1>1 DEF Change
<1>3. object' \in [Names -> Object] /\ object'[n] = o
      /\ \A k \in Names : k # n => object'[k] = object[k]
  BY <1>1, <1>2, StatusTypes
<1>4. ServerTypeOK'
  BY <1>1, <1>2, <1>3 DEF ServerInv, ServerTypeOK
<1>5. Shrinks(object, object')
  BY <1>1, <1>3 DEF Shrinks, Standing
<1>6. ~spoiled' => \A k \in Names : Spared(k, object, object', base)
  BY <1>1, <1>3 DEF Spared, Good
<1> QED BY <1>1, <1>2, <1>4, <1>5, <1>6, WorldFinds, ServerWorldKeeps

-----------------------------------------------------------------------------

LEMMA ServerStarts == ServerInit => ServerInv
<1> SUFFICES ASSUME ServerInit PROVE ServerInv
  OBVIOUS
<1> DEFINE k == [NoContract EXCEPT !.there = TRUE, !.probed = TRUE]
           m == [cluster |-> 0, rec |-> NoRecord, archives |-> 1, open |-> 0]
           first == [owner |-> "server", state |-> "healthy", going |-> FALSE, holds |-> "orig"]
           o == [n \in Names |-> IF n = 0 THEN first ELSE Absent]
<1>1. /\ status = m /\ copy = m /\ config = k /\ object = o /\ pc = "idle"
      /\ stale = FALSE /\ suspended = FALSE /\ asked = {} /\ base = "orig" /\ spoiled = FALSE
      /\ inherited = {} /\ serverActs = 0 /\ faults = 0
  BY DEF ServerInit
<1>2. 0 \in Names /\ 1 \in 1..MaxArchives /\ 0 \in 0..MaxServerActs /\ 0 \in 0..MaxFaults
  BY ServerRecoveryConstants DEF Names
<1>3. NoRecord \in Record /\ NoRecord.done = TRUE /\ NoRecord.req = NoRequest
      /\ NoRecord.result = "Failed"
  BY DEF NoRecord, Record, Results
<1>4. m \in ServerStatus /\ m.rec = NoRecord /\ m.cluster = 0
  BY <1>2, <1>3 DEF ServerStatus
<1>5. k \in Contract /\ k.there = TRUE /\ k.req = NoRequest /\ k.out = NoOutcome
  BY <1>2 DEF NoContract, NoOutcome, Contract, Outcome, Results
<1>6. first \in Object /\ Absent \in Object
  BY DEF Object, Absent, Points
<1>7. o \in [Names -> Object] /\ o[0] = first
  BY <1>2, <1>6
<1> HIDE DEF k, m, o
<1>8. ServerTypeOK
  BY <1>1, <1>2, <1>4, <1>5, <1>7 DEF ServerTypeOK, Points
<1>9. k.out.req = NoRequest /\ k.out.result = "Failed"
  BY <1>5 DEF NoOutcome
<1>10. RecordsInv
  BY <1>1, <1>3, <1>4, <1>5, <1>9 DEF RecordsInv, ConfigFits, Formed, Behind, Running, IsCutOver
<1>11. Good(0, o, "orig")
  BY <1>7 DEF Good
<1>12. Sound(m, o, "orig", {})
  BY <1>3, <1>4, <1>11, AnsweredIsSound DEF Running
<1>13. AnswerFits(m, k, o, "orig")
  BY <1>3, <1>4 DEF AnswerFits, Running
<1>14. ClustersInv
  BY <1>1, <1>12, <1>13 DEF ClustersInv
<1>15. CompletedHoldsThePoint
  BY <1>1, <1>9 DEF CompletedHoldsThePoint
<1> QED BY <1>8, <1>10, <1>14, <1>15 DEF ServerInv

LEMMA ServerSteps == ServerInv /\ [ServerNext]_serverVars => ServerInv'
<1> SUFFICES ASSUME ServerInv, [ServerNext]_serverVars PROVE ServerInv'
  OBVIOUS
<1>1. ASSUME NEW r \in Requests, Recover(r)
      PROVE  ServerInv'
  <2>1. CASE Start(r)
    BY <2>1, StartStep
  <2>2. CASE UNCHANGED inherited /\ (ReadRecordedAnswer(r) \/ ReadPublishedAnswer(r) \/ RefuseRecovery(r))
    BY <2>2, ReadRecordedAnswerStep, ReadPublishedAnswerStep, RefuseRecoveryStep
  <2>3. CASE UNCHANGED inherited /\ (AdvanceNameless(r) \/ WaitForContract(r)
                                     \/ \E n \in Names : WaitForCluster(r, n))
    BY <2>3, WaitingSteps
  <2>4. CASE UNCHANGED inherited /\ (Abandon(r) \/ Complete(r))
    BY <2>4, AbandonStep, CompleteStep
  <2>5. CASE UNCHANGED inherited /\ \E n \in Names : Create(r, n) \/ MoveOver(r, n)
    BY <2>5, CreateStep, MoveOverStep
  <2>6. CASE UNCHANGED inherited /\ \E n \in Names : RefuseTakenName(r, n) \/ RefuseFailing(r, n)
    BY <2>6, RefuseTakenNameStep, RefuseFailingStep
  <2> QED BY <1>1, <2>1, <2>2, <2>3, <2>4, <2>5, <2>6 DEF Recover
<1>2. CASE ServerPass
  BY <1>1, <1>2, NothingAskedStep, ComponentsStep, FlushStatusStep DEF ServerPass
<1>3. CASE OperatorStops
  BY <1>3, OperatorStopsStep
<1>4. CASE World
  BY <1>4, ToggleSuspendStep, DeleteContractStep, ProbeConfigStep, ServerAskStep, ClusterStep DEF World
<1>5. CASE UNCHANGED serverVars
  <2>1. UNCHANGED <<status, copy, pc, stale, suspended, config, object, asked, base, spoiled,
                    inherited, serverActs, faults>>
    BY <1>5 DEF serverVars
  <2>2. ServerTypeOK' /\ RecordsInv' /\ (~spoiled => ClustersInv)' /\ CompletedHoldsThePoint'
    BY <2>1 DEF ServerInv, ServerTypeOK, RecordsInv, ClustersInv, CompletedHoldsThePoint
  <2> QED BY <2>2 DEF ServerInv
<1> QED BY <1>2, <1>3, <1>4, <1>5 DEF ServerNext

(* The inductive invariant of the server: what its records and the         *)
(* contract say of each other, and which cluster holds the data.           *)
THEOREM ServerInvariant == ServerSpec => []ServerInv
BY ServerStarts, ServerSteps, PTL DEF ServerSpec

(* Each variable of the server keeps its type, so a running record past    *)
(* the cutover always names a cluster to go back to                        *)
(* (advanceRecovery, abandonRecovery).                                     *)
THEOREM ServerTypeCorrect == ServerSpec => []ServerTypeOK
<1>1. ServerInv => ServerTypeOK
  BY DEF ServerInv
<1> QED BY <1>1, ServerInvariant, PTL

(* For any number of requests, archives, interventions and faults, a       *)
(* cluster of the server holds its data, unless somebody else destroyed it.*)
THEOREM ServerKeepsItsData == ServerSpec => []DataKept
<1>1. ServerInv => DataKept
  <2> SUFFICES ASSUME ServerInv, ~spoiled
               PROVE  \E n \in Names : Owned(n) /\ ~object[n].going /\ object[n].holds = base
    BY DEF DataKept
  <2>1. Kept(status, object, base) /\ Formed(status, asked) /\ status.cluster \in Names
    BY StatusTypes DEF ServerInv, RecordsInv, ClustersInv, Sound
  <2>2. PICK n \in Names : Good(n, object, base)
    BY <2>1 DEF Kept, Formed
  <2> QED BY <2>2 DEF Good, Owned
<1> QED BY <1>1, ServerInvariant, PTL

(* An answer Completed is given only when the server holds the state of    *)
(* the requested point, but for a request that found a cluster under the   *)
(* name of its own (the finding) and data that somebody else destroyed.    *)
THEOREM CompletedIsTrue == ServerSpec => []CompletedHoldsThePoint
<1>1. ServerInv => CompletedHoldsThePoint
  BY DEF ServerInv
<1> QED BY <1>1, ServerInvariant, PTL
=============================================================================
