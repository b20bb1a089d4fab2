---------------------- MODULE VpnLifecycleIntentProofs ----------------------
(***************************************************************************)
(* IInv is an inductive invariant of the lifecycle coordinator, for any    *)
(* set of service instances and any bound on the generations; the fence    *)
(* properties follow from it.                                              *)
(***************************************************************************)
EXTENDS VpnLifecycleIntent, TLAPS

USE NoOwnerAssumption, MaxGenerationAssumption

(* The generation counter's three allocators never go back, and next and   *)
(* nextAfter are strictly newer: VpnSessionCoordinator.next, nextAfter and *)
(* accept.                                                                 *)
LEMMA AllocatorsAdvance ==
  ASSUME sequence \in Nat, NEW r \in Nat
  PROVE  /\ next \in Nat /\ next > sequence
         /\ nextAfter(r) \in Nat /\ nextAfter(r) > sequence
         /\ accept(r) \in Nat /\ accept(r) >= sequence
  BY DEF next, nextAfter, accept, Larger

(* A generation that reserveStop hands out is never behind the counter.    *)
LEMMA StopGenerationAdvances ==
  ASSUME sequence \in Nat, NEW r \in Nat, NEW p \in BOOLEAN,
         stopGeneration(r, p) \in 1 .. MaxGeneration
  PROVE  stopGeneration(r, p) >= sequence
<1>1. CASE p
  BY <1>1, AllocatorsAdvance DEF stopGeneration
<1>2. CASE ~p
  BY <1>2, AllocatorsAdvance DEF stopGeneration
<1> QED BY <1>1, <1>2

(* With the lock free no reload is between its tests and its effect.       *)
LEMMA FreeLock ==
  ASSUME IInv, lock = NoOwner, NEW o \in Owner
  PROVE  reload[o].stage \notin {"checked", "committing"}
  BY DEF IInv, LockedReload

(* Fencing at a generation not behind the counter preserves everything     *)
(* that mentions the fence, the reservations and the cleanup.              *)
LEMMA FencePreserves ==
  ASSUME IInv, NEW g \in 1 .. MaxGeneration, g >= sequence, FenceAt(g)
  PROVE  /\ sequence' \in Generation /\ sequence' = g
         /\ latestStopGeneration' \in Generation
         /\ acknowledgedStop' \in Generation
         /\ acknowledgedStop' = latestStopGeneration'
         /\ latestStopGeneration' <= sequence'
         /\ pendingReload' = NoReload /\ replacementCleanup' = NoCleanup
  BY DEF IInv, TypeOK, BelowSequence, FenceAt, Larger, Generation

(* The null reload, the null cleanup and an idle reload have their types.  *)
LEMMA NullRecords ==
  /\ NoReload \in [owner : Owner \cup {NoOwner}, generation : Generation]
  /\ NoReload.owner = NoOwner /\ NoReload.generation = 0
  /\ NoCleanup \in [generation : Generation, state : CleanupState]
  /\ NoCleanup.generation = 0 /\ NoCleanup.state = "NONE"
  /\ Idle \in [stage : ReloadStage, session : Generation, generation : Generation]
  /\ Idle.stage = "idle"
  BY DEF NoReload, NoCleanup, Idle, Generation, CleanupState, ReloadStage

(* Updating one reload's locals keeps the others and the type.             *)
LEMMA ReloadUpdate ==
  ASSUME IInv, NEW o \in Owner, NEW s \in ReloadStage, NEW g \in Generation,
         \/ reload' = [reload EXCEPT ![o].stage = s]
         \/ reload' = [reload EXCEPT ![o].stage = s, ![o].generation = g]
         \/ reload' = [reload EXCEPT ![o] = Idle]
  PROVE  /\ reload' \in [Owner -> [stage : ReloadStage, session : Generation, generation : Generation]]
         /\ \A q \in Owner \ {o} : reload'[q] = reload[q]
         /\ reload'[o].stage \in {s, "idle"}
<1>1. reload \in [Owner -> [stage : ReloadStage, session : Generation, generation : Generation]]
  BY DEF IInv, TypeOK
<1>2. CASE reload' = [reload EXCEPT ![o].stage = s]
  BY <1>1, <1>2
<1>3. CASE reload' = [reload EXCEPT ![o].stage = s, ![o].generation = g]
  BY <1>1, <1>3
<1>4. CASE reload' = [reload EXCEPT ![o] = Idle]
  BY <1>1, <1>4, NullRecords
<1> QED BY <1>2, <1>3, <1>4

(* The initial state satisfies the invariant.                              *)
LEMMA InitIInv == Init => IInv
<1> SUFFICES ASSUME Init PROVE IInv
  OBVIOUS
<1>1. TypeOK
  BY NullRecords DEF Init, TypeOK, Generation
<1> QED
  BY <1>1, NullRecords DEF Init, IInv, BelowSequence, ReservationsAreLive, LockedReload,
     DestroyedOwnersHoldNothing, ReloadYieldsToConnect

-----------------------------------------------------------------------------
(* One lemma per group of actions: each preserves the invariant.           *)

(* PrepareVpn, SetSessionGeneration and the starts advance the counter     *)
(* outside the lock: that breaks nothing a lock holder has established.    *)
LEMMA AcceptPreserves ==
  ASSUME IInv, NEW g \in Generation, AcceptGeneration(g)
  PROVE  IInv'
<1>1. sequence \in Nat /\ g \in Nat
  BY DEF IInv, TypeOK, Generation
<1>2. sequence' \in Generation /\ sequence' >= sequence
  BY <1>1, AllocatorsAdvance DEF AcceptGeneration, Generation
<1>3. TypeOK'
  BY <1>2 DEF IInv, TypeOK, AcceptGeneration
<1>4. BelowSequence'
  BY <1>2 DEF IInv, TypeOK, BelowSequence, AcceptGeneration, Generation
<1> QED
  BY <1>3, <1>4 DEF IInv, ReservationsAreLive, LockedReload, OwnsReload,
     DestroyedOwnersHoldNothing, ReloadYieldsToConnect, AcceptGeneration

(* reserveStop: the fence may move at any time between two steps of a      *)
(* reload, but not while one holds the lock.                               *)
LEMMA StopPreserves ==
  ASSUME IInv, NEW g \in Generation, NEW p \in BOOLEAN, reserveStop(g, p)
  PROVE  IInv'
<1> DEFINE s == stopGeneration(g, p)
<1>1. s \in 1 .. MaxGeneration /\ FenceAt(s) /\ lock = NoOwner
      /\ UNCHANGED <<lock, activeSession, closing, ownerDestroyed, reload>>
  BY DEF reserveStop
<1>2. s >= sequence
  BY <1>1, StopGenerationAdvances DEF IInv, TypeOK, Generation
<1> HIDE DEF s
<1>3. TypeOK'
  BY <1>1, <1>2, FencePreserves, NullRecords DEF IInv, TypeOK
<1>4. BelowSequence'
  BY <1>1, <1>2, FencePreserves, NullRecords DEF IInv, TypeOK, BelowSequence, Generation
<1>5. ReservationsAreLive' /\ ReloadYieldsToConnect'
  BY <1>1, <1>2, FencePreserves, NullRecords DEF ReservationsAreLive, ReloadYieldsToConnect
<1>6. LockedReload'
  BY <1>1, FreeLock DEF LockedReload
<1>7. DestroyedOwnersHoldNothing'
  BY <1>1 DEF IInv, DestroyedOwnersHoldNothing
<1> QED
  BY <1>3, <1>4, <1>5, <1>6, <1>7 DEF IInv

(* closeSession only takes sessions away.                                  *)
LEMMA ClosePreserves ==
  ASSUME IInv, NEW o \in Owner, CloseSession(o) \/ ClearNetwork(o)
  PROVE  IInv'
<1>1. CASE CloseSession(o)
  BY <1>1 DEF IInv, TypeOK, BelowSequence, ReservationsAreLive, LockedReload, OwnsReload,
     DestroyedOwnersHoldNothing, ReloadYieldsToConnect, CloseSession
<1>2. CASE ClearNetwork(o)
  <2>1. TypeOK'
    BY <1>2 DEF IInv, TypeOK, ClearNetwork, Generation
  <2>2. \A q \in Owner : activeSession'[q] = activeSession[q] \/ activeSession'[q] = 0
    BY <1>2 DEF IInv, TypeOK, ClearNetwork
  <2>3. BelowSequence'
    BY <1>2, <2>2 DEF IInv, TypeOK, BelowSequence, ClearNetwork, Generation
  <2>4. DestroyedOwnersHoldNothing'
    BY <1>2, <2>2 DEF IInv, DestroyedOwnersHoldNothing, ClearNetwork
  <2>5. ReloadYieldsToConnect'
    BY <1>2, <2>2 DEF IInv, TypeOK, Generation, BelowSequence, ReservationsAreLive,
       ReloadYieldsToConnect, ClearNetwork
  <2> QED
    BY <1>2, <2>1, <2>3, <2>4, <2>5 DEF IInv, ReservationsAreLive, LockedReload, OwnsReload,
       ClearNetwork
<1> QED BY <1>1, <1>2

(* reserveReplacementStop, its dispatch to an owner and its completion.    *)
LEMMA CleanupPreserves ==
  ASSUME IInv, NEW g \in Generation,
         \/ reserveReplacementStop(g)
         \/ completeReplacementStop(g)
         \/ \E o \in Owner : dispatchReplacementStop(o, g)
  PROVE  IInv'
<1>1. CASE reserveReplacementStop(g)
  <2>1. TypeOK'
    BY <1>1, NullRecords DEF IInv, TypeOK, reserveReplacementStop, CleanupState
  <2>2. BelowSequence'
    BY <1>1, NullRecords DEF IInv, TypeOK, BelowSequence, reserveReplacementStop, isCurrent, Generation
  <2>3. ReservationsAreLive' /\ ReloadYieldsToConnect'
    BY <1>1, NullRecords DEF ReservationsAreLive, ReloadYieldsToConnect, reserveReplacementStop
  <2>4. LockedReload'
    BY <1>1, FreeLock DEF LockedReload, reserveReplacementStop
  <2> QED
    BY <1>1, <2>1, <2>2, <2>3, <2>4 DEF IInv, DestroyedOwnersHoldNothing, reserveReplacementStop
<1>2. CASE completeReplacementStop(g)
  <2>1. replacementCleanup'.generation = replacementCleanup.generation
        /\ replacementCleanup' \in [generation : Generation, state : CleanupState]
    BY <1>2 DEF IInv, TypeOK, completeReplacementStop, CleanupState
  <2> QED
    BY <1>2, <2>1 DEF IInv, TypeOK, BelowSequence, ReservationsAreLive, LockedReload, OwnsReload,
       DestroyedOwnersHoldNothing, ReloadYieldsToConnect, completeReplacementStop
<1>3. ASSUME NEW o \in Owner, dispatchReplacementStop(o, g) PROVE IInv'
  BY <1>3 DEF IInv, TypeOK, BelowSequence, ReservationsAreLive, LockedReload, OwnsReload,
     DestroyedOwnersHoldNothing, ReloadYieldsToConnect, dispatchReplacementStop
<1> QED BY <1>1, <1>2, <1>3

(* commitStart: an installed session is newer than the fence, and no       *)
(* reservation survives it.                                                *)
LEMMA StartPreserves ==
  ASSUME IInv, NEW o \in Owner, NEW g \in Generation, commitStart(o, g)
  PROVE  IInv'
<1>0. /\ replacementCleanup' \in [generation : Generation, state : CleanupState]
      /\ pendingReload' \in [owner : Owner \cup {NoOwner}, generation : Generation]
  BY NullRecords DEF IInv, TypeOK, commitStart, startAdmitted, ownerAcceptsSession, CleanupState
<1>1a. activeSession' \in [Owner -> Generation]
  BY DEF IInv, TypeOK, commitStart, startAdmitted, ownerAcceptsSession
<1>1b. closing' = closing \/ closing' = [closing EXCEPT ![o] = FALSE]
  BY DEF commitStart, startAdmitted, ownerAcceptsSession
<1>1c. closing' \in [Owner -> BOOLEAN]
  BY <1>1b DEF IInv, TypeOK
<1>1. TypeOK'
  BY <1>0, <1>1a, <1>1c DEF IInv, TypeOK, commitStart, startAdmitted, ownerAcceptsSession
<1>2. \A q \in Owner : activeSession'[q] = activeSession[q] \/ activeSession'[q] = sequence
  BY DEF IInv, TypeOK, commitStart, startAdmitted, ownerAcceptsSession, isCurrent
<1>3. replacementCleanup'.generation \in {0, replacementCleanup.generation}
  BY NullRecords DEF IInv, TypeOK, commitStart, startAdmitted, ownerAcceptsSession
<1>4. BelowSequence'
  BY <1>2, <1>3, NullRecords DEF IInv, TypeOK, BelowSequence, commitStart, startAdmitted, ownerAcceptsSession, Generation
<1>5. ReservationsAreLive' /\ ReloadYieldsToConnect'
  BY NullRecords DEF ReservationsAreLive, ReloadYieldsToConnect, commitStart, startAdmitted, ownerAcceptsSession
<1>6. LockedReload'
  BY FreeLock DEF LockedReload, commitStart, startAdmitted, ownerAcceptsSession
<1>7. DestroyedOwnersHoldNothing'
  BY DEF IInv, TypeOK, DestroyedOwnersHoldNothing, commitStart, startAdmitted, ownerAcceptsSession
<1> QED BY <1>1, <1>4, <1>5, <1>6, <1>7 DEF IInv

(* serviceReload0 up to its reservation: a reserved generation is the      *)
(* newest one there is.                                                    *)
LEMMA ReloadReservePreserves ==
  ASSUME IInv, NEW o \in Owner, BeginReload(o) \/ CheckReload(o) \/ reserveReload(o)
  PROVE  IInv'
<1>1. CASE BeginReload(o)
  <2>1. /\ reload' \in [Owner -> [stage : ReloadStage, session : Generation, generation : Generation]]
        /\ reload'[o].stage = "requested"
        /\ \A q \in Owner \ {o} : reload'[q] = reload[q]
    BY <1>1, NullRecords DEF IInv, TypeOK, BeginReload, Idle, ReloadStage, Generation
  <2>2. LockedReload'
    BY <1>1, <2>1 DEF IInv, LockedReload, OwnsReload, BeginReload
  <2> QED
    BY <1>1, <2>1, <2>2 DEF IInv, TypeOK, BelowSequence, ReservationsAreLive,
       DestroyedOwnersHoldNothing, ReloadYieldsToConnect, BeginReload
<1>2. CASE CheckReload(o)
  <2>1. /\ reload' \in [Owner -> [stage : ReloadStage, session : Generation, generation : Generation]]
        /\ \A q \in Owner \ {o} : reload'[q] = reload[q]
    <3>1. \/ reload' = [reload EXCEPT ![o].stage = "checked"]
          \/ reload' = [reload EXCEPT ![o] = Idle]
      BY <1>2 DEF CheckReload, reloadAdmitted
    <3>2. "checked" \in ReloadStage /\ 0 \in Generation
      BY DEF ReloadStage, Generation
    <3> QED BY <3>1, <3>2, ReloadUpdate
  <2>2. TypeOK'
    BY <1>2, <2>1 DEF IInv, TypeOK, CheckReload, reloadAdmitted
  <2>3. \A q \in Owner \ {o} : reload'[q].stage \notin {"checked", "committing"}
    BY <1>2, <2>1, FreeLock DEF CheckReload, reloadAdmitted
  <2>4. \/ /\ reload'[o].stage = "checked" /\ lock' = o
           /\ reload'[o].session > latestStopGeneration /\ ~ownerDestroyed[o]
        \/ reload'[o].stage = "idle"
    BY <1>2, NullRecords DEF IInv, TypeOK, CheckReload, reloadAdmitted
  <2>5. LockedReload'
    BY <1>2, <2>3, <2>4 DEF LockedReload, CheckReload, reloadAdmitted
  <2> QED
    BY <1>2, <2>2, <2>5 DEF IInv, BelowSequence, ReservationsAreLive,
       DestroyedOwnersHoldNothing, ReloadYieldsToConnect, CheckReload, reloadAdmitted
<1>3. CASE reserveReload(o)
  <2>1. next \in Generation /\ next > sequence /\ sequence \in Nat
    BY <1>3 DEF IInv, TypeOK, Generation, next, reserveReload
  <2>2. /\ reload' \in [Owner -> [stage : ReloadStage, session : Generation, generation : Generation]]
        /\ reload'[o].stage = "reserved"
        /\ \A q \in Owner \ {o} : reload'[q] = reload[q]
    <3>1. reload' = [reload EXCEPT ![o].stage = "reserved", ![o].generation = next]
      BY <1>3 DEF reserveReload
    <3>2. "reserved" \in ReloadStage
      BY DEF ReloadStage
    <3>3. reload'[o].stage = "reserved"
      BY <3>1 DEF IInv, TypeOK
    <3> QED BY <2>1, <3>1, <3>2, <3>3, ReloadUpdate
  <2>3. closing' \in [Owner -> BOOLEAN]
    BY <1>3 DEF IInv, TypeOK, reserveReload
  <2>4. TypeOK'
    BY <1>3, <2>1, <2>2, <2>3, NullRecords DEF IInv, TypeOK, reserveReload
  <2>5. BelowSequence'
    BY <1>3, <2>1, NullRecords DEF IInv, TypeOK, BelowSequence, Generation, reserveReload
  <2>6. ReservationsAreLive'
    BY <1>3, <2>1, NullRecords DEF IInv, TypeOK, BelowSequence, LockedReload,
       ReservationsAreLive, Generation, reserveReload
  <2>7. ReloadYieldsToConnect'
    BY <1>3, <2>1 DEF IInv, TypeOK, BelowSequence, ReloadYieldsToConnect, Generation, reserveReload
  <2>8. \A q \in Owner \ {o} : reload[q].stage \notin {"checked", "committing"}
    BY <1>3 DEF IInv, LockedReload, reserveReload
  <2>9. LockedReload'
    BY <2>2, <2>8 DEF LockedReload
  <2> QED
    BY <1>3, <2>4, <2>5, <2>6, <2>7, <2>9 DEF IInv, DestroyedOwnersHoldNothing, reserveReload
<1> QED BY <1>1, <1>2, <1>3

(* serviceReload0 after its reservation: abandoned, refused or committed.  *)
LEMMA ReloadCommitPreserves ==
  ASSUME IInv, NEW o \in Owner, AbandonReload(o) \/ CheckCommitReload(o) \/ commitReload(o)
  PROVE  IInv'
<1>1. CASE AbandonReload(o)
  <2> DEFINE g == nextAfter(reload[o].generation)
  <2>1. g \in 1 .. MaxGeneration /\ g >= sequence /\ FenceAt(g)
    BY <1>1, AllocatorsAdvance DEF IInv, TypeOK, Generation, AbandonReload
  <2> HIDE DEF g
  <2>2. /\ reload' \in [Owner -> [stage : ReloadStage, session : Generation, generation : Generation]]
        /\ reload'[o].stage = "idle"
        /\ \A q \in Owner \ {o} : reload'[q] = reload[q]
    BY <1>1, NullRecords DEF IInv, TypeOK, AbandonReload
  <2>3. TypeOK'
    BY <1>1, <2>1, <2>2, FencePreserves, NullRecords DEF IInv, TypeOK, AbandonReload
  <2>4. BelowSequence'
    BY <1>1, <2>1, FencePreserves, NullRecords DEF IInv, TypeOK, BelowSequence, Generation, AbandonReload
  <2>5. ReservationsAreLive' /\ ReloadYieldsToConnect'
    BY <2>1, FencePreserves, NullRecords DEF ReservationsAreLive, ReloadYieldsToConnect
  <2>6. LockedReload'
    BY <1>1, <2>2, FreeLock DEF LockedReload, AbandonReload
  <2> QED
    BY <1>1, <2>3, <2>4, <2>5, <2>6 DEF IInv, DestroyedOwnersHoldNothing, AbandonReload
<1>2. CASE CheckCommitReload(o)
  <2>1. /\ reload' \in [Owner -> [stage : ReloadStage, session : Generation, generation : Generation]]
        /\ \A q \in Owner \ {o} : reload'[q] = reload[q]
    <3>1. \/ reload' = [reload EXCEPT ![o].stage = "committing"]
          \/ reload' = [reload EXCEPT ![o] = Idle]
      BY <1>2 DEF CheckCommitReload
    <3>2. "committing" \in ReloadStage /\ 0 \in Generation
      BY DEF ReloadStage, Generation
    <3> QED BY <3>1, <3>2, ReloadUpdate
  <2>2. pendingReload' = pendingReload \/ pendingReload' = NoReload
    BY <1>2 DEF CheckCommitReload
  <2>3. TypeOK'
    BY <1>2, <2>1, <2>2, NullRecords DEF IInv, TypeOK, CheckCommitReload
  <2>4. BelowSequence'
    BY <1>2, <2>2, NullRecords DEF IInv, TypeOK, BelowSequence, Generation, CheckCommitReload
  <2>5. ReservationsAreLive' /\ ReloadYieldsToConnect'
    BY <1>2, <2>2, NullRecords DEF IInv, ReservationsAreLive, ReloadYieldsToConnect, CheckCommitReload
  <2>6. \A q \in Owner \ {o} : reload'[q].stage \notin {"checked", "committing"}
    BY <1>2, <2>1, FreeLock DEF CheckCommitReload
  <2>7. \/ reload'[o].stage = "idle"
        \/ /\ reload'[o].stage = "committing" /\ lock' = o
           /\ reload'[o].generation = reload[o].generation
           /\ OwnsReload(o) /\ pendingReload' = pendingReload
           /\ reload[o].generation > latestStopGeneration
    BY <1>2, NullRecords DEF IInv, TypeOK, CheckCommitReload
  <2>8. LockedReload'
    BY <1>2, <2>6, <2>7 DEF LockedReload, OwnsReload, CheckCommitReload
  <2> QED
    BY <1>2, <2>3, <2>4, <2>5, <2>8 DEF IInv, DestroyedOwnersHoldNothing, CheckCommitReload
<1>3. CASE commitReload(o)
  <2>1. /\ reload' \in [Owner -> [stage : ReloadStage, session : Generation, generation : Generation]]
        /\ reload'[o].stage = "idle"
        /\ \A q \in Owner \ {o} : reload'[q] = reload[q]
    BY <1>3, NullRecords DEF IInv, TypeOK, commitReload
  <2>2. activeSession' \in [Owner -> Generation] /\ closing' \in [Owner -> BOOLEAN]
    BY <1>3 DEF IInv, TypeOK, commitReload
  <2>3. replacementCleanup' = replacementCleanup \/ replacementCleanup' = NoCleanup
    BY <1>3 DEF commitReload
  <2>4. TypeOK'
    BY <1>3, <2>1, <2>2, <2>3, NullRecords DEF IInv, TypeOK, commitReload
  <2>5. reload[o].generation = pendingReload.generation
    BY <1>3 DEF IInv, LockedReload, OwnsReload, commitReload
  <2>6. \A q \in Owner : activeSession'[q] = activeSession[q] \/ activeSession'[q] = pendingReload.generation
    BY <1>3, <2>5 DEF IInv, TypeOK, commitReload
  <2>7. BelowSequence'
    BY <1>3, <2>3, <2>6, NullRecords DEF IInv, TypeOK, BelowSequence, Generation, commitReload
  <2>8. ReservationsAreLive' /\ ReloadYieldsToConnect'
    BY <1>3, NullRecords DEF ReservationsAreLive, ReloadYieldsToConnect, commitReload
  <2>9. \A q \in Owner \ {o} : reload[q].stage \notin {"checked", "committing"}
    BY <1>3 DEF IInv, LockedReload, commitReload
  <2>10. LockedReload'
    BY <2>1, <2>9 DEF LockedReload
  <2>11. DestroyedOwnersHoldNothing'
    BY <1>3 DEF IInv, TypeOK, DestroyedOwnersHoldNothing, commitReload
  <2> QED BY <2>4, <2>7, <2>8, <2>10, <2>11 DEF IInv
<1> QED BY <1>1, <1>2, <1>3

(* onDestroy: the owner, its session and its reservation go in one step.   *)
LEMMA DestroyPreserves ==
  ASSUME IInv, NEW o \in Owner, NEW t \in BOOLEAN, DestroyOwner(o, t)
  PROVE  IInv'
<1>1. /\ activeSession' \in [Owner -> Generation] /\ closing' \in [Owner -> BOOLEAN]
      /\ ownerDestroyed' \in [Owner -> BOOLEAN]
      /\ lock = NoOwner /\ UNCHANGED <<lock, reload>>
  BY DEF IInv, TypeOK, DestroyOwner, Generation
<1>2. /\ \A q \in Owner \ {o} : activeSession'[q] = activeSession[q] /\ ownerDestroyed'[q] = ownerDestroyed[q]
      /\ activeSession'[o] = 0
  BY DEF IInv, TypeOK, DestroyOwner
<1>3. DestroyedOwnersHoldNothing'
  BY <1>2 DEF IInv, DestroyedOwnersHoldNothing
<1>4. LockedReload'
  BY <1>1, FreeLock DEF LockedReload
<1>5. CASE next <= MaxGeneration /\ FenceAt(next)
  <2>1. next \in 1 .. MaxGeneration /\ next >= sequence
    BY <1>5 DEF IInv, TypeOK, Generation, next
  <2>2. TypeOK'
    BY <1>1, <1>5, <2>1, FencePreserves, NullRecords DEF IInv, TypeOK
  <2>3. BelowSequence'
    BY <1>2, <1>5, <2>1, FencePreserves, NullRecords DEF IInv, TypeOK, BelowSequence, Generation
  <2>4. ReservationsAreLive' /\ ReloadYieldsToConnect'
    BY <1>5, <2>1, FencePreserves, NullRecords DEF ReservationsAreLive, ReloadYieldsToConnect
  <2> QED BY <1>3, <1>4, <2>2, <2>3, <2>4 DEF IInv
<1>6. CASE /\ pendingReload' = (IF pendingReload.owner = o THEN NoReload ELSE pendingReload)
           /\ UNCHANGED <<sequence, latestStopGeneration, replacementCleanup, acknowledgedStop>>
  <2>1. TypeOK'
    BY <1>1, <1>6, NullRecords DEF IInv, TypeOK
  <2>2. BelowSequence'
    BY <1>2, <1>6, NullRecords DEF IInv, TypeOK, BelowSequence, Generation
  <2>3. CASE pendingReload.owner = o
    BY <1>3, <1>4, <1>6, <2>1, <2>2, <2>3, NullRecords DEF IInv, ReservationsAreLive, ReloadYieldsToConnect
  <2>4. CASE pendingReload.owner # o
    <3>1. pendingReload' = pendingReload
      BY <1>6, <2>4
    <3>2. ReservationsAreLive'
      BY <1>2, <1>6, <3>1, <2>4 DEF IInv, TypeOK, ReservationsAreLive
    <3>3. ReloadYieldsToConnect'
      BY <1>2, <1>6, <3>1 DEF IInv, TypeOK, ReloadYieldsToConnect, ReservationsAreLive, Generation
    <3> QED BY <1>3, <1>4, <2>1, <2>2, <3>2, <3>3 DEF IInv
  <2> QED BY <2>3, <2>4
<1> QED BY <1>5, <1>6 DEF DestroyOwner

-----------------------------------------------------------------------------
(* Every step of the coordinator preserves the inductive invariant.        *)
LEMMA NextIInv == IInv /\ [Next]_vars => IInv'
<1> SUFFICES ASSUME IInv, [Next]_vars PROVE IInv'
  OBVIOUS
<1>1. CASE UNCHANGED vars
  BY <1>1 DEF IInv, TypeOK, BelowSequence, ReservationsAreLive, LockedReload, OwnsReload,
     DestroyedOwnersHoldNothing, ReloadYieldsToConnect, vars
<1>2. ASSUME NEW g \in Generation,
             \/ AcceptGeneration(g)
             \/ \E p \in BOOLEAN : reserveStop(g, p)
             \/ reserveReplacementStop(g)
             \/ completeReplacementStop(g)
      PROVE  IInv'
  BY <1>2, AcceptPreserves, StopPreserves, CleanupPreserves
<1>3. ASSUME NEW o \in Owner,
             \/ CloseSession(o) \/ ClearNetwork(o)
             \/ BeginReload(o) \/ CheckReload(o) \/ reserveReload(o)
             \/ AbandonReload(o) \/ CheckCommitReload(o) \/ commitReload(o)
      PROVE  IInv'
  BY <1>3, ClosePreserves, ReloadReservePreserves, ReloadCommitPreserves
<1>4. ASSUME NEW o \in Owner, NEW t \in BOOLEAN, DestroyOwner(o, t) PROVE IInv'
  BY <1>4, DestroyPreserves
<1>5. ASSUME NEW o \in Owner, NEW g \in Generation,
             dispatchReplacementStop(o, g) \/ commitStart(o, g)
      PROVE  IInv'
  BY <1>5, CleanupPreserves, StartPreserves
<1> QED BY <1>1, <1>2, <1>3, <1>4, <1>5 DEF Next

(* The inductive invariant holds in every state of every behaviour.        *)
THEOREM Invariance == Spec => []IInv
  BY InitIInv, NextIInv, PTL DEF Spec

(* Every generation, token and stage keeps its type.                       *)
THEOREM TypeCorrect == Spec => []TypeOK
<1>1. IInv => TypeOK
  BY DEF IInv
<1> QED BY <1>1, Invariance, PTL

(* A destroyed service never holds a session: destroyOwner cannot be       *)
(* overtaken by a start or a reload that passed its checks earlier.        *)
THEOREM DestroyedOwners == Spec => []DestroyedOwnersHoldNothing
<1>1. IInv => DestroyedOwnersHoldNothing
  BY DEF IInv
<1> QED BY <1>1, Invariance, PTL

(* A reload that may still commit is newer than every installed session.   *)
THEOREM ReloadYields == Spec => []ReloadYieldsToConnect
<1>1. IInv => ReloadYieldsToConnect
  BY DEF IInv
<1> QED BY <1>1, Invariance, PTL

(* What an installing step can be: a committed Start or a committed reload. *)
LEMMA InstallingSteps ==
  ASSUME IInv, [Next]_vars, NEW o \in Owner, Installs(o)
  PROVE  \/ \E g \in Generation : commitStart(o, g) /\ activeSession'[o] = g
         \/ commitReload(o) /\ activeSession'[o] = pendingReload.generation
                            /\ pendingReload.owner = o
<1> DEFINE Goal == \/ \E g \in Generation : commitStart(o, g) /\ activeSession'[o] = g
                   \/ commitReload(o) /\ activeSession'[o] = pendingReload.generation
                                      /\ pendingReload.owner = o
<1> SUFFICES Goal
  OBVIOUS
<1>0. activeSession \in [Owner -> Generation]
  BY DEF IInv, TypeOK
<1>1. activeSession' # activeSession
  BY DEF Installs
<1>2. ASSUME NEW q \in Owner, NEW g \in Generation, commitStart(q, g) PROVE Goal
  <2>1. activeSession' = [activeSession EXCEPT ![q] = g]
    BY <1>1, <1>2 DEF commitStart, startAdmitted, ownerAcceptsSession
  <2>2. q = o /\ activeSession'[o] = g
    BY <1>0, <2>1 DEF Installs
  <2> QED BY <1>2, <2>2
<1>3. ASSUME NEW q \in Owner, commitReload(q) PROVE Goal
  <2>1. activeSession' = [activeSession EXCEPT ![q] = reload[q].generation]
    BY <1>1, <1>3 DEF commitReload
  <2>2. q = o /\ activeSession'[o] = reload[o].generation
    BY <1>0, <2>1 DEF Installs
  <2>3. pendingReload = [owner |-> o, generation |-> reload[o].generation]
    BY <1>3, <2>2 DEF IInv, LockedReload, OwnsReload, commitReload
  <2> QED BY <1>3, <2>2, <2>3
<1>4. ASSUME NEW q \in Owner, ClearNetwork(q) PROVE Goal
  BY <1>0, <1>4 DEF ClearNetwork, Installs
<1>5. ASSUME NEW q \in Owner, NEW t \in BOOLEAN, DestroyOwner(q, t) PROVE Goal
  <2>1. activeSession' = [activeSession EXCEPT ![q] = 0]
    BY <1>5 DEF DestroyOwner
  <2> QED BY <1>0, <2>1 DEF Installs
<1>6. CASE \/ UNCHANGED vars
           \/ \E g \in Generation : \/ AcceptGeneration(g) \/ reserveReplacementStop(g)
                                    \/ completeReplacementStop(g)
           \/ \E g \in Generation, p \in BOOLEAN : reserveStop(g, p)
           \/ \E q \in Owner : \/ CloseSession(q) \/ BeginReload(q) \/ CheckReload(q)
                               \/ reserveReload(q) \/ AbandonReload(q) \/ CheckCommitReload(q)
           \/ \E q \in Owner, g \in Generation : dispatchReplacementStop(q, g)
  BY <1>1, <1>6 DEF vars, AcceptGeneration, reserveReplacementStop, completeReplacementStop,
     reserveStop, CloseSession, BeginReload, CheckReload, reloadAdmitted, reserveReload, AbandonReload,
     CheckCommitReload, dispatchReplacementStop
<1> HIDE DEF Goal
<1> QED BY <1>2, <1>3, <1>4, <1>5, <1>6 DEF Next

(* An acknowledged Stop is terminal: no later step installs a session of a *)
(* generation the Stop has fenced (VpnLifecycleIntentCoordinator).         *)
THEOREM StopTerminal == Spec => StopIsTerminal
<1>1. ASSUME IInv, [Next]_vars, NEW o \in Owner, Installs(o)
      PROVE  activeSession'[o] > acknowledgedStop
  <2>1. CASE \E g \in Generation : commitStart(o, g) /\ activeSession'[o] = g
    BY <1>1, <2>1 DEF IInv, BelowSequence, commitStart, startAdmitted, ownerAcceptsSession
  <2>2. CASE pendingReload.owner = o /\ activeSession'[o] = pendingReload.generation
    BY <1>1, <2>2 DEF IInv, BelowSequence, ReservationsAreLive
  <2> QED BY <1>1, <2>1, <2>2, InstallingSteps
<1>2. IInv /\ [Next]_vars =>
        [\A o \in Owner : Installs(o) => activeSession'[o] > acknowledgedStop]_vars
  BY <1>1
<1> QED BY <1>2, Invariance, PTL DEF Spec, StopIsTerminal

(* No session starts while the cleanup of its own generation is pending,   *)
(* on the reload path too, where the code does not test the cleanup.       *)
THEOREM CleanupFirst == Spec => CleanupBeforeStart
<1>1. ASSUME IInv, [Next]_vars, NEW o \in Owner, Installs(o)
      PROVE  ~ (/\ replacementCleanup.generation = activeSession'[o]
                /\ replacementCleanup.state = "PENDING")
  <2>1. CASE \E g \in Generation : commitStart(o, g) /\ activeSession'[o] = g
    BY <1>1, <2>1 DEF commitStart, startAdmitted, ownerAcceptsSession
  <2>2. CASE pendingReload.owner = o /\ activeSession'[o] = pendingReload.generation
    BY <1>1, <2>2 DEF IInv, TypeOK, Generation, ReservationsAreLive
  <2> QED BY <1>1, <2>1, <2>2, InstallingSteps
<1>2. IInv /\ [Next]_vars =>
        [\A o \in Owner : Installs(o) =>
           ~ (/\ replacementCleanup.generation = activeSession'[o]
              /\ replacementCleanup.state = "PENDING")]_vars
  BY <1>1
<1> QED BY <1>2, Invariance, PTL DEF Spec, CleanupBeforeStart

(* A reload allocates a generation only for a session newer than every     *)
(* acknowledged Stop, whatever happened since reloadAllowed was computed.  *)
THEOREM ReloadAfterStop == Spec => ReloadBeyondStop
<1>1. ASSUME IInv, [Next]_vars, pendingReload' # pendingReload, pendingReload'.owner # NoOwner
      PROVE  reload[pendingReload'.owner].session > acknowledgedStop
  <2>1. PICK o \in Owner : reserveReload(o)
    <3>1. pendingReload' # NoReload
      BY <1>1, NullRecords
    <3> QED
      BY <1>1, <3>1 DEF Next, vars, AcceptGeneration, reserveStop, FenceAt, reserveReplacementStop,
         completeReplacementStop, CloseSession, ClearNetwork, BeginReload, CheckReload, reloadAdmitted,
         AbandonReload, CheckCommitReload, commitReload, DestroyOwner, dispatchReplacementStop,
         commitStart, startAdmitted, ownerAcceptsSession
  <2>2. pendingReload'.owner = o /\ reload[o].stage = "checked"
    BY <2>1 DEF reserveReload
  <2> QED
    BY <1>1, <2>2 DEF IInv, BelowSequence, LockedReload
<1>2. IInv /\ [Next]_vars =>
        [pendingReload' # pendingReload /\ pendingReload'.owner # NoOwner
           => reload[pendingReload'.owner].session > acknowledgedStop]_vars
  BY <1>1
<1> QED BY <1>2, Invariance, PTL DEF Spec, ReloadBeyondStop

=============================================================================
