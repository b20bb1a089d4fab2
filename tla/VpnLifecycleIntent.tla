------------------------- MODULE VpnLifecycleIntent -------------------------
(***************************************************************************)
(* The process-wide generation counter (VpnSessionCoordinator) and the     *)
(* lock that serializes lifecycle intents (VpnLifecycleIntentCoordinator), *)
(* with the commit and detach callbacks BoxService passes to it.           *)
(*                                                                         *)
(* Threads.  Everything that runs on Android's main looper is one step.    *)
(* serviceReload0 runs on another thread: its two critical sections read   *)
(* the generation counter and act on it in separate steps, because the     *)
(* main looper advances the counter (accept) without taking the lock.      *)
(***************************************************************************)
EXTENDS Integers

CONSTANTS Owner,          \* BoxService instances alive in the process
          NoOwner,        \* the null owner token
          MaxGeneration   \* bound on the generations a behaviour allocates

ASSUME NoOwnerAssumption == NoOwner \notin Owner
ASSUME MaxGenerationAssumption == MaxGeneration \in Nat

VARIABLES
  sequence,              \* VpnSessionCoordinator.sequence
  latestStopGeneration,  \* the terminal Stop fence
  pendingReload,         \* the reload that may still commit, or NoReload
  replacementCleanup,    \* the same-generation cleanup before a Start, or NoCleanup
  lock,                  \* the off-main reload inside the lock, or NoOwner
  activeSession,         \* activeSession[o]: generation of o's ActiveSession, 0 for null
  closing,               \* closing[o]: that session's AtomicBoolean `closing`
  ownerDestroyed,        \* ownerDestroyed[o]
  reload,                \* reload[o]: locals of o's serviceReload0
  acknowledgedStop       \* history: highest generation returned to a Stop caller

vars == <<sequence, latestStopGeneration, pendingReload, replacementCleanup, lock,
          activeSession, closing, ownerDestroyed, reload, acknowledgedStop>>

Generation == 0 .. MaxGeneration
CleanupState == {"NONE", "PENDING", "COMPLETED", "CONSUMED"}
ReloadStage == {"idle", "requested", "checked", "reserved", "committing"}

NoReload == [owner |-> NoOwner, generation |-> 0]
NoCleanup == [generation |-> 0, state |-> "NONE"]
Idle == [stage |-> "idle", session |-> 0, generation |-> 0]

(* One type invariant: every generation stays below the bound, null tokens *)
(* and null generations included.                                          *)
TypeOK ==
  /\ sequence \in Generation
  /\ latestStopGeneration \in Generation
  /\ acknowledgedStop \in Generation
  /\ pendingReload \in [owner : Owner \cup {NoOwner}, generation : Generation]
  /\ replacementCleanup \in [generation : Generation, state : CleanupState]
  /\ lock \in Owner \cup {NoOwner}
  /\ activeSession \in [Owner -> Generation]
  /\ closing \in [Owner -> BOOLEAN]
  /\ ownerDestroyed \in [Owner -> BOOLEAN]
  /\ reload \in [Owner -> [stage : ReloadStage, session : Generation, generation : Generation]]

Init ==
  /\ sequence = 0
  /\ latestStopGeneration = 0
  /\ acknowledgedStop = 0
  /\ pendingReload = NoReload
  /\ replacementCleanup = NoCleanup
  /\ lock = NoOwner
  /\ activeSession = [o \in Owner |-> 0]
  /\ closing = [o \in Owner |-> FALSE]
  /\ ownerDestroyed = [o \in Owner |-> FALSE]
  /\ reload = [o \in Owner |-> Idle]

-----------------------------------------------------------------------------
(* VpnSessionCoordinator *)

Larger(a, b) == IF a > b THEN a ELSE b

isCurrent(g) == g > 0 /\ g = sequence

nextWithoutIncrement == sequence   \* mutant: get for incrementAndGet

next == sequence + 1

nextAfter(requested) == Larger(sequence + 1, requested)

acceptDecrements(requested) ==   \* mutant: decrementAndGet for incrementAndGet
  IF requested <= 0 THEN sequence - 1 ELSE Larger(requested, sequence)

\* The value accept returns, which is also the counter's new value: a stale
\* request leaves the counter alone and is answered with the current one.
accept(requested) == IF requested <= 0 THEN next ELSE Larger(requested, sequence)

\* PrepareVpn, SetSessionGeneration, MainActivity.startService, onStartCommand
\* and the tile, boot and shortcut starts (requested = 0) on the main looper:
\* none of them takes the lifecycle lock.
AcceptGeneration(requested) ==
  /\ accept(requested) <= MaxGeneration
  /\ sequence' = accept(requested)
  /\ UNCHANGED <<latestStopGeneration, pendingReload, replacementCleanup, lock,
                 activeSession, closing, ownerDestroyed, reload, acknowledgedStop>>

-----------------------------------------------------------------------------
(* Stop *)

\* The generation reserveStop returns, 0 for the null of a stale request.
stopGeneration(requested, preemptive) ==
  IF preemptive THEN nextAfter(requested)
  ELSE IF requested > 0 /\ requested < sequence THEN 0
  ELSE accept(requested)

FenceKeepsReload(generation) ==   \* mutant: a Stop does not withdraw the pending reload
  /\ sequence' = generation
  /\ latestStopGeneration' = Larger(latestStopGeneration, generation)
  /\ pendingReload' = pendingReload
  /\ replacementCleanup' = NoCleanup
  /\ acknowledgedStop' = Larger(acknowledgedStop, generation)

\* What every accepted Stop does under the lock.
FenceAt(generation) ==
  /\ sequence' = generation
  /\ latestStopGeneration' = Larger(latestStopGeneration, generation)
  /\ pendingReload' = NoReload
  /\ replacementCleanup' = NoCleanup
  /\ acknowledgedStop' = Larger(acknowledgedStop, generation)

reserveStop(requested, preemptive) ==
  LET generation == stopGeneration(requested, preemptive)
  IN  /\ lock = NoOwner
      /\ generation \in 1 .. MaxGeneration
      /\ FenceAt(generation)
      /\ UNCHANGED <<lock, activeSession, closing, ownerDestroyed, reload>>

\* closeSession's first CAS: a stop, a failed start, a superseding connect.
CloseSession(o) ==
  /\ activeSession[o] > 0
  /\ ~closing[o]
  /\ closing' = [closing EXCEPT ![o] = TRUE]
  /\ UNCHANGED <<sequence, latestStopGeneration, pendingReload, replacementCleanup, lock,
                 activeSession, ownerDestroyed, reload, acknowledgedStop>>

\* closeSession's last step clears the owner's reference to that session.
ClearNetwork(o) ==
  /\ activeSession[o] > 0
  /\ closing[o]
  /\ activeSession' = [activeSession EXCEPT ![o] = 0]
  /\ closing' = [closing EXCEPT ![o] = FALSE]
  /\ UNCHANGED <<sequence, latestStopGeneration, pendingReload, replacementCleanup, lock,
                 ownerDestroyed, reload, acknowledgedStop>>

-----------------------------------------------------------------------------
(* Same-generation cleanup before a replacement Start *)

reserveReplacementStop(generation) ==
  /\ lock = NoOwner
  /\ generation > latestStopGeneration
  /\ isCurrent(generation)
  /\ replacementCleanup.generation < generation
  /\ pendingReload' = NoReload
  /\ replacementCleanup' = [generation |-> generation, state |-> "PENDING"]
  /\ UNCHANGED <<sequence, latestStopGeneration, lock, activeSession, closing,
                 ownerDestroyed, reload, acknowledgedStop>>

replacementStopNeedsFallback(generation) ==
  /\ replacementCleanup.generation = generation
  /\ replacementCleanup.state = "PENDING"
  /\ generation > latestStopGeneration
  /\ isCurrent(generation)

\* receiveStop(REPLACEMENT) on one owner: only an older session is closed.
dispatchReplacementStop(o, generation) ==
  /\ lock = NoOwner
  /\ replacementStopNeedsFallback(generation)
  /\ activeSession[o] \in 1 .. generation - 1
  /\ ~closing[o]
  /\ closing' = [closing EXCEPT ![o] = TRUE]
  /\ UNCHANGED <<sequence, latestStopGeneration, pendingReload, replacementCleanup, lock,
                 activeSession, ownerDestroyed, reload, acknowledgedStop>>

\* publishTerminalIfOwnersSettled(REPLACEMENT): DISCONNECTED is published and
\* the cleanup completed in one critical section, once nobody owns a session.
completeReplacementStop(generation) ==
  /\ lock = NoOwner
  /\ \A o \in Owner : activeSession[o] = 0
  /\ replacementStopNeedsFallback(generation)
  /\ replacementCleanup' = [replacementCleanup EXCEPT !.state = "COMPLETED"]
  /\ UNCHANGED <<sequence, latestStopGeneration, pendingReload, lock, activeSession,
                 closing, ownerDestroyed, reload, acknowledgedStop>>

-----------------------------------------------------------------------------
(* Explicit Start *)

startPastStop(generation) ==   \* mutant: the Stop fence is not tested
  /\ isCurrent(generation)
  /\ replacementCleanup.generation = generation => replacementCleanup.state = "COMPLETED"

startBeforeCleanup(generation) ==   \* mutant: the cleanup's state is not tested
  /\ generation > latestStopGeneration
  /\ isCurrent(generation)

\* commitStart's own tests.
startAdmitted(generation) ==
  /\ generation > latestStopGeneration
  /\ isCurrent(generation)
  /\ replacementCleanup.generation = generation => replacementCleanup.state = "COMPLETED"

ownerAcceptsAnything(o) == activeSession[o] = 0   \* mutant: ownerDestroyed is not tested

\* beginExplicitSession's test, inside the commit callback.
ownerAcceptsSession(o) == ~ownerDestroyed[o] /\ activeSession[o] = 0

\* commitStart with beginExplicitSession's callback.  The callback's refusal
\* (a destroyed owner, or one that still has a session) happens after the
\* pending reload was dropped.
commitStart(o, generation) ==
  /\ lock = NoOwner
  /\ startAdmitted(generation)
  /\ pendingReload' = NoReload
  /\ \/ /\ ownerAcceptsSession(o)
        /\ activeSession' = [activeSession EXCEPT ![o] = generation]
        /\ closing' = [closing EXCEPT ![o] = FALSE]
        /\ replacementCleanup' = IF replacementCleanup.generation = generation
                                 THEN [replacementCleanup EXCEPT !.state = "CONSUMED"]
                                 ELSE NoCleanup
     \/ /\ ~ownerAcceptsSession(o)
        /\ UNCHANGED <<activeSession, closing, replacementCleanup>>
  /\ UNCHANGED <<sequence, latestStopGeneration, lock, ownerDestroyed, reload, acknowledgedStop>>

-----------------------------------------------------------------------------
(* Internal reload: serviceReload0, off the main looper *)

\* serviceReload0 up to the lock: reloadAllowed is evaluated on a session that
\* may be closed or superseded before the lock is taken.
BeginReload(o) ==
  /\ reload[o].stage = "idle"
  /\ activeSession[o] > 0
  /\ ~closing[o]
  /\ reload' = [reload EXCEPT ![o] = [Idle EXCEPT !.stage = "requested", !.session = activeSession[o]]]
  /\ UNCHANGED <<sequence, latestStopGeneration, pendingReload, replacementCleanup, lock,
                 activeSession, closing, ownerDestroyed, acknowledgedStop>>

reloadPastStop(o) == ~ownerDestroyed[o] /\ isCurrent(reload[o].session)   \* mutant: no fence

reloadAdmitted(o) ==
  /\ ~ownerDestroyed[o]
  /\ reload[o].session > latestStopGeneration
  /\ isCurrent(reload[o].session)

\* reserveReload's tests; the lock stays held when they pass.
CheckReload(o) ==
  /\ reload[o].stage = "requested"
  /\ lock = NoOwner
  /\ \/ /\ reloadAdmitted(o)
        /\ lock' = o
        /\ reload' = [reload EXCEPT ![o].stage = "checked"]
     \/ /\ ~reloadAdmitted(o)
        /\ reload' = [reload EXCEPT ![o] = Idle]
        /\ UNCHANGED lock
  /\ UNCHANGED <<sequence, latestStopGeneration, pendingReload, replacementCleanup,
                 activeSession, closing, ownerDestroyed, acknowledgedStop>>

\* reserveReload's allocation, then closeSession(previousSession) starts.
reserveReload(o) ==
  /\ reload[o].stage = "checked"
  /\ lock = o
  /\ next <= MaxGeneration
  /\ sequence' = next
  /\ pendingReload' = [owner |-> o, generation |-> next]
  /\ replacementCleanup' = NoCleanup
  /\ lock' = NoOwner
  /\ closing' = [closing EXCEPT ![o] = @ \/ activeSession[o] = reload[o].session]
  /\ reload' = [reload EXCEPT ![o].stage = "reserved", ![o].generation = next]
  /\ UNCHANGED <<latestStopGeneration, activeSession, ownerDestroyed, acknowledgedStop>>

\* The previous TUN did not settle in time: the reload becomes a Stop.
AbandonReload(o) ==
  /\ reload[o].stage = "reserved"
  /\ lock = NoOwner
  /\ nextAfter(reload[o].generation) <= MaxGeneration
  /\ FenceAt(nextAfter(reload[o].generation))
  /\ reload' = [reload EXCEPT ![o] = Idle]
  /\ UNCHANGED <<lock, activeSession, closing, ownerDestroyed>>

OwnsReload(o) ==
  pendingReload = [owner |-> o, generation |-> reload[o].generation]

\* commitReload's tests; a refused reload withdraws its own reservation.
CheckCommitReload(o) ==
  LET admitted == /\ OwnsReload(o)
                  /\ reload[o].generation > latestStopGeneration
                  /\ isCurrent(reload[o].generation)
  IN  /\ reload[o].stage = "reserved"
      /\ lock = NoOwner
      /\ \/ /\ admitted
            /\ lock' = o
            /\ reload' = [reload EXCEPT ![o].stage = "committing"]
            /\ UNCHANGED pendingReload
         \/ /\ ~admitted
            /\ pendingReload' = IF OwnsReload(o) THEN NoReload ELSE pendingReload
            /\ reload' = [reload EXCEPT ![o] = Idle]
            /\ UNCHANGED lock
      /\ UNCHANGED <<sequence, latestStopGeneration, replacementCleanup, activeSession,
                     closing, ownerDestroyed, acknowledgedStop>>

\* commitReload's callback and the release of the lock.  The previous session
\* is overwritten even if its bounded close has not cleared it yet.
commitReload(o) ==
  /\ reload[o].stage = "committing"
  /\ lock = o
  /\ IF ownerDestroyed[o]
     THEN UNCHANGED <<activeSession, closing, replacementCleanup>>
     ELSE /\ activeSession' = [activeSession EXCEPT ![o] = reload[o].generation]
          /\ closing' = [closing EXCEPT ![o] = FALSE]
          /\ replacementCleanup' = NoCleanup
  /\ pendingReload' = NoReload
  /\ lock' = NoOwner
  /\ reload' = [reload EXCEPT ![o] = Idle]
  /\ UNCHANGED <<sequence, latestStopGeneration, ownerDestroyed, acknowledgedStop>>

-----------------------------------------------------------------------------
(* Service destruction *)

\* onDestroy: detach the session under the lock, withdraw the owner's pending
\* reload, and, unless a terminal state is already known (terminalKnown), fence
\* the generation this owner was running if it is still the current one.
DestroyOwner(o, terminalKnown) ==
  LET own == pendingReload.owner = o
      expected == Larger(activeSession[o], IF own THEN pendingReload.generation ELSE 0)
      fences == ~terminalKnown /\ isCurrent(expected)
  IN  /\ lock = NoOwner
      /\ ~ownerDestroyed[o]
      /\ ownerDestroyed' = [ownerDestroyed EXCEPT ![o] = TRUE]
      /\ activeSession' = [activeSession EXCEPT ![o] = 0]
      /\ closing' = [closing EXCEPT ![o] = FALSE]
      /\ \/ /\ fences
            /\ next <= MaxGeneration
            /\ FenceAt(next)
         \/ /\ ~fences
            /\ pendingReload' = IF own THEN NoReload ELSE pendingReload
            /\ UNCHANGED <<sequence, latestStopGeneration, replacementCleanup, acknowledgedStop>>
      /\ UNCHANGED <<lock, reload>>

-----------------------------------------------------------------------------
Next ==
  \/ \E g \in Generation :
       \/ AcceptGeneration(g)
       \/ \E p \in BOOLEAN : reserveStop(g, p)
       \/ reserveReplacementStop(g)
       \/ completeReplacementStop(g)
  \/ \E o \in Owner :
       \/ CloseSession(o)
       \/ ClearNetwork(o)
       \/ BeginReload(o)
       \/ CheckReload(o)
       \/ reserveReload(o)
       \/ AbandonReload(o)
       \/ CheckCommitReload(o)
       \/ commitReload(o)
       \/ \E t \in BOOLEAN : DestroyOwner(o, t)
       \/ \E g \in Generation : dispatchReplacementStop(o, g) \/ commitStart(o, g)

Spec == Init /\ [][Next]_vars

-----------------------------------------------------------------------------
(* Properties *)

\* The step installs a session on owner o.
Installs(o) == activeSession'[o] # activeSession[o] /\ activeSession'[o] > 0

\* A Stop that was acknowledged is terminal: whatever starts, reloads and
\* generation updates were in flight when reserveStop answered, no session is
\* installed afterwards unless its generation is beyond the answered one.
StopIsTerminal ==
  [][\A o \in Owner : Installs(o) => activeSession'[o] > acknowledgedStop]_vars

\* No session is installed while the cleanup reserved for its own generation is
\* pending, on the Start path (which tests the cleanup) and on the reload path
\* (which does not): the late DISCONNECTED of reserveReplacementStop cannot
\* follow the STARTING of the session it made room for.
CleanupBeforeStart ==
  [][\A o \in Owner : Installs(o) =>
       ~ (/\ replacementCleanup.generation = activeSession'[o]
          /\ replacementCleanup.state = "PENDING")]_vars

\* Once destroyOwner has detached a service, no start or reload that was already
\* past its own checks can give that service a session nobody would close.
DestroyedOwnersHoldNothing ==
  \A o \in Owner : ownerDestroyed[o] => activeSession[o] = 0

\* A reload only allocates a generation for a session newer than every
\* acknowledged Stop, although reloadAllowed was computed before the lock.
ReloadBeyondStop ==
  [][pendingReload' # pendingReload /\ pendingReload'.owner # NoOwner
       => reload[pendingReload'.owner].session > acknowledgedStop]_vars

\* A reload that may still commit is newer than every installed session, even
\* when an explicit Connect was given the very number the reload had reserved.
ReloadYieldsToConnect ==
  pendingReload.owner # NoOwner =>
    \A o \in Owner : activeSession[o] < pendingReload.generation

-----------------------------------------------------------------------------
(* The inductive invariant behind the properties above *)

\* Nothing the coordinator remembers is ahead of the generation counter.
BelowSequence ==
  /\ acknowledgedStop = latestStopGeneration
  /\ latestStopGeneration <= sequence
  /\ pendingReload.generation <= sequence
  /\ replacementCleanup.generation <= sequence
  /\ \A o \in Owner : activeSession[o] <= sequence

\* A reservation that survives is beyond the Stop fence and was made by a
\* service that is still alive.
ReservationsAreLive ==
  pendingReload.owner # NoOwner =>
    /\ pendingReload.generation > latestStopGeneration
    /\ replacementCleanup.generation < pendingReload.generation
    /\ ~ownerDestroyed[pendingReload.owner]

\* What a reload that holds the lock has established about itself.
LockedReload ==
  /\ \A o \in Owner : reload[o].stage \in {"checked", "committing"} => lock = o
  /\ \A o \in Owner : reload[o].stage = "checked" =>
       /\ reload[o].session > latestStopGeneration
       /\ ~ownerDestroyed[o]
  /\ \A o \in Owner : reload[o].stage = "committing" =>
       /\ OwnsReload(o)
       /\ reload[o].generation > latestStopGeneration

\* The inductive invariant: what TLC checks here is what the proofs use.
IInv ==
  /\ TypeOK
  /\ BelowSequence
  /\ ReservationsAreLive
  /\ LockedReload
  /\ DestroyedOwnersHoldNothing
  /\ ReloadYieldsToConnect
=============================================================================
