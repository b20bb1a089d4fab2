--------------------------- MODULE CoreOwnership ----------------------------
(***************************************************************************)
(* Who may set up and close the process-global Go core: CoreProcessOwner-  *)
(* Coordinator, CoreShutdownDispatcher, CoreNativeOperationCoordinator and *)
(* CoreStartupGate, as BoxService.startService, the core step of           *)
(* BoxService.closeSession and Flutter's Setup call use them.              *)
(*                                                                         *)
(* A session is named by its generation; it stays with one service, so the *)
(* owner token of CoreProcessOwnerCoordinator is named by it as well.      *)
(* Start and close run on different threads; every test and every effect   *)
(* that is not under one lock is a step of its own.                        *)
(***************************************************************************)
EXTENDS Integers

CONSTANT MaxGeneration   \* bound on generations

ASSUME CoreBoundAssumption == MaxGeneration \in Nat

VARIABLES
  sequence,      \* VpnSessionCoordinator.sequence
  attached,      \* attached[g]: some service's activeSession is session g
  start,         \* start[g]: how far startService(g) is
  close,         \* close[g]: how far closeSession of g is
  owner,         \* CoreProcessOwnerCoordinator.owner, 0 for null
  core,          \* the generation whose Mobile.setup/start the core runs, 0 for none
  mutex,         \* CoreNativeOperationCoordinator.mutex
  activeClose,   \* CoreShutdownDispatcher.activeClose: the session it closes, 0 for none
  job,           \* how far that close job is
  flutterSetup,  \* how far a Setup call is
  setups         \* history: the generations the core was set up for

vars == <<sequence, attached, start, close, owner, core, mutex, activeClose, job,
          flutterSetup, setups>>

Gen == 1 .. MaxGeneration

StartStage == {"none", "committed", "settled", "checked", "acquired", "queued", "holding",
               "settling", "setup", "starting", "ready", "ended"}
CloseStage == {"open", "closing", "cancelled", "owns", "network", "closed"}
JobStage == {"none", "waiting", "closing", "released", "unlocked"}
SetupStage == {"idle", "settled", "holding"}
Holder == {"nobody", "start", "close", "flutter"}

(* The one type invariant of this module.                                  *)
TypeOK ==
  /\ sequence \in 0 .. MaxGeneration
  /\ attached \in [Gen -> BOOLEAN]
  /\ start \in [Gen -> StartStage]
  /\ close \in [Gen -> CloseStage]
  /\ owner \in 0 .. MaxGeneration
  /\ core \in 0 .. MaxGeneration
  /\ mutex \in Holder
  /\ activeClose \in 0 .. MaxGeneration
  /\ job \in JobStage
  /\ flutterSetup \in SetupStage
  /\ setups \subseteq Gen

Init ==
  /\ sequence = 0
  /\ attached = [g \in Gen |-> FALSE]
  /\ start = [g \in Gen |-> "none"]
  /\ close = [g \in Gen |-> "open"]
  /\ owner = 0
  /\ core = 0
  /\ mutex = "nobody"
  /\ activeClose = 0
  /\ job = "none"
  /\ flutterSetup = "idle"
  /\ setups = {}

isCurrent(g) == g = sequence
acceptsOperations(g) == close[g] = "open"
mayContinue(g) == isCurrent(g) /\ attached[g] /\ acceptsOperations(g)

\* ActiveSession.close cancels the session's scope right after its CAS: from
\* then on startService ends at its next suspension point.
scopeCancelled(g) == close[g] \notin {"open", "closing"}

\* CoreShutdownDispatcher.awaitSettled would return at once.
shutdownSettled == activeClose = 0

-----------------------------------------------------------------------------
(* Sessions *)

accept ==
  /\ sequence < MaxGeneration
  /\ sequence' = sequence + 1
  /\ UNCHANGED <<attached, start, close, owner, core, setups, mutex, activeClose, job, flutterSetup>>

\* A session is committed once no service holds an earlier one.
beginExplicitSession ==
  /\ sequence > 0
  /\ start[sequence] = "none"
  /\ \A g \in Gen : ~attached[g]
  /\ attached' = [attached EXCEPT ![sequence] = TRUE]
  /\ start' = [start EXCEPT ![sequence] = "committed"]
  /\ UNCHANGED <<sequence, close, owner, core, setups, mutex, activeClose, job, flutterSetup>>

\* onDestroy detaches the session at once; its close runs later, elsewhere.
onDestroy(g) ==
  /\ attached[g]
  /\ attached' = [attached EXCEPT ![g] = FALSE]
  /\ UNCHANGED <<sequence, start, close, owner, core, setups, mutex, activeClose, job, flutterSetup>>

-----------------------------------------------------------------------------
(* startService *)

Proceed(g, stage) ==
  /\ start' = [start EXCEPT ![g] = stage]
  /\ UNCHANGED <<sequence, attached, close, activeClose, job, flutterSetup>>

\* The waits for a previous native close (and for its TUN) before any ownership
\* test; a wait that times out, and a cancelled one, ends the start.
awaitPreviousShutdown(g) ==
  /\ start[g] = "committed"
  /\ \/ shutdownSettled /\ ~scopeCancelled(g) /\ Proceed(g, "settled")
     \/ (~shutdownSettled \/ scopeCancelled(g)) /\ Proceed(g, "ended")
  /\ UNCHANGED <<owner, core, setups, mutex>>

checkAfterWait(g) ==
  /\ start[g] = "settled"
  /\ Proceed(g, IF mayContinue(g) THEN "checked" ELSE "ended")
  /\ UNCHANGED <<owner, core, setups, mutex>>

tryAcquire(g) ==
  /\ start[g] = "checked"
  /\ \/ owner \in {0, g} /\ owner' = g /\ Proceed(g, "acquired")
     \/ owner \notin {0, g} /\ UNCHANGED owner /\ Proceed(g, "ended")
  /\ UNCHANGED <<core, setups, mutex>>

\* The hop to the main looper and the network monitor, then the mutex's queue.
queueForNative(g) ==
  /\ start[g] = "acquired"
  /\ Proceed(g, IF scopeCancelled(g) THEN "ended" ELSE "queued")
  /\ UNCHANGED <<owner, core, setups, mutex>>

enterExclusive(g) ==
  /\ start[g] = "queued"
  /\ \/ scopeCancelled(g) /\ Proceed(g, "ended") /\ UNCHANGED mutex
     \/ ~scopeCancelled(g) /\ mutex = "nobody" /\ mutex' = "start" /\ Proceed(g, "holding")
  /\ UNCHANGED <<owner, core, setups>>

\* Leaving the critical section, superseded, failed, timed out or ready.
LeaveExclusive(g, stage) == mutex' = "nobody" /\ Proceed(g, stage)

checkSkipped(g) ==   \* mutant: the session is not tested again inside the mutex
  /\ start[g] = "holding"
  /\ Proceed(g, "settling")
  /\ UNCHANGED <<owner, core, mutex, setups>>

checkInExclusive(g) ==
  /\ start[g] = "holding"
  /\ \/ mayContinue(g) /\ Proceed(g, "settling") /\ UNCHANGED mutex
     \/ ~mayContinue(g) /\ LeaveExclusive(g, "ended")
  /\ UNCHANGED <<owner, core, setups>>

\* awaitSettled while the mutex is held, and Mobile.setup if it settles.  The
\* wait is bounded: it may give up whenever it has to wait.
Setup(g) ==
  /\ start[g] = "settling"
  /\ \/ shutdownSettled /\ ~scopeCancelled(g)
        /\ core' = g /\ setups' = setups \cup {g} /\ Proceed(g, "setup") /\ UNCHANGED mutex
     \/ (~shutdownSettled \/ scopeCancelled(g))
        /\ LeaveExclusive(g, "ended") /\ UNCHANGED <<core, setups>>
  /\ UNCHANGED owner

checkAfterSetup(g) ==
  /\ start[g] = "setup"
  /\ \/ mayContinue(g) /\ Proceed(g, "starting") /\ UNCHANGED mutex
     \/ LeaveExclusive(g, "ended")     \* superseded, or setup threw
  /\ UNCHANGED <<owner, core, setups>>

\* CoreStartupGate.awaitReady: start the core, then probe its endpoint until it
\* answers, the attempts run out, the generation changes or the scope ends.
awaitReady(g) ==
  /\ start[g] = "starting"
  /\ \/ isCurrent(g) /\ ~scopeCancelled(g) /\ LeaveExclusive(g, "ready")
     \/ LeaveExclusive(g, "ended")
  /\ UNCHANGED <<owner, core, setups>>

-----------------------------------------------------------------------------
(* closeSession *)

Closing(g, stage) ==
  /\ close' = [close EXCEPT ![g] = stage]
  /\ UNCHANGED <<sequence, start, owner, core, setups, mutex, flutterSetup>>

\* A stop, a failed start, a superseding start or onDestroy closes the session.
closeSession(g) ==
  /\ start[g] # "none"
  /\ close[g] = "open"
  /\ Closing(g, "closing")
  /\ UNCHANGED <<attached, activeClose, job>>

cancelScope(g) ==
  /\ close[g] = "closing"
  /\ Closing(g, "cancelled")
  /\ UNCHANGED <<attached, activeClose, job>>

closeAnyway(g) ==   \* mutant: ownership is not tested
  /\ close[g] = "cancelled"
  /\ Closing(g, "owns")
  /\ UNCHANGED <<attached, activeClose, job>>

\* The core step only closes a core this session owns at this moment.
testOwns(g) ==
  /\ close[g] = "cancelled"
  /\ Closing(g, IF owner = g THEN "owns" ELSE "network")
  /\ UNCHANGED <<attached, activeClose, job>>

closesNext(g) == g + 1   \* mutant: the counter is captured instead of the session's generation

\* The generation the native close is bound to.
closesSession(g) == g

\* CoreShutdownDispatcher.close: a job that is running is joined, and then this
\* session's own native close is not run.  The core step waits for the job or for
\* its time limit, so that the close may go on at any moment.
dispatchClose(g) ==
  /\ close[g] = "owns"
  /\ Closing(g, "network")
  /\ \/ /\ activeClose = 0
        /\ activeClose' = closesSession(g)
        /\ job' = "waiting"
     \/ /\ activeClose # 0
        /\ UNCHANGED <<activeClose, job>>
  /\ UNCHANGED attached

\* The last step: the service forgets the session.
clearNetwork(g) ==
  /\ close[g] = "network"
  /\ Closing(g, "closed")
  /\ attached' = [attached EXCEPT ![g] = FALSE]
  /\ UNCHANGED <<activeClose, job>>

-----------------------------------------------------------------------------
(* The close job of CoreShutdownDispatcher *)

JobStep(stage) ==
  /\ job' = stage
  /\ UNCHANGED <<sequence, attached, start, close, flutterSetup>>

jobEntersReleasing ==   \* mutant: the owner is released before the native close
  /\ job = "waiting" /\ mutex = "nobody"
  /\ mutex' = "close"
  /\ owner' = 0
  /\ JobStep("closing")
  /\ UNCHANGED <<core, setups, activeClose>>

jobEntersUnlocked ==   \* mutant: the native close does not take the mutex
  /\ job = "waiting"
  /\ JobStep("closing")
  /\ UNCHANGED <<owner, core, setups, mutex, activeClose>>

jobEnters ==
  /\ job = "waiting" /\ mutex = "nobody"
  /\ mutex' = "close"
  /\ JobStep("closing")
  /\ UNCHANGED <<owner, core, setups, activeClose>>

mobileClose ==
  /\ job = "closing"
  /\ core' = 0
  /\ JobStep("released")
  /\ UNCHANGED <<owner, mutex, activeClose, setups>>

\* CoreProcessOwnerCoordinator.release, in a finally block.
release ==
  /\ job = "released"
  /\ owner' = IF owner = activeClose THEN 0 ELSE owner
  /\ JobStep("unlocked")
  /\ mutex' = "nobody"
  /\ UNCHANGED <<core, setups, activeClose>>

jobCompletes ==
  /\ job = "unlocked"
  /\ activeClose' = 0
  /\ JobStep("none")
  /\ UNCHANGED <<owner, core, setups, mutex>>

-----------------------------------------------------------------------------
(* Flutter's Setup call: the foreground core, same mutex, no owner *)

FlutterStep(stage) ==
  /\ flutterSetup' = stage
  /\ UNCHANGED <<sequence, attached, start, close, owner, core, setups, activeClose, job>>

setupSettles == flutterSetup = "idle" /\ shutdownSettled /\ UNCHANGED mutex /\ FlutterStep("settled")
setupEnters == flutterSetup = "settled" /\ mutex = "nobody" /\ mutex' = "flutter" /\ FlutterStep("holding")

setupNeverGivesUp ==   \* mutant: the second wait has no time limit
  flutterSetup = "holding" /\ shutdownSettled /\ mutex' = "nobody" /\ FlutterStep("idle")

\* Mobile.setup, or the second awaitSettled gave up on a close that waits for
\* the mutex this call is holding.
setupLeaves == flutterSetup = "holding" /\ mutex' = "nobody" /\ FlutterStep("idle")

-----------------------------------------------------------------------------
StartStep(g) ==
  \/ awaitPreviousShutdown(g) \/ checkAfterWait(g) \/ tryAcquire(g) \/ queueForNative(g)
  \/ enterExclusive(g) \/ checkInExclusive(g) \/ Setup(g) \/ checkAfterSetup(g) \/ awaitReady(g)

CloseStep(g) ==
  cancelScope(g) \/ testOwns(g) \/ dispatchClose(g) \/ clearNetwork(g)

CloseJob == jobEnters \/ mobileClose \/ release \/ jobCompletes

Next ==
  \/ accept
  \/ beginExplicitSession
  \/ \E g \in Gen : onDestroy(g) \/ closeSession(g) \/ StartStep(g) \/ CloseStep(g)
  \/ CloseJob
  \/ setupSettles \/ setupEnters \/ setupLeaves

\* Coroutines on the IO dispatcher get a thread, and the native close returns.
\* Weak fairness is enough for the mutex: each start takes it once, and Setup
\* not again while a close job is running.
Fairness == WF_vars(\E g \in Gen : StartStep(g)) /\ WF_vars(setupLeaves) /\ WF_vars(CloseJob)

Spec == Init /\ [][Next]_vars /\ Fairness

-----------------------------------------------------------------------------
(* Properties *)

\* The core is set up for a generation only after the core of every earlier one
\* was natively closed, also when that close outlived its time limit.
SetupAfterClose == [][core' # core /\ core' # 0 => core = 0]_vars

\* A native close takes down only the core of the session it was asked to close:
\* a close that was delayed past its session never hits the next session's core.
CloseHitsOwnCore == [][core' = 0 /\ core # 0 => core = activeClose]_vars

\* A core that is set up has its owner recorded: a released owner (which is what
\* lets DISCONNECTED be published) means the native core is down.
CoreIsOwned == core # 0 => owner = core

\* No native close runs between the second test of a start and its readiness:
\* Mobile.setup and Mobile.start are never interleaved with Mobile.close.
NoCloseDuringStart ==
  (\E g \in Gen : start[g] \in {"setup", "starting"}) => job \in {"none", "waiting", "unlocked"}

\* A close job always gets the native mutex and ends, although a start and
\* Flutter's Setup wait for that very job while they hold the mutex.
CloseJobEnds == (activeClose # 0) ~> (activeClose = 0)

\* Core ownership never outlives the session that must release it: an owner's
\* core step is still to come, or its own close job is running.
OwnerHasCloser ==
  owner # 0 => close[owner] \in {"open", "closing", "cancelled", "owns"} \/ activeClose = owner

\* The recorded owner as the claim of a resource the sessions take turns with.
Resource == INSTANCE SessionResource
  WITH Sessions <- Gen, claimed <- {owner} \ {0}, using <- {core} \ {0}, served <- setups

\* The core is handed from session to session in the order of their generations,
\* once to each: a start that was overtaken while it waited never sets up the
\* core again behind a newer session, whether that one still runs or has ended.
ImplementsSessionResource == Resource!Spec
=============================================================================
