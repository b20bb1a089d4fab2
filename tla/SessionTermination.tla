------------------------ MODULE SessionTermination --------------------------
(***************************************************************************)
(* BoxService from a Start to the terminal state Flutter and the           *)
(* notification are shown: the published snapshot, the LiveData status,    *)
(* the start pipeline, Stop with its dispatches, its clean-up job, its     *)
(* fallback probe and the settlement probe, failed starts, onDestroy.      *)
(*                                                                         *)
(* One service instance at a time (the process-wide registers that guard   *)
(* several are in TunOwnership and CoreOwnership); it may be destroyed at  *)
(* any moment and created again by a Start.  A session is named by its     *)
(* generation.  `held` abstracts the process-wide core and TUN registers.  *)
(***************************************************************************)
EXTENDS Integers

CONSTANTS MaxGeneration,   \* bound on generations and repeated Stops together
          MaxConnect,      \* bound on both for a Connect
          MaxStop          \* bound on both for a Stop of the user

ASSUME TerminationBoundAssumption ==
  MaxGeneration \in Nat /\ MaxConnect \in Nat /\ MaxStop \in Nat

VARIABLES
  sequence, latestStopGeneration,   \* the generation counter and the Stop fence
  repeatedStops,      \* Stops that took no generation of their own, so far
  starts,             \* generations whose start intent is not delivered yet
  alive,              \* the service exists and is not destroyed
  session,            \* generation of activeSession, 0 for null
  sessionGeneration, terminalStop,  \* BoxService fields; terminalStop's generation
  status, posted,     \* LiveData status; its pending postValue, or "none"
  receiver,           \* receiverRegistered
  life,               \* life[g]: "none", "open", "closing" or "closed"
  held,               \* generations that own the core or the TUN
  late,               \* those that took the core when their session's close had begun
  leaked,             \* those of them that came after the close's test of ownership
  pipeline,           \* pipeline[g]: how far startService(g) is
  confirm,            \* confirm[g]: how far a confirmCoreStarted(g) is
  gone,               \* generations that ran on a service that is destroyed
  struck,             \* history: sessions that the failure of an older start has closed
  snapshot,           \* VpnSessionSnapshotCoordinator.authoritative
  stopJobs,           \* sessions whose stopService clean-up is running (0: no session)
  replaceJobs,        \* Starts that wait for an older session to close
  direct, broadcast,  \* Stop dispatches in flight
  probe,              \* probe[g]: the fallback probe of the Stop g
  settleProbe,        \* a settlement probe is posted
  destroyJobs, destroyPosts  \* onDestroy: close job, posted terminal publication

counterVars == <<sequence, latestStopGeneration, repeatedStops, starts>>
fieldVars == <<alive, session, sessionGeneration, terminalStop>>
statusVars == <<status, posted, receiver>>
serviceVars == <<fieldVars, statusVars>>
coreVars == <<held, late, leaked>>
historyVars == <<gone, struck>>
runVars == <<life, coreVars, pipeline, confirm, historyVars>>
jobVars == <<stopJobs, replaceJobs>>
postVars == <<direct, broadcast, probe, settleProbe, destroyJobs, destroyPosts>>
vars == <<counterVars, serviceVars, runVars, snapshot, jobVars, postVars>>

Gen == 1 .. MaxGeneration
Status == {"Stopped", "Starting", "CoreReady", "Started", "Stopping"}
Phase == {"IDLE", "STARTING_PLATFORM", "STARTING_CORE", "WAITING_TUN", "VERIFYING", "CONNECTED",
          "STOPPING", "DISCONNECTED", "FAILED"}
Evidence == {"core", "tun", "started", "outbound"}

\* startService and confirmCoreStarted run off the main looper: a state of its own
\* lies between each test and the effect that follows it.
Pipeline == {"none", "begun", "checked", "starting", "core", "tested", "acquired", "answered",
             "verified", "ready", "running", "alert", "failed", "ended"}
Confirmation == {"idle", "gated", "verifying", "unproven", "alert", "failed", "closing"}

(* The one type invariant of this module.                                  *)
TypeOK ==
  /\ sequence \in 0 .. MaxGeneration /\ latestStopGeneration \in 0 .. MaxGeneration
  /\ repeatedStops \in 0 .. MaxGeneration
  /\ starts \subseteq Gen
  /\ alive \in BOOLEAN /\ receiver \in BOOLEAN /\ settleProbe \in BOOLEAN
  /\ session \in 0 .. MaxGeneration
  /\ sessionGeneration \in 0 .. MaxGeneration /\ terminalStop \in 0 .. MaxGeneration
  /\ status \in Status /\ posted \in Status \cup {"none"}
  /\ life \in [Gen -> {"none", "open", "closing", "closed"}]
  /\ held \subseteq Gen /\ late \subseteq held /\ leaked \subseteq late
  /\ pipeline \in [Gen -> Pipeline]
  /\ confirm \in [Gen -> Confirmation]
  /\ gone \subseteq Gen /\ struck \subseteq Gen
  /\ snapshot \in [generation : 0 .. MaxGeneration, phase : Phase, stop : BOOLEAN,
                   evidence : SUBSET Evidence]
  /\ stopJobs \subseteq 0 .. MaxGeneration
  /\ replaceJobs \subseteq Gen
  /\ direct \subseteq Gen /\ broadcast \subseteq Gen
  /\ probe \in [Gen -> {"none", "delayed", "polling"}]
  /\ destroyJobs \subseteq (Gen \X (0 .. MaxGeneration)) /\ destroyPosts \subseteq Gen

Fresh(g) == [generation |-> g, phase |-> "IDLE", stop |-> FALSE, evidence |-> {}]

Init ==
  /\ sequence = 0 /\ latestStopGeneration = 0 /\ repeatedStops = 0
  /\ starts = {}
  /\ alive = FALSE /\ session = 0 /\ sessionGeneration = 0 /\ terminalStop = 0
  /\ status = "Stopped" /\ posted = "none" /\ receiver = FALSE
  /\ life = [g \in Gen |-> "none"]
  /\ held = {} /\ late = {} /\ leaked = {}
  /\ pipeline = [g \in Gen |-> "none"]
  /\ confirm = [g \in Gen |-> "idle"]
  /\ gone = {} /\ struck = {}
  /\ snapshot = Fresh(0)
  /\ stopJobs = {} /\ replaceJobs = {}
  /\ direct = {} /\ broadcast = {} /\ probe = [g \in Gen |-> "none"]
  /\ settleProbe = FALSE /\ destroyJobs = {} /\ destroyPosts = {}

\* The bounds of the model: on everything, and on a Stop that somebody asks for.
WithinBound == sequence + repeatedStops < MaxGeneration
MayAskToStop == WithinBound /\ sequence + repeatedStops < MaxStop

isCurrent(g) == g > 0 /\ g = sequence
acceptsOperations(g) == life[g] = "open"
mayContinue(g) == isCurrent(g) /\ session = g /\ acceptsOperations(g)

-----------------------------------------------------------------------------
(* VpnSessionSnapshotCoordinator: an update of an older generation is       *)
(* ignored, one of a newer generation starts from an empty snapshot.        *)

update(g, phase, stop, add) ==
  LET base == IF g > snapshot.generation THEN Fresh(g) ELSE snapshot
  IN  IF g < snapshot.generation THEN snapshot
      ELSE [base EXCEPT !.phase = phase, !.stop = @ \/ stop, !.evidence = @ \cup add]

transition(g, phase) == update(g, phase, FALSE, {})
requestStop(g) == update(g, "STOPPING", TRUE, {})
begin(g) == IF g < snapshot.generation THEN snapshot
            ELSE [Fresh(g) EXCEPT !.phase = "STARTING_PLATFORM"]

\* Mutant: the terminal state is published for the next generation.
publishDisconnectedNext(g) ==
  [generation |-> g + 1, phase |-> "DISCONNECTED", stop |-> TRUE, evidence |-> {}]

publishDisconnected(g) ==
  IF g < snapshot.generation THEN snapshot
  ELSE [generation |-> g, phase |-> "DISCONNECTED", stop |-> TRUE, evidence |-> {}]

provesConnected(s) == s.phase = "CONNECTED" /\ s.evidence = Evidence

\* The phase startService publishes when the endpoint has answered.
phaseToPublish == [answered |-> "WAITING_TUN", verified |-> "VERIFYING"]

phaseAfterCommandEndpointReady ==
  IF snapshot.phase \in {"VERIFYING", "CONNECTED"} THEN snapshot.phase ELSE "WAITING_TUN"

-----------------------------------------------------------------------------
(* Terminal publication *)

hasSessionOwnership == alive /\ (session # 0 \/ status # "Stopped")

\* Mutant: the process-wide core and TUN registers are not asked.
ownersSettledHere(g) == isCurrent(g) /\ ~hasSessionOwnership

ownersSettled(g) == isCurrent(g) /\ ~hasSessionOwnership /\ held = {}

publishTerminalIfOwnersSettled(g) ==
  snapshot' = IF ownersSettled(g) THEN publishDisconnected(g) ELSE snapshot

\* publishStatus: a value for a superseded generation is dropped, the others
\* are posted to the main looper and replace a value that is still pending.
\* A destroyed service keeps its generation, but its LiveData has no reader.
mayPublishStatus(g) == isCurrent(g) /\ (g = sessionGeneration \/ g \in gone)
publishStatus(next, g) ==
  posted' = IF mayPublishStatus(g) /\ g \notin gone THEN next ELSE posted

deliverStatus ==
  /\ posted # "none"
  /\ status' = posted
  /\ posted' = "none"
  /\ UNCHANGED <<counterVars, fieldVars, receiver, runVars, snapshot, jobVars, postVars>>

-----------------------------------------------------------------------------
(* Start *)

\* A Connect sends a start intent; SetSessionGeneration only moves the counter.
connect ==
  /\ WithinBound /\ sequence + repeatedStops < MaxConnect
  /\ sequence' = sequence + 1
  /\ starts' \in {starts, starts \cup {sequence + 1}}
  /\ UNCHANGED <<latestStopGeneration, repeatedStops, serviceVars, runVars, snapshot, jobVars,
                 postVars>>

\* beginExplicitSession with commitStart, on the main looper.
mayBegin(g) == g > latestStopGeneration /\ isCurrent(g) /\ session = 0

beginExplicitSession(g) ==
  \/ /\ mayBegin(g)
     /\ session' = g /\ sessionGeneration' = g /\ terminalStop' = 0
     /\ status' = "Starting" /\ receiver' = TRUE
     /\ snapshot' = begin(g)
     /\ life' = [life EXCEPT ![g] = "open"]
     /\ pipeline' = [pipeline EXCEPT ![g] = "begun"]
     /\ UNCHANGED <<posted, coreVars, confirm, historyVars>>
  \/ /\ ~mayBegin(g)
     /\ UNCHANGED <<session, sessionGeneration, terminalStop, statusVars, runVars, snapshot>>

\* Whoever took the core too late is not let open a TUN.
tunMayBeOwned == held \ late # {}

\* onStartCommand and startAcceptedGeneration on the running service.  A Start
\* that finds an older session closes it first, and one that finds a TUN still
\* owned waits for it, both on the IO dispatcher.
onStartCommand(g) ==
  /\ g \in starts /\ alive
  /\ starts' = starts \ {g}
  /\ \/ /\ isCurrent(g) /\ (session \in 1 .. g - 1 \/ (session = 0 /\ tunMayBeOwned))
        /\ replaceJobs' = replaceJobs \cup {g}
        /\ life' = [h \in Gen |-> IF h = session /\ life[h] = "open" THEN "closing" ELSE life[h]]
        /\ UNCHANGED <<session, sessionGeneration, terminalStop, statusVars, coreVars, pipeline,
                       confirm, snapshot, historyVars>>
     \/ /\ isCurrent(g) /\ session \notin 1 .. g - 1
        /\ beginExplicitSession(g)
        /\ UNCHANGED replaceJobs
     \/ /\ ~isCurrent(g)
        /\ UNCHANGED <<session, sessionGeneration, terminalStop, statusVars, runVars, snapshot,
                       replaceJobs>>
  /\ UNCHANGED <<sequence, latestStopGeneration, repeatedStops, alive, stopJobs, postVars>>

\* Android creates the service for the intent.
onCreate(g) ==
  /\ g \in starts /\ ~alive
  /\ alive' = TRUE /\ session' = 0 /\ sessionGeneration' = 0 /\ terminalStop' = 0
  /\ status' = "Stopped" /\ posted' = "none" /\ receiver' = FALSE
  /\ UNCHANGED <<counterVars, runVars, snapshot, jobVars, postVars>>

\* The older session is closed: begin the new one on the main looper.
replaceSession(g) ==
  /\ g \in replaceJobs /\ alive
  /\ \A h \in 1 .. g - 1 : life[h] # "closing"
  /\ replaceJobs' = replaceJobs \ {g}
  /\ beginExplicitSession(g)
  /\ UNCHANGED <<counterVars, alive, stopJobs, postVars>>

-----------------------------------------------------------------------------
(* startService, in the session's scope, which the session's close cancels.  *)
(* None of its tests is made under a lock.                                  *)

\* A coroutine that is cancelled before it began does nothing, either.
startService(g) ==
  /\ pipeline[g] = "begun"
  /\ pipeline' = [pipeline EXCEPT ![g] = IF session = g /\ acceptsOperations(g) THEN "checked"
                                         ELSE "ended"]
  /\ UNCHANGED <<counterVars, serviceVars, life, coreVars, confirm, historyVars, snapshot, jobVars,
                 postVars>>

publishStarting(g) ==
  /\ pipeline[g] = "checked"
  /\ pipeline' = [pipeline EXCEPT ![g] = IF mayPublishStatus(g) THEN "starting" ELSE "ended"]
  /\ publishStatus("Starting", g)
  /\ UNCHANGED <<counterVars, fieldVars, status, receiver, life, coreVars, confirm, historyVars,
                 snapshot, jobVars, postVars>>

startingCore(g) ==
  /\ pipeline[g] = "starting"
  /\ pipeline' = [pipeline EXCEPT ![g] = "core"]
  /\ snapshot' = transition(g, "STARTING_CORE")
  /\ UNCHANGED <<counterVars, serviceVars, life, coreVars, confirm, historyVars, jobVars, postVars>>

\* The native closes and the TUN of older sessions have settled, as far as
\* somebody has dispatched them.
previousSettled == \A h \in held : h \in leaked \/ life[h] = "closing"

checkAfterWait(g) ==
  /\ pipeline[g] = "core" /\ mayContinue(g) /\ previousSettled
  /\ pipeline' = [pipeline EXCEPT ![g] = "tested"]
  /\ UNCHANGED <<counterVars, serviceVars, life, coreVars, confirm, historyVars, snapshot, jobVars,
                 postVars>>

\* tryAcquire does not ask for the session.  A close that is already past its
\* test of ownership, or has ended, does not release this core any more.
acquireCore(g) ==
  /\ pipeline[g] = "tested" /\ held = {}
  /\ pipeline' = [pipeline EXCEPT ![g] = "acquired"]
  /\ held' = held \cup {g}
  /\ late' = IF life[g] = "open" THEN late ELSE late \cup {g}
  /\ \/ life[g] # "closed" /\ UNCHANGED leaked
     \/ life[g] # "open" /\ leaked' = leaked \cup {g}
  /\ UNCHANGED <<counterVars, serviceVars, life, confirm, historyVars, snapshot, jobVars, postVars>>

\* The endpoint has answered, and startService leaves the native mutex, which the
\* core's close needs, and reads the phase.  The session is not tested again.
endpointAnswers(g) ==
  /\ pipeline[g] = "acquired" /\ g \in held \ late
  /\ pipeline' = [pipeline EXCEPT ![g] = IF phaseAfterCommandEndpointReady = "VERIFYING"
                                         THEN "verified" ELSE "answered"]
  /\ UNCHANGED <<counterVars, serviceVars, life, coreVars, confirm, historyVars, snapshot, jobVars,
                 postVars>>

commandEndpointReady(g) ==
  /\ pipeline[g] \in DOMAIN phaseToPublish
  /\ pipeline' = [pipeline EXCEPT ![g] = "ready"]
  /\ snapshot' = update(g, phaseToPublish[pipeline[g]], FALSE, {"core"})
  /\ publishStatus("CoreReady", g)
  /\ UNCHANGED <<counterVars, fieldVars, status, receiver, life, coreVars, confirm, historyVars,
                 jobVars, postVars>>

\* The notification is shown on the main looper, then startService returns.
startReturns(g) ==
  /\ pipeline[g] = "ready"
  /\ pipeline' = [pipeline EXCEPT ![g] = "running"]
  /\ UNCHANGED <<counterVars, serviceVars, life, coreVars, confirm, historyVars, snapshot, jobVars,
                 postVars>>

\* The core's openTun callback, accepted by requireTunCallbackSession.  The core
\* stays owned while it runs.
openTun(g) ==
  /\ pipeline[g] \in {"acquired", "answered", "verified", "ready", "running"} /\ mayContinue(g)
  /\ held' = held \cup {g}
  /\ snapshot' = update(g, "VERIFYING", FALSE, {"tun"})
  /\ UNCHANGED <<counterVars, serviceVars, life, late, leaked, pipeline, confirm, historyVars,
                 jobVars, postVars>>

-----------------------------------------------------------------------------
(* Failed starts: stopAndAlert tests the session, publishes the failure and *)
(* closes whatever session is there by then, each in a step of its own.     *)

\* Mutant: the failure is published whether or not the session still exists.
ownsFailureAnySession(g) == isCurrent(g)

ownsFailure(g) == isCurrent(g) /\ session = g

\* Where startService reports failures and where a cancelled scope stops it: its
\* handler takes the cancellation for a failed start as well.
mayFail(g) ==
  \/ pipeline[g] \in {"core", "acquired"}
  \/ pipeline[g] = "tested" /\ held # {}
  \/ pipeline[g] = "ready" /\ ~acceptsOperations(g)

startFails(g) ==
  /\ mayFail(g) /\ ownsFailure(g)
  /\ pipeline' = [pipeline EXCEPT ![g] = "alert"]
  /\ UNCHANGED <<counterVars, serviceVars, life, coreVars, confirm, historyVars, snapshot, jobVars,
                 postVars>>

\* The start finds itself superseded, or fails or is cancelled when it is.
startEnds(g) ==
  /\ mayFail(g) /\ ~mayContinue(g)
  /\ pipeline' = [pipeline EXCEPT ![g] = "ended"]
  /\ UNCHANGED <<counterVars, serviceVars, life, coreVars, confirm, historyVars, snapshot, jobVars,
                 postVars>>

alertPublishes(g) ==
  /\ \/ /\ pipeline[g] = "alert"
        /\ pipeline' = [pipeline EXCEPT ![g] = "failed"]
        /\ UNCHANGED confirm
     \/ /\ confirm[g] = "alert"
        /\ confirm' = [confirm EXCEPT ![g] = "failed"]
        /\ UNCHANGED pipeline
  /\ snapshot' = transition(g, "FAILED")
  /\ UNCHANGED <<counterVars, serviceVars, life, coreVars, historyVars, jobVars, postVars>>

\* closeSession of the session there is, if any, in the service of generation g.
closesActive(g) ==
  LET closing == {h \in Gen : h = session /\ life[h] = "open" /\ g \notin gone}
  IN  /\ life' = [h \in Gen |-> IF h \in closing THEN "closing" ELSE life[h]]
      /\ struck' = struck \cup (closing \ {g})

\* What follows the close hops to the main looper.  A coroutine of the session's
\* own scope, which the close has cancelled, cannot do that: the hop throws.  When
\* somebody else's close was still running, its handler takes this for a failure.
startAlertCloses(g) ==
  /\ pipeline[g] = "failed"
  /\ closesActive(g)
  /\ pipeline' = [pipeline EXCEPT ![g] = IF ownsFailure(g) /\ ~acceptsOperations(g) THEN "alert"
                                         ELSE "ended"]
  /\ UNCHANGED <<counterVars, serviceVars, coreVars, confirm, gone, snapshot, jobVars, postVars>>

confirmAlertCloses(g) ==
  /\ confirm[g] = "failed"
  /\ closesActive(g)
  /\ confirm' = [confirm EXCEPT ![g] = IF g \in gone THEN "idle" ELSE "closing"]
  /\ UNCHANGED <<counterVars, serviceVars, coreVars, pipeline, gone, snapshot, jobVars, postVars>>

\* The rest of stopAndAlert, on the main looper.
alertReturns(g) ==
  /\ confirm[g] = "closing"
  /\ life[g] = "closed"
  /\ confirm' = [confirm EXCEPT ![g] = "idle"]
  /\ receiver' = (receiver /\ ~isCurrent(g))
  /\ status' = IF isCurrent(g) THEN "Stopped" ELSE status
  /\ UNCHANGED <<counterVars, fieldVars, posted, life, coreVars, pipeline, historyVars, snapshot,
                 jobVars, postVars>>

-----------------------------------------------------------------------------
(* confirmCoreStarted, called by Flutter through MarkCoreStarted: it runs in *)
(* the method channel's scope, which no session's close cancels.  Flutter    *)
(* confirms a generation it has not stopped.                                 *)

startEvidence(g) ==
  /\ pipeline[g] \in {"answered", "verified", "ready", "running"}
  /\ g \in held /\ "tun" \in snapshot.evidence /\ mayContinue(g)

confirmCoreStarted(g) ==
  /\ alive /\ session = g /\ confirm[g] = "idle" /\ isCurrent(g) /\ g > latestStopGeneration
  /\ \/ /\ startEvidence(g)
        /\ confirm' = [confirm EXCEPT ![g] = "gated"]
     \/ /\ ownsFailure(g)   \* the VPN permission may be missing, too
        /\ confirm' = [confirm EXCEPT ![g] = "alert"]
  /\ UNCHANGED <<counterVars, serviceVars, life, coreVars, pipeline, historyVars, snapshot, jobVars,
                 postVars>>

\* awaitSelectedOutbound took a while, and may have found none.
verify(g) ==
  /\ confirm[g] = "gated"
  /\ \E outbound \in {{"outbound"}, {}} :
       snapshot' = update(g, "VERIFYING", FALSE, {"started"} \cup outbound)
  /\ confirm' = [confirm EXCEPT ![g] = "verifying"]
  /\ UNCHANGED <<counterVars, serviceVars, life, coreVars, pipeline, historyVars, jobVars,
                 postVars>>

\* The final transition; whether it proves the connection is asked afterwards.
publishConnected(g) ==
  LET connected == transition(g, "CONNECTED")
  IN  /\ confirm[g] = "verifying"
      /\ snapshot' = connected
      /\ \/ /\ provesConnected(connected)
            /\ confirm' = [confirm EXCEPT ![g] = "idle"]
            /\ publishStatus("Started", g)
         \/ /\ ~provesConnected(connected)
            /\ confirm' = [confirm EXCEPT ![g] = "unproven"]
            /\ UNCHANGED posted
      /\ UNCHANGED <<counterVars, fieldVars, status, receiver, life, coreVars, pipeline,
                     historyVars, jobVars, postVars>>

unprovenFails(g) ==
  /\ confirm[g] = "unproven"
  /\ confirm' = [confirm EXCEPT ![g] = IF ownsFailure(g) THEN "alert" ELSE "idle"]
  /\ UNCHANGED <<counterVars, serviceVars, life, coreVars, pipeline, historyVars, snapshot, jobVars,
                 postVars>>

-----------------------------------------------------------------------------
(* Stop *)

\* stopService(g) on the service, with g the current generation.
stopService(g) ==
  /\ sessionGeneration' = g
  /\ terminalStop' = g
  /\ \/ /\ status = "Stopping"
        /\ snapshot' = requestStop(g)
        /\ UNCHANGED <<statusVars, life, stopJobs>>
     \/ /\ status = "Stopped" /\ session = 0
        /\ posted' = "Stopped"
        /\ snapshot' = IF held = {} THEN publishDisconnected(g) ELSE snapshot
        /\ UNCHANGED <<status, receiver, life, stopJobs>>
     \/ /\ status # "Stopping" /\ ~(status = "Stopped" /\ session = 0)
        /\ snapshot' = requestStop(g)
        /\ status' = "Stopping"
        /\ receiver' = FALSE
        /\ stopJobs' = stopJobs \cup {session}
        /\ life' = [h \in Gen |-> IF h = session /\ life[h] = "open" THEN "closing" ELSE life[h]]
        /\ UNCHANGED posted
  /\ UNCHANGED <<alive, session, coreVars, pipeline, confirm, historyVars>>

\* Every service in the registry is told to stop: the live one, or a destroyed
\* one that is still closing its session and can only publish the terminal state.
tellOwners(g) ==
  \/ alive /\ stopService(g)
  \/ /\ ~alive
     /\ snapshot' = IF destroyJobs # {} /\ held = {} THEN publishDisconnected(g) ELSE snapshot
     /\ UNCHANGED <<serviceVars, runVars, stopJobs>>

\* BoxService.requestStop for the accepted generation g.  On the main looper the
\* services are told at once, otherwise the dispatch is posted; a broadcast and
\* a delayed fallback probe follow.
acceptStop(g, onMain) ==
  /\ sequence' = g
  /\ latestStopGeneration' = g
  /\ broadcast' = broadcast \cup {g}
  /\ probe' = [probe EXCEPT ![g] = IF @ = "none" THEN "delayed" ELSE @]
  /\ \/ onMain /\ tellOwners(g) /\ UNCHANGED direct
     \/ /\ ~onMain
        /\ direct' = direct \cup {g}
        /\ UNCHANGED <<serviceVars, runVars, snapshot, stopJobs>>
  /\ UNCHANGED <<starts, settleProbe, destroyJobs, destroyPosts>>

\* A Stop of the user, the tile, the notification or Android takes a generation
\* above every other.
stop ==
  /\ MayAskToStop
  /\ \E onMain \in BOOLEAN : acceptStop(sequence + 1, onMain)
  /\ UNCHANGED <<repeatedStops, replaceJobs>>

\* Flutter gives up on the generation it has started and stops it, again and
\* again until the control port is free.  It awaits its calls one after the other,
\* so no confirmation is running, and the attempts are far enough apart for the
\* broadcast of the one before to have arrived.
stopSameGeneration ==
  /\ MayAskToStop /\ repeatedStops' = repeatedStops + 1
  /\ sequence > 0 /\ confirm[sequence] = "idle" /\ sequence \notin broadcast
  /\ acceptStop(sequence, TRUE)
  /\ UNCHANGED replaceJobs

\* The TUN of the older session did not settle: the Start turns into a Stop.
replaceTimesOut(g) ==
  /\ g \in replaceJobs /\ alive /\ tunMayBeOwned /\ WithinBound
  /\ \A h \in 1 .. g - 1 : life[h] # "closing"
  /\ replaceJobs' = replaceJobs \ {g}
  /\ acceptStop(sequence + 1, FALSE)
  /\ UNCHANGED repeatedStops

\* receiveStop: a Stop that a newer generation has overtaken is dropped.
receiveStop(g) ==
  \/ isCurrent(g) /\ tellOwners(g)
  \/ ~isCurrent(g) /\ UNCHANGED <<serviceVars, runVars, snapshot, stopJobs>>

receiveDirect(g) ==
  /\ g \in direct
  /\ direct' = direct \ {g}
  /\ receiveStop(g)
  /\ UNCHANGED <<counterVars, replaceJobs, broadcast, probe, settleProbe, destroyJobs,
                 destroyPosts>>

receiveBroadcast(g) ==
  /\ g \in broadcast
  /\ broadcast' = broadcast \ {g}
  /\ \/ receiver /\ receiveStop(g)
     \/ ~receiver /\ UNCHANGED <<serviceVars, runVars, snapshot, stopJobs>>
  /\ UNCHANGED <<counterVars, replaceJobs, direct, probe, settleProbe, destroyJobs, destroyPosts>>

\* The clean-up of stopService, back on the main looper after closeSession.
stopCompletes(s) ==
  LET g == terminalStop IN
  /\ s \in stopJobs
  /\ s # 0 => life[s] = "closed"
  /\ stopJobs' = stopJobs \ {s}
  /\ \/ /\ isCurrent(g)
        /\ status' = "Stopped"
        /\ publishStatus("Stopped", g)
        /\ snapshot' = IF session = 0 /\ held = {} THEN publishDisconnected(g) ELSE snapshot
     \/ /\ ~isCurrent(g)
        /\ UNCHANGED <<status, posted, snapshot>>
  /\ UNCHANGED <<counterVars, fieldVars, receiver, runVars, replaceJobs, postVars>>

-----------------------------------------------------------------------------
(* closeSession: its bounded steps end, whether or not the core and the TUN  *)
(* have been given back by then                                              *)

closeEnds(g) ==
  /\ life[g] = "closing"
  /\ life' = [life EXCEPT ![g] = "closed"]
  /\ session' = IF session = g THEN 0 ELSE session
  /\ UNCHANGED <<counterVars, alive, sessionGeneration, terminalStop, statusVars, coreVars,
                 pipeline, confirm, snapshot, jobVars, postVars, historyVars>>

\* The native close and the descriptor's close end; their listeners post a
\* settlement probe.
release(g) ==
  /\ g \in held \ leaked /\ life[g] \in {"closing", "closed"}
  /\ held' = held \ {g} /\ late' = late \ {g}
  /\ settleProbe' = TRUE
  /\ UNCHANGED <<counterVars, serviceVars, life, leaked, pipeline, confirm, historyVars, snapshot,
                 jobVars, direct, broadcast, probe, destroyJobs, destroyPosts>>

terminalSettlementProbe ==
  /\ settleProbe
  /\ settleProbe' = FALSE
  /\ IF snapshot.stop /\ snapshot.generation = sequence
     THEN publishTerminalIfOwnersSettled(sequence)
     ELSE UNCHANGED snapshot
  /\ UNCHANGED <<counterVars, serviceVars, runVars, jobVars, direct, broadcast, probe,
                 destroyJobs, destroyPosts>>

-----------------------------------------------------------------------------
(* The fallback probe of a Stop *)

\* The Stop has been overtaken, or its terminal state is there.
fallbackDone(g) ==
  ~isCurrent(g) \/ snapshot.generation > g
    \/ (snapshot.generation = g /\ snapshot.phase = "DISCONNECTED")

\* The initial delay: what was posted to the main looper before the Stop runs
\* before the delayed probe, the Stop's own dispatch included.
fallbackDelay(g) ==
  /\ probe[g] = "delayed" /\ posted = "none" /\ g \notin direct
  /\ probe' = [probe EXCEPT ![g] = "polling"]
  /\ UNCHANGED <<counterVars, serviceVars, runVars, snapshot, jobVars, direct, broadcast,
                 settleProbe, destroyJobs, destroyPosts>>

\* Mutant: the probe has no deadline.
terminalFallbackPatient(g) ==
  /\ probe[g] = "polling"
  /\ \/ fallbackDone(g) /\ UNCHANGED snapshot
     \/ ~fallbackDone(g) /\ ownersSettled(g) /\ snapshot' = publishDisconnected(g)
  /\ probe' = [probe EXCEPT ![g] = "none"]
  /\ UNCHANGED <<counterVars, serviceVars, runVars, jobVars, direct, broadcast, settleProbe,
                 destroyJobs, destroyPosts>>

\* One run of the probe that ends it, the last one past its deadline; otherwise
\* it is posted again.
terminalFallback(g) ==
  /\ probe[g] = "polling"
  /\ \/ fallbackDone(g) /\ UNCHANGED snapshot
     \/ ~fallbackDone(g) /\ ownersSettled(g) /\ snapshot' = publishDisconnected(g)
     \/ ~fallbackDone(g) /\ ~ownersSettled(g) /\ snapshot' = transition(g, "FAILED")
  /\ probe' = [probe EXCEPT ![g] = "none"]
  /\ UNCHANGED <<counterVars, serviceVars, runVars, jobVars, direct, broadcast, settleProbe,
                 destroyJobs, destroyPosts>>

-----------------------------------------------------------------------------
(* onDestroy: the service stopped itself, or Android destroys it.  The fields *)
(* and the LiveData of a destroyed service have no reader any more, and an    *)
(* alert that is still to return has nothing left to do: all are cleared.     *)

\* Mutant: the destroyed service stops its own generation.
reserveDestroySame == sequence

\* The generation a destroyed service stops under: above the one it served, so
\* that nothing the destroyed session still does can be published after it.
reserveDestroyStop == sequence + 1

onDestroy ==
  LET published == snapshot.phase \in {"DISCONNECTED", "FAILED"}
      stopKnown == snapshot.stop /\ snapshot.generation = sequence
      fences == terminalStop = 0 /\ ~stopKnown /\ ~published /\ isCurrent(session)
      terminal == IF terminalStop > 0 THEN terminalStop
                  ELSE IF stopKnown THEN snapshot.generation
                  ELSE IF fences THEN reserveDestroyStop ELSE 0
      publishes == IF published THEN 0 ELSE terminal
  IN  /\ alive
      /\ fences => WithinBound
      /\ alive' = FALSE /\ session' = 0 /\ status' = "Stopped" /\ posted' = "none" /\ receiver' = FALSE
      /\ sequence' = IF fences THEN terminal ELSE sequence
      /\ latestStopGeneration' = IF fences THEN terminal ELSE latestStopGeneration
      /\ sessionGeneration' = 0 /\ terminalStop' = 0
      /\ snapshot' = IF fences THEN requestStop(terminal) ELSE snapshot
      /\ stopJobs' = {} /\ replaceJobs' = {}
      /\ confirm' = [h \in Gen |-> IF confirm[h] = "closing" THEN "idle" ELSE confirm[h]]
      /\ gone' = {h \in Gen : pipeline[h] # "none"}
      /\ life' = [h \in Gen |-> IF h = session /\ life[h] = "open" THEN "closing" ELSE life[h]]
      /\ \/ /\ session = 0
            /\ destroyPosts' = destroyPosts \cup ({publishes} \ {0})
            /\ UNCHANGED destroyJobs
         \/ /\ session # 0
            /\ destroyJobs' = destroyJobs \cup {<<session, publishes>>}
            /\ UNCHANGED destroyPosts
      /\ UNCHANGED <<repeatedStops, starts, coreVars, pipeline, struck, direct, broadcast, probe,
                     settleProbe>>

\* The close that onDestroy started has ended.
finishDestroy(j) ==
  /\ j \in destroyJobs
  /\ life[j[1]] = "closed"
  /\ destroyJobs' = destroyJobs \ {j}
  /\ destroyPosts' = destroyPosts \cup ({j[2]} \ {0})
  /\ UNCHANGED <<counterVars, serviceVars, runVars, snapshot, jobVars, direct, broadcast, probe,
                 settleProbe>>

publishAfterDestroy(g) ==
  /\ g \in destroyPosts
  /\ destroyPosts' = destroyPosts \ {g}
  /\ publishTerminalIfOwnersSettled(g)
  /\ UNCHANGED <<counterVars, serviceVars, runVars, jobVars, direct, broadcast, probe,
                 settleProbe, destroyJobs>>

-----------------------------------------------------------------------------
SessionStep(g) ==
  \/ startService(g) \/ publishStarting(g) \/ startingCore(g) \/ checkAfterWait(g) \/ acquireCore(g)
  \/ endpointAnswers(g) \/ commandEndpointReady(g) \/ startReturns(g) \/ openTun(g)
  \/ startFails(g) \/ startEnds(g) \/ confirmCoreStarted(g)

\* What goes on by itself once a start or a confirmation has come that far.
SessionContinues(g) ==
  \/ alertPublishes(g) \/ startAlertCloses(g) \/ confirmAlertCloses(g) \/ alertReturns(g)
  \/ verify(g) \/ publishConnected(g) \/ unprovenFails(g)

\* Work that was posted to the main looper or runs on the IO dispatcher.
PostedStep ==
  \/ deliverStatus \/ terminalSettlementProbe
  \/ \E g \in Gen : \/ receiveDirect(g) \/ receiveBroadcast(g) \/ replaceSession(g)
                    \/ publishAfterDestroy(g) \/ SessionContinues(g)
  \/ \E s \in 0 .. MaxGeneration : stopCompletes(s)
  \/ \E j \in destroyJobs : finishDestroy(j)

Next ==
  \/ connect \/ stop \/ stopSameGeneration \/ onDestroy
  \/ \E g \in Gen : \/ onCreate(g) \/ onStartCommand(g) \/ SessionStep(g)
                    \/ closeEnds(g) \/ release(g) \/ terminalFallback(g)
                    \/ fallbackDelay(g) \/ replaceTimesOut(g)
  \/ PostedStep

\* The main looper and the IO dispatcher run what was posted to them (a direct
\* dispatch of a Stop too, however many others are posted), a bounded
\* close ends, a fallback probe polls until its deadline, and its initial delay
\* passes although statuses are posted again and again meanwhile.  Nothing obliges
\* the native close to end, Flutter to confirm a start, or Android to destroy the
\* service.
Fairness ==
  /\ WF_vars(PostedStep)
  /\ WF_vars(\E g \in Gen : receiveDirect(g))
  /\ WF_vars(\E g \in Gen : closeEnds(g) \/ terminalFallback(g))
  /\ SF_vars(\E g \in Gen : fallbackDelay(g))

Spec == Init /\ [][Next]_vars /\ Fairness

-----------------------------------------------------------------------------
(* Properties *)

\* DISCONNECTED of the current generation is the truth, whichever of the five
\* publishers wrote it and for as long as it is shown: no session, no core and no
\* TUN is left, except a core that a start took without asking for its session,
\* when the session's close had already begun.
DisconnectedIsSettled ==
  snapshot.phase = "DISCONNECTED" /\ snapshot.generation = sequence =>
    session = 0 /\ held \subseteq late

\* CONNECTED of the current generation is shown only while its session exists
\* and accepts operations, unless the failure of an older start has closed it:
\* confirmCoreStarted waits for the selected outbound between its tests and this
\* claim.
ConnectedHasSession ==
  snapshot.phase = "CONNECTED" /\ snapshot.generation = sequence =>
    (session = sequence /\ acceptsOperations(sequence)) \/ sequence \in struck

\* What a start that has passed its last test is still going to publish.
lateWrites ==
  [checked |-> "STARTING_CORE", starting |-> "STARTING_CORE",
   answered |-> "WAITING_TUN", verified |-> "VERIFYING", alert |-> "FAILED"]
pendingWrites(g) == {lateWrites[p] : p \in {pipeline[g]} \cap DOMAIN lateWrites}

\* A DISCONNECTED is taken back only by a newer generation, by a repeated Stop of
\* its own generation that still finds something to stop, or by the one write that
\* the start it has ended had decided before; nothing decides on another one.
DisconnectedIsTerminal ==
  [][snapshot.phase = "DISCONNECTED" /\ snapshot.generation \in Gen
       /\ snapshot'.generation = snapshot.generation
       => LET g == snapshot.generation
          IN  /\ snapshot'.phase \in {"DISCONNECTED", "STOPPING"} \cup pendingWrites(g)
              /\ pendingWrites(g)' \subseteq pendingWrites(g)]_vars

\* Every accepted Stop reaches a terminal state or is superseded, with the service
\* alive, destroyed half way or never created, although its direct dispatch may be
\* dropped and its clean-up job cancelled.
StopSettles ==
  \A g \in Gen : probe[g] # "none" ~>
    (sequence # g \/ (snapshot.generation = g /\ snapshot.phase \in {"DISCONNECTED", "FAILED"}))

\* After a failed start the service takes itself down: its status returns to
\* Stopped and its receiver is unregistered, unless something newer happens.
FailedStartStopsService ==
  \A g \in Gen :
    (snapshot.phase = "FAILED" /\ session = g /\ sequence = g /\ alive)
      ~> (sequence # g \/ ~alive \/ (status = "Stopped" /\ ~receiver))
=============================================================================
