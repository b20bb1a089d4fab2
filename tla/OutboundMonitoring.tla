------------------------- MODULE OutboundMonitoring -------------------------
(***************************************************************************)
(* The scheduler of server checks that all groups share                    *)
(* (common/monitoring): the requests for a full cycle, the goroutine that  *)
(* runs cycles, the tests, manual refreshes, and the events that tell a    *)
(* group of the results.  It is a part: the module SmartActive adds the    *)
(* group that reads them.                                                  *)
(*                                                                         *)
(* Every check carries a generation.  A reset gives a server a new         *)
(* generation, and what arrives for another one is ignored.  Scores, delays*)
(* and penalties are left out: a test succeeds or fails, its hard timeout  *)
(* is a failure.  One outstanding test stands for the task that waits in a *)
(* queue, is run by a worker, reports and ends; there is one test address, *)
(* so no cycle is run again.  The ticker's partial cycles, the targeted    *)
(* retests and the probes of the active server are left out.               *)
(* MaxGeneration bounds the generations that are allocated: what would     *)
(* allocate one more does not happen.                                      *)
(***************************************************************************)
EXTENDS Integers, FiniteSets

CONSTANTS
    Servers,        \* the servers of the group
    Workers,        \* workersCount: the size of a batch
    Loops,          \* goroutines of startCycleOnce alive at once
    MaxGeneration,
    None

ASSUME MonitoringAssumption ==
    /\ IsFiniteSet(Servers)
    /\ Workers \in Nat \ {0}
    /\ MaxGeneration \in Nat
    /\ None \notin Servers

VARIABLES
    srv,                \* what is known of each server
    cycleSeq,           \* the generations allocated
    fullCycleRequested,
    cycleRunning,
    loop,               \* where each goroutine of startCycleOnce is
    cyc,                \* the cycle that runs
    asking,             \* who is in RequestFullCycle, about to start a cycle
    tests,              \* the tests of the cycle that are outstanding
    man,                \* the manual refresh that runs
    manualRefreshAt,    \* whether a manual refresh waits to be consumed
    notified,           \* the group waits for a debounced event
    completed,          \* completedGeneration and completedBatch
    observer            \* the group's channel: open, and the event in it

cycleVars == <<cycleSeq, fullCycleRequested, cycleRunning, loop, cyc, asking, tests>>
manualVars == <<man, manualRefreshAt>>
eventVars == <<notified, completed, observer>>
monitoringVars == <<srv, cycleVars, manualVars, eventVars>>

Generations == 0..MaxGeneration
Requesters == {"start", "worker"}
Results == {"success", "failed"}

(* gen is CheckGeneration, ready CombinedReady, and enqueued the generation *)
(* of the test that is queued, or 0.                                        *)
ServerStates ==
    [gen : Generations, status : Results \cup {"none", "checking"}, ready : BOOLEAN,
     enqueued : Generations]

Tasks == [tag : Servers, gen : Generations]
NoEvent == [gen |-> 0, batch |-> 0]

Running == {"collect", "reset", "stage", "wait", "finish", "clear"}
NoCycle == [gen |-> 0, targets |-> {}, left |-> {}, waiting |-> {}, number |-> 0]
NoManual == [pc |-> "off", gen |-> 0, left |-> {}, prepared |-> {}, batch |-> {},
             number |-> 0]

(* PostStart has set the flag of RequestFullCycle, its first half.          *)
MonitoringInit ==
    /\ srv = [s \in Servers |->
                [gen |-> 0, status |-> "none", ready |-> FALSE, enqueued |-> 0]]
    /\ cycleSeq = 0
    /\ fullCycleRequested = TRUE
    /\ cycleRunning = FALSE
    /\ loop = [l \in Loops |-> "off"]
    /\ cyc = NoCycle
    /\ asking = {"start"}
    /\ tests = {}
    /\ man = NoManual
    /\ manualRefreshAt = FALSE
    /\ notified = FALSE
    /\ completed = NoEvent
    /\ observer = [open |-> FALSE, events |-> {}]

-----------------------------------------------------------------------------
(* What a reset, a queued test and a result make of a server.               *)

Reset(r, g) == [gen |-> g, status |-> "checking", ready |-> FALSE, enqueued |-> 0]

OfGeneration(r, g) == r.gen \in {0, g}

(* A test is queued once a generation, and a failure stays visible until    *)
(* its result.                                                              *)
Accepts(r, g) == OfGeneration(r, g) /\ r.enqueued # g

Enqueued(r, g) ==
    IF r.status = "failed" THEN [r EXCEPT !.enqueued = g]
    ELSE [r EXCEPT !.enqueued = g, !.status = "checking", !.gen = g]

Applied(r, g, result) ==
    IF OfGeneration(r, g)
    THEN [gen |-> g, status |-> result, ready |-> TRUE, enqueued |-> 0]
    ELSE r

(* The channel holds one event: another is dropped until it is taken.       *)
Publish(event) ==
    observer' = IF observer.open /\ observer.events = {}
                THEN [observer EXCEPT !.events = {event}] ELSE observer

(* Generations and batches only grow in the event that is sent later.       *)
Later(e, f) == e.gen > f.gen \/ (e.gen = f.gen /\ e.batch > f.batch)

publishCompletedBatch(event) ==
    /\ completed' = IF Later(event, completed) THEN event ELSE completed
    /\ Publish(event)

Batches(left) ==
    {b \in SUBSET left : Cardinality(b) = IF Cardinality(left) < Workers
                                          THEN Cardinality(left) ELSE Workers}

ResetServer(s, g) ==
    /\ srv' = [srv EXCEPT ![s] = Reset(@, g)]
    /\ notified' = TRUE

-----------------------------------------------------------------------------
(* Requests and cycles.                                                     *)

(* RequestFullCycle: the flag, then startCycleOnce.                         *)
Request(r) ==
    /\ fullCycleRequested' = TRUE
    /\ asking' = asking \cup {r}

startCycleOnce(r) ==
    /\ r \in asking
    /\ asking' = asking \ {r}
    /\ \/ /\ cycleRunning
          /\ UNCHANGED <<cycleRunning, loop>>
       \/ /\ ~cycleRunning
          /\ cycleRunning' = TRUE
          /\ \E l \in Loops :
                /\ loop[l] = "off"
                /\ loop' = [loop EXCEPT ![l] = "collect"]
    /\ UNCHANGED <<srv, cycleSeq, fullCycleRequested, cyc, tests, manualVars, eventVars>>

Moves(l, from, to) == loop[l] = from /\ loop' = [loop EXCEPT ![l] = to]

(* runCycle takes the request and a generation, and collects its targets: a *)
(* server whose test is queued or runs is skipped even in a full cycle.     *)
Free(s) == srv[s].enqueued = 0 /\ s \notin man.batch

Collect(l) ==
    LET targets == {s \in Servers : Free(s)} IN
    /\ cycleSeq < MaxGeneration
    /\ cycleSeq' = cycleSeq + 1
    /\ fullCycleRequested' = FALSE
    /\ Moves(l, "collect", IF targets = {} THEN "clear" ELSE "reset")
    /\ cyc' = [NoCycle EXCEPT !.gen = cycleSeq + 1, !.targets = targets, !.left = targets]
    /\ UNCHANGED <<srv, cycleRunning, asking, tests, manualVars, eventVars>>

beginCheckGeneration(l) ==
    \E s \in cyc.left :
        /\ ResetServer(s, cyc.gen)
        /\ Moves(l, "reset", IF cyc.left = {s} THEN "stage" ELSE "reset")
        /\ cyc' = [cyc EXCEPT !.left = IF cyc.left = {s} THEN cyc.targets
                                       ELSE cyc.left \ {s}]
        /\ UNCHANGED <<cycleSeq, fullCycleRequested, cycleRunning, asking, tests,
                       manualVars, completed, observer>>

(* The next batch of runStage: what enqueueTask refuses is not waited for.  *)
EnqueueBatch(l) ==
    \E b \in Batches(cyc.left) :
        LET accepted == {s \in b : Accepts(srv[s], cyc.gen)} IN
        /\ Moves(l, "stage", "wait")
        /\ srv' = [s \in Servers |-> IF s \in accepted THEN Enqueued(srv[s], cyc.gen)
                                     ELSE srv[s]]
        /\ tests' = tests \cup {[tag |-> s, gen |-> cyc.gen] : s \in accepted}
        /\ cyc' = [cyc EXCEPT !.left = @ \ b, !.waiting = accepted, !.number = @ + 1]
        /\ UNCHANGED <<cycleSeq, fullCycleRequested, cycleRunning, asking, manualVars,
                       eventVars>>

(* executeTask and applyResult, and the outcome for the cycle that waits.   *)
applyResult(task, result) ==
    /\ task \in tests
    /\ tests' = tests \ {task}
    /\ srv' = [srv EXCEPT ![task.tag] = Applied(@, task.gen, result)]
    /\ cyc' = [cyc EXCEPT !.waiting = @ \ {task.tag}]
    /\ UNCHANGED <<cycleSeq, fullCycleRequested, cycleRunning, loop, asking, manualVars,
                   eventVars>>

PublishBatch(l) ==
    /\ cyc.waiting = {}
    /\ Moves(l, "wait", IF cyc.left = {} THEN "finish" ELSE "stage")
    /\ publishCompletedBatch([gen |-> cyc.gen, batch |-> cyc.number])
    /\ UNCHANGED <<srv, cycleSeq, fullCycleRequested, cycleRunning, cyc, asking, tests,
                   manualVars, notified>>

(* The last step of runCycle: the final notification, sent although the     *)
(* last batch was published, because its event may have been dropped.       *)
FinishCycle(l) ==
    /\ Moves(l, "finish", "clear")
    /\ notified' = TRUE
    /\ UNCHANGED <<srv, cycleSeq, fullCycleRequested, cycleRunning, cyc, asking, tests,
                   manualVars, completed, observer>>

ClearRunning(l) ==
    /\ Moves(l, "clear", "retest")
    /\ cycleRunning' = FALSE
    /\ cyc' = NoCycle
    /\ UNCHANGED <<srv, cycleSeq, fullCycleRequested, asking, tests, manualVars, eventVars>>

(* Mutant: the goroutine ends without looking again.                        *)
TestAgainOmitted(l) ==
    /\ Moves(l, "retest", "off")
    /\ UNCHANGED <<srv, cycleSeq, fullCycleRequested, cycleRunning, cyc, asking, tests,
                   manualVars, eventVars>>

(* A request may have come while the cycle finished: look again.            *)
TestAgain(l) ==
    /\ Moves(l, "retest", IF fullCycleRequested THEN "reacquire" ELSE "off")
    /\ UNCHANGED <<srv, cycleSeq, fullCycleRequested, cycleRunning, cyc, asking, tests,
                   manualVars, eventVars>>

(* Mutant: cycleRunning is set without a comparison.                        *)
ReacquireAnyway(l) ==
    /\ Moves(l, "reacquire", "collect")
    /\ cycleRunning' = TRUE
    /\ UNCHANGED <<srv, cycleSeq, fullCycleRequested, cyc, asking, tests, manualVars,
                   eventVars>>

Reacquire(l) ==
    /\ Moves(l, "reacquire", IF cycleRunning THEN "off" ELSE "collect")
    /\ cycleRunning' = TRUE
    /\ UNCHANGED <<srv, cycleSeq, fullCycleRequested, cyc, asking, tests, manualVars,
                   eventVars>>

Cycle(l) ==
    \/ Collect(l) \/ beginCheckGeneration(l) \/ EnqueueBatch(l) \/ PublishBatch(l)
    \/ FinishCycle(l) \/ ClearRunning(l) \/ TestAgain(l) \/ Reacquire(l)

-----------------------------------------------------------------------------
(* A manual refresh of the group (TestNowAndWait): one at a time, it tests  *)
(* in goroutines of its own and gives up what a timeout leaves pending.     *)

ManualStart ==
    /\ man.pc = "off"
    /\ cycleSeq < MaxGeneration
    /\ cycleSeq' = cycleSeq + 1
    /\ man' = [NoManual EXCEPT !.pc = "reset", !.gen = cycleSeq + 1, !.left = Servers]
    /\ UNCHANGED <<srv, fullCycleRequested, cycleRunning, loop, cyc, asking, tests,
                   manualRefreshAt, eventVars>>

ManualReset ==
    \E s \in man.left :
        /\ man.pc = "reset"
        /\ ResetServer(s, man.gen)
        /\ man' = IF man.left = {s} THEN [man EXCEPT !.pc = "prepare", !.left = Servers]
                  ELSE [man EXCEPT !.left = @ \ {s}]
        /\ UNCHANGED <<cycleVars, manualRefreshAt, completed, observer>>

(* A server that was reset again since is given up.                         *)
prepareManualRefreshTarget ==
    \E s \in man.left :
        LET current == srv[s].gen = man.gen
            prepared == IF current THEN man.prepared \cup {s} ELSE man.prepared
            last == man.left = {s}
        IN
        /\ man.pc = "prepare"
        /\ man' = [man EXCEPT !.prepared = prepared,
                              !.left = IF last THEN prepared ELSE @ \ {s},
                              !.pc = CASE ~last -> "prepare"
                                       [] last /\ prepared = {} -> "mark"
                                       [] OTHER -> "run"]
        /\ \/ /\ current
              /\ srv' = [srv EXCEPT ![s].enqueued = man.gen, ![s].status = "checking"]
              /\ notified' = TRUE
           \/ /\ ~current
              /\ UNCHANGED <<srv, notified>>
        /\ UNCHANGED <<cycleVars, manualRefreshAt, completed, observer>>

(* The goroutines of a batch start: their servers are no longer queued.     *)
StartBatch ==
    \E b \in Batches(man.left) :
        /\ man.pc = "run"
        /\ man.batch = {}
        /\ man' = [man EXCEPT !.batch = b, !.left = @ \ b, !.number = @ + 1]
        /\ srv' = [s \in Servers |-> IF s \in b THEN [srv[s] EXCEPT !.enqueued = 0]
                                     ELSE srv[s]]
        /\ UNCHANGED <<cycleVars, manualRefreshAt, eventVars>>

executeManualRefreshTarget(s, result) ==
    /\ man.pc = "run"
    /\ s \in man.batch
    /\ srv' = [srv EXCEPT ![s] = Applied(@, man.gen, result)]
    /\ man' = [man EXCEPT !.batch = @ \ {s},
                          !.pc = IF man.batch = {s} THEN "publish" ELSE "run"]
    /\ UNCHANGED <<cycleVars, manualRefreshAt, eventVars>>

ManualPublish ==
    /\ man.pc = "publish"
    /\ publishCompletedBatch([gen |-> man.gen, batch |-> man.number])
    /\ man' = [man EXCEPT !.pc = IF man.left = {} THEN "mark" ELSE "run"]
    /\ UNCHANGED <<srv, cycleVars, manualRefreshAt, notified>>

(* The timeout of the refresh: the tests that run are cancelled and not     *)
(* applied, except those whose result came first, which are no longer       *)
(* counted, and what is pending is released.                                *)
ManualTimeout ==
    LET pending == man.left \cup man.batch
        Released(r) == IF r.gen = man.gen THEN [r EXCEPT !.enqueued = 0] ELSE r
    IN
    /\ man.pc = "run"
    /\ man.batch # {}
    /\ \E late \in SUBSET man.batch :
       \E result \in [late -> Results] :
         srv' = [s \in Servers |->
                    CASE s \in late -> Released(Applied(srv[s], man.gen, result[s]))
                      [] s \in pending \ late -> Released(srv[s])
                      [] OTHER -> srv[s]]
    /\ man' = [man EXCEPT !.pc = "mark", !.prepared = @ \ pending, !.batch = {},
                          !.left = {}]
    /\ UNCHANGED <<cycleVars, manualRefreshAt, eventVars>>

(* The mark and the notification of the group, if every server was tested.  *)
markManualRefreshForTargets ==
    /\ man.pc = "mark"
    /\ \/ man.prepared = Servers /\ manualRefreshAt' = TRUE /\ notified' = TRUE
       \/ man.prepared # Servers /\ UNCHANGED <<manualRefreshAt, notified>>
    /\ man' = NoManual
    /\ UNCHANGED <<srv, cycleVars, completed, observer>>

Manual ==
    \/ ManualStart \/ ManualReset \/ prepareManualRefreshTarget \/ StartBatch
    \/ ManualPublish \/ ManualTimeout \/ markManualRefreshForTargets
    \/ \E s \in Servers, result \in Results : executeManualRefreshTarget(s, result)

-----------------------------------------------------------------------------
(* groupNotifierLoop: a notification is followed, when the debounce timer   *)
(* fires, by one event with the last completed batch; what is notified in   *)
(* between is covered by it.                                                *)
emitGroupEventThrottled ==
    /\ notified
    /\ notified' = FALSE
    /\ Publish(completed)
    /\ UNCHANGED <<srv, cycleVars, manualVars, completed>>

MonitoringStep ==
    \/ \E r \in Requesters : startCycleOnce(r)
    \/ \E l \in Loops : Cycle(l)
    \/ \E task \in tests, result \in Results : applyResult(task, result)
    \/ Manual
    \/ emitGroupEventThrottled
=============================================================================
