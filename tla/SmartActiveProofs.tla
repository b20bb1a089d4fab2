-------------------------- MODULE SmartActiveProofs --------------------------
(***************************************************************************)
(* The safety of the Smart Active balancer and of the scheduler under it,  *)
(* for every set of servers and of goroutines, every size of a batch and   *)
(* every number of generations.                                            *)
(*                                                                         *)
(* RequestNotLost is inductive together with OneCycle: cycleRunning is set *)
(* exactly while one goroutine runs a cycle, so whoever finds it set leaves*)
(* its request to a goroutine that will look at the flag again.            *)
(* SwitchIsVerified needs only Types and that a server is never ready      *)
(* without a result.                                                       *)
(***************************************************************************)
EXTENDS SmartActive, TLAPS

LoopStates == Running \cup {"off", "retest", "reacquire"}
CycleStates ==
    [gen : Generations, targets : SUBSET Servers, left : SUBSET Servers,
     waiting : SUBSET Servers, number : Nat]
ManualStates ==
    [pc : {"off", "reset", "prepare", "run", "publish", "mark"}, gen : Generations,
     left : SUBSET Servers, prepared : SUBSET Servers, batch : SUBSET Servers,
     number : Nat]
Events == [gen : Generations, batch : Nat]
Views == [gen : Generations, status : Results \cup {"none", "checking"}, ready : BOOLEAN]
Histories == [Servers -> Views \cup {None}]

SchedulerTypes ==
    /\ cycleSeq \in Generations
    /\ fullCycleRequested \in BOOLEAN
    /\ asking \subseteq Requesters
    /\ cyc \in CycleStates
    /\ tests \subseteq Tasks
    /\ man \in ManualStates
    /\ manualRefreshAt \in BOOLEAN

EventTypes ==
    /\ completed \in Events
    /\ observer \in [open : BOOLEAN, events : SUBSET Events]
    /\ observer.events # {} => observer.open

(* A server that is ready has had a result.                                 *)
ServerTypes ==
    /\ srv \in [Servers -> ServerStates]
    /\ \A s \in Servers : srv[s].ready => srv[s].status # "none"

BalancerTypes ==
    /\ worker.mode \in {"manual", "batch", "plain"}
    /\ snapshot \in Histories
    /\ \A s \in Servers : snapshot[s] # None => (snapshot[s].ready => snapshot[s].status # "none")
    /\ selectionGeneration \in Generations
    /\ lastFull \in [gen : Generations, history : Histories]
    /\ lastFull.gen <= selectionGeneration
    /\ active \in Servers \cup {None}
    /\ bootstrap \in BOOLEAN
    /\ bootstrap \/ active # None

(* The mutual exclusion of cycleRunning.                                    *)
OneCycle ==
    /\ loop \in [Loops -> LoopStates]
    /\ cycleRunning \in BOOLEAN
    /\ cycleRunning <=> \E l \in Loops : loop[l] \in Running
    /\ \A l, k \in Loops : loop[l] \in Running /\ loop[k] \in Running => l = k

IInv ==
    /\ SchedulerTypes
    /\ EventTypes
    /\ ServerTypes
    /\ BalancerTypes
    /\ OneCycle
    /\ RequestNotLost

-----------------------------------------------------------------------------
(* The initial state.                                                       *)

LEMMA Initially == Init => IInv
  <1> SUFFICES ASSUME Init PROVE IInv
    OBVIOUS
  <1> USE DEF Init, MonitoringInit
  <1> MaxGeneration \in Nat /\ 0 \in Generations
    BY MonitoringAssumption DEF Generations
  <1>1. SchedulerTypes
    BY DEF SchedulerTypes, NoCycle, CycleStates, NoManual, ManualStates, Requesters, Tasks
  <1>2. EventTypes
    BY DEF EventTypes, NoEvent, Events
  <1>3. ServerTypes
    BY DEF ServerTypes, ServerStates
  <1>4. BalancerTypes
    <2>1. snapshot \in Histories /\ lastFull \in [gen : Generations, history : Histories]
      BY DEF Unread, Histories
    <2>2. \A s \in Servers : snapshot[s] = None
      BY DEF Unread
    <2> QED
      BY <2>1, <2>2 DEF BalancerTypes, IdleWorker, Generations
  <1>5. OneCycle
    BY DEF OneCycle, LoopStates, Running
  <1>6. RequestNotLost
    BY DEF RequestNotLost
  <1> QED
    BY <1>1, <1>2, <1>3, <1>4, <1>5, <1>6 DEF IInv

-----------------------------------------------------------------------------
(* The goroutines of cycles.  A move within Running, and one that touches   *)
(* neither loop nor cycleRunning, preserve both invariants.                 *)

LEMMA MoveWithinRunning ==
    ASSUME OneCycle, RequestNotLost, NEW l \in Loops, NEW from \in Running,
           NEW to \in Running, Moves(l, from, to), UNCHANGED cycleRunning,
           asking' = asking, fullCycleRequested' => fullCycleRequested
    PROVE  OneCycle' /\ RequestNotLost'
  <1>1. loop[l] = from /\ loop' = [loop EXCEPT ![l] = to]
    BY DEF Moves
  <1>2. loop' \in [Loops -> LoopStates]
    BY <1>1 DEF OneCycle, LoopStates
  <1>3. \A k \in Loops : loop'[k] \in Running <=> loop[k] \in Running
    BY <1>1 DEF OneCycle
  <1>4. OneCycle'
    BY <1>2, <1>3 DEF OneCycle
  <1>5. RequestNotLost'
    BY <1>1, <1>2 DEF RequestNotLost, OneCycle
  <1> QED
    BY <1>4, <1>5

LEMMA LoopsUntouched ==
    ASSUME OneCycle, RequestNotLost, UNCHANGED <<loop, cycleRunning>>,
           asking \subseteq asking',
           fullCycleRequested' => fullCycleRequested \/ asking' # {}
    PROVE  OneCycle' /\ RequestNotLost'
  <1>1. OneCycle'
    BY DEF OneCycle
  <1>2. RequestNotLost'
    BY DEF RequestNotLost
  <1> QED
    BY <1>1, <1>2

LEMMA StartKeeps ==
    ASSUME OneCycle, RequestNotLost, NEW r \in Requesters, startCycleOnce(r)
    PROVE  OneCycle' /\ RequestNotLost'
  <1> USE DEF startCycleOnce
  <1>1. CASE cycleRunning
    BY <1>1 DEF OneCycle, RequestNotLost
  <1>2. CASE ~cycleRunning
    <2>1. PICK l \in Loops : loop[l] = "off" /\ loop' = [loop EXCEPT ![l] = "collect"]
      BY <1>2
    <2>2. loop' \in [Loops -> LoopStates] /\ loop'[l] = "collect" /\ cycleRunning' = TRUE
      BY <1>2, <2>1 DEF OneCycle, LoopStates, Running
    <2>3. \A k \in Loops : loop'[k] \in Running => k = l
      BY <1>2, <2>1 DEF OneCycle
    <2>4. "collect" \in Running
      BY DEF Running
    <2>5. OneCycle'
      BY <2>2, <2>3, <2>4 DEF OneCycle
    <2> QED
      BY <2>2, <2>4, <2>5 DEF RequestNotLost
  <1> QED
    BY <1>1, <1>2

LEMMA CycleKeeps ==
    ASSUME OneCycle, RequestNotLost, NEW l \in Loops, Cycle(l)
    PROVE  OneCycle' /\ RequestNotLost'
  <1> USE DEF cycleVars
  <1>1. CASE Collect(l)
    <2>1. "collect" \in Running /\ "clear" \in Running /\ "reset" \in Running
      BY DEF Running
    <2> QED
      BY <1>1, <2>1, MoveWithinRunning DEF Collect
  <1>2. CASE beginCheckGeneration(l)
    <2>1. "stage" \in Running /\ "reset" \in Running
      BY DEF Running
    <2> QED
      BY <1>2, <2>1, MoveWithinRunning DEF beginCheckGeneration
  <1>3. CASE EnqueueBatch(l)
    <2>1. "stage" \in Running /\ "wait" \in Running
      BY DEF Running
    <2> QED
      BY <1>3, <2>1, MoveWithinRunning DEF EnqueueBatch
  <1>4. CASE PublishBatch(l)
    <2>1. "stage" \in Running /\ "wait" \in Running /\ "finish" \in Running
      BY DEF Running
    <2> QED
      BY <1>4, <2>1, MoveWithinRunning DEF PublishBatch
  <1>5. CASE FinishCycle(l)
    <2>1. "clear" \in Running /\ "finish" \in Running
      BY DEF Running
    <2> QED
      BY <1>5, <2>1, MoveWithinRunning DEF FinishCycle
  <1>6. CASE ClearRunning(l)
    <2>1. /\ loop[l] = "clear" /\ loop' = [loop EXCEPT ![l] = "retest"]
          /\ cycleRunning' = FALSE /\ UNCHANGED <<asking, fullCycleRequested>>
      BY <1>6 DEF ClearRunning, Moves
    <2>2. "clear" \in Running /\ "retest" \notin Running
      BY DEF Running
    <2>3. loop' \in [Loops -> LoopStates] /\ loop'[l] = "retest"
      BY <2>1 DEF OneCycle, LoopStates
    <2>4. \A k \in Loops : loop'[k] \notin Running
      BY <2>1, <2>2, <2>3 DEF OneCycle
    <2>5. OneCycle'
      BY <2>1, <2>3, <2>4 DEF OneCycle
    <2> QED
      BY <2>3, <2>5 DEF RequestNotLost
  <1>7. CASE TestAgain(l)
    <2>1. /\ loop[l] = "retest"
          /\ loop' = [loop EXCEPT ![l] = IF fullCycleRequested THEN "reacquire" ELSE "off"]
          /\ UNCHANGED <<cycleRunning, asking, fullCycleRequested>>
      BY <1>7 DEF TestAgain, Moves
    <2>2. "retest" \notin Running /\ "reacquire" \notin Running /\ "off" \notin Running
      BY DEF Running
    <2>3. loop' \in [Loops -> LoopStates]
      BY <2>1 DEF OneCycle, LoopStates
    <2>4. \A k \in Loops : loop'[k] \in Running <=> loop[k] \in Running
      BY <2>1, <2>2 DEF OneCycle
    <2>5. OneCycle'
      BY <2>1, <2>3, <2>4 DEF OneCycle
    <2>6. fullCycleRequested => loop'[l] = "reacquire"
      BY <2>1 DEF OneCycle
    <2> QED
      BY <2>1, <2>5, <2>6 DEF RequestNotLost
  <1>8. CASE Reacquire(l)
    <2>1. /\ loop[l] = "reacquire"
          /\ loop' = [loop EXCEPT ![l] = IF cycleRunning THEN "off" ELSE "collect"]
          /\ cycleRunning' = TRUE /\ UNCHANGED <<asking, fullCycleRequested>>
      BY <1>8 DEF Reacquire, Moves
    <2>2. "reacquire" \notin Running /\ "off" \notin Running /\ "collect" \in Running
      BY DEF Running
    <2>3. loop' \in [Loops -> LoopStates]
      BY <2>1 DEF OneCycle, LoopStates, Running
    <2>4. CASE cycleRunning
      <3>1. \A k \in Loops : loop'[k] \in Running <=> loop[k] \in Running
        BY <2>1, <2>2, <2>4 DEF OneCycle
      <3>2. OneCycle'
        BY <2>1, <2>3, <2>4, <3>1 DEF OneCycle
      <3>3. \E k \in Loops : loop'[k] \in Running
        BY <2>4, <3>1 DEF OneCycle
      <3> QED
        BY <3>2, <3>3 DEF RequestNotLost
    <2>5. CASE ~cycleRunning
      <3>1. loop'[l] = "collect"
        BY <2>1, <2>5 DEF OneCycle
      <3>2. \A k \in Loops : loop'[k] \in Running => k = l
        BY <2>1, <2>5 DEF OneCycle
      <3>3. OneCycle'
        BY <2>1, <2>2, <2>3, <3>1, <3>2 DEF OneCycle
      <3> QED
        BY <2>2, <3>1, <3>3 DEF RequestNotLost
    <2> QED
      BY <2>4, <2>5 DEF OneCycle
  <1> QED
    BY <1>1, <1>2, <1>3, <1>4, <1>5, <1>6, <1>7, <1>8 DEF Cycle

-----------------------------------------------------------------------------
(* What a step makes of a server, and of the group's channel, has the type. *)

Sound(r) == r \in ServerStates /\ (r.ready => r.status # "none")

LEMMA ServersAreSound ==
    ServerTypes <=> srv \in [Servers -> ServerStates] /\ \A s \in Servers : Sound(srv[s])
  BY DEF ServerTypes, Sound

LEMMA ServerOperators ==
    ASSUME NEW r, Sound(r), NEW g \in Generations, NEW result \in Results
    PROVE  /\ Sound(Reset(r, g))
           /\ Sound(Enqueued(r, g))
           /\ Sound(Applied(r, g, result))
           /\ Sound([r EXCEPT !.enqueued = g])
           /\ Sound([r EXCEPT !.enqueued = 0])
           /\ Sound([r EXCEPT !.enqueued = g, !.status = "checking"])
  <1> 0 \in Generations
    BY MonitoringAssumption DEF Generations
  <1> QED
    BY DEF Sound, ServerStates, Reset, Enqueued, Applied, OfGeneration, Results

LEMMA PublishTypes ==
    ASSUME EventTypes, NEW event \in Events, Publish(event)
    PROVE  /\ observer' \in [open : BOOLEAN, events : SUBSET Events]
           /\ observer'.events # {} => observer'.open
  BY DEF EventTypes, Publish

LEMMA PublishBatchTypes ==
    ASSUME EventTypes, NEW event \in Events, publishCompletedBatch(event)
    PROVE  EventTypes'
  <1>1. completed' \in Events
    BY DEF publishCompletedBatch, EventTypes
  <1> QED
    BY <1>1, PublishTypes DEF publishCompletedBatch, EventTypes

(* A step that changes one server, or none.                                 *)
LEMMA OneServer ==
    ASSUME ServerTypes, NEW s \in Servers, NEW r, Sound(r), srv' = [srv EXCEPT ![s] = r]
    PROVE  ServerTypes'
  BY DEF ServerTypes, Sound

LEMMA EveryServer ==
    ASSUME srv' = [s \in Servers |-> srv'[s]], \A s \in Servers : Sound(srv'[s])
    PROVE  ServerTypes'
  <1>1. \A s \in Servers : srv'[s] \in ServerStates
    BY DEF Sound
  <1>2. srv' \in [Servers -> ServerStates]
    BY <1>1
  <1> QED
    BY <1>2 DEF ServerTypes, Sound

LEMMA BatchesWithin ==
    ASSUME NEW left, NEW b \in Batches(left)
    PROVE  b \subseteq left
  BY DEF Batches

LEMMA NextGeneration ==
    ASSUME cycleSeq \in Generations, cycleSeq < MaxGeneration
    PROVE  cycleSeq + 1 \in Generations
  BY MonitoringAssumption DEF Generations

-----------------------------------------------------------------------------
(* The types, action by action.                                             *)

Types == SchedulerTypes /\ EventTypes /\ ServerTypes

LEMMA StartTypes ==
    ASSUME Types, NEW r \in Requesters, startCycleOnce(r)
    PROVE  Types'
  <1>1. asking' \subseteq Requesters
    BY DEF startCycleOnce, Types, SchedulerTypes
  <1> QED
    BY <1>1 DEF startCycleOnce, Types, SchedulerTypes, EventTypes, ServerTypes, manualVars,
                eventVars

LEMMA ResetTypes ==
    ASSUME ServerTypes, NEW s \in Servers, NEW g \in Generations, ResetServer(s, g)
    PROVE  ServerTypes'
  <1>1. Sound(Reset(srv[s], g))
    BY ServersAreSound, ServerOperators DEF Results
  <1> QED
    BY <1>1, OneServer DEF ResetServer

LEMMA CycleTypes ==
    ASSUME Types, NEW l \in Loops, Cycle(l)
    PROVE  Types'
  <1> USE DEF Types, cycleVars, manualVars, eventVars
  <1>1. CASE Collect(l)
    <2>1. cycleSeq + 1 \in Generations
      BY <1>1, NextGeneration DEF Collect, SchedulerTypes
    <2>2. cyc' \in CycleStates
      BY <1>1, <2>1 DEF Collect, NoCycle, CycleStates
    <2> QED
      BY <1>1, <2>1, <2>2 DEF Collect, SchedulerTypes, EventTypes, ServerTypes
  <1>2. CASE beginCheckGeneration(l)
    <2>1. PICK s \in cyc.left :
            /\ ResetServer(s, cyc.gen)
            /\ cyc' = [cyc EXCEPT !.left = IF cyc.left = {s} THEN cyc.targets
                                           ELSE cyc.left \ {s}]
            /\ UNCHANGED <<cycleSeq, fullCycleRequested, asking, tests, manualVars,
                           completed, observer>>
      BY <1>2 DEF beginCheckGeneration
    <2>2. s \in Servers /\ cyc.gen \in Generations /\ cyc' \in CycleStates
      BY <2>1 DEF SchedulerTypes, CycleStates
    <2>3. ServerTypes'
      BY <2>1, <2>2, ResetTypes
    <2> QED
      BY <2>1, <2>2, <2>3 DEF SchedulerTypes, EventTypes
  <1>3. CASE EnqueueBatch(l)
    <2> DEFINE accepted(b) == {s \in b : Accepts(srv[s], cyc.gen)}
    <2>1. PICK b \in Batches(cyc.left) :
            /\ srv' = [s \in Servers |-> IF s \in accepted(b)
                                         THEN Enqueued(srv[s], cyc.gen) ELSE srv[s]]
            /\ tests' = tests \cup {[tag |-> s, gen |-> cyc.gen] : s \in accepted(b)}
            /\ cyc' = [cyc EXCEPT !.left = @ \ b, !.waiting = accepted(b),
                                  !.number = @ + 1]
            /\ UNCHANGED <<cycleSeq, fullCycleRequested, asking, manualVars, eventVars>>
      BY <1>3 DEF EnqueueBatch
    <2>2. accepted(b) \subseteq Servers /\ cyc.gen \in Generations
      BY <2>1, BatchesWithin DEF SchedulerTypes, CycleStates
    <2>3. tests' \subseteq Tasks
      BY <2>1, <2>2 DEF SchedulerTypes, Tasks
    <2>4. cyc' \in CycleStates
      <3> HIDE DEF accepted
      <3>1. cyc' = [cyc EXCEPT !.left = @ \ b, !.waiting = accepted(b), !.number = @ + 1]
        BY <2>1
      <3>2. accepted(b) \in SUBSET Servers /\ cyc.left \ b \in SUBSET Servers
            /\ cyc.number + 1 \in Nat
        BY <2>2 DEF SchedulerTypes, CycleStates
      <3> QED
        BY <3>1, <3>2 DEF SchedulerTypes, CycleStates
    <2>5. \A s \in Servers : Sound(srv'[s])
      BY <2>1, <2>2, ServersAreSound, ServerOperators DEF Results
    <2>6. ServerTypes'
      BY <2>1, <2>5, EveryServer
    <2> QED
      BY <2>1, <2>3, <2>4, <2>6 DEF SchedulerTypes, EventTypes
  <1>4. CASE PublishBatch(l)
    <2>1. [gen |-> cyc.gen, batch |-> cyc.number] \in Events
      BY DEF SchedulerTypes, CycleStates, Events
    <2>2. EventTypes'
      BY <1>4, <2>1, PublishBatchTypes DEF PublishBatch
    <2> QED
      BY <1>4, <2>2 DEF PublishBatch, SchedulerTypes, ServerTypes
  <1>5. CASE FinishCycle(l)
    BY <1>5 DEF FinishCycle, SchedulerTypes, EventTypes, ServerTypes
  <1>6. CASE ClearRunning(l)
    <2>1. cyc' \in CycleStates
      BY <1>6, MonitoringAssumption DEF ClearRunning, NoCycle, CycleStates, Generations
    <2> QED
      BY <1>6, <2>1 DEF ClearRunning, SchedulerTypes, EventTypes, ServerTypes
  <1>7. CASE TestAgain(l)
    BY <1>7 DEF TestAgain, SchedulerTypes, EventTypes, ServerTypes
  <1>8. CASE Reacquire(l)
    BY <1>8 DEF Reacquire, SchedulerTypes, EventTypes, ServerTypes
  <1> QED
    BY <1>1, <1>2, <1>3, <1>4, <1>5, <1>6, <1>7, <1>8 DEF Cycle

LEMMA ResultTypes ==
    ASSUME Types, NEW task \in tests, NEW result \in Results, applyResult(task, result)
    PROVE  Types'
  <1> USE DEF Types
  <1>1. task.tag \in Servers /\ task.gen \in Generations
    BY DEF SchedulerTypes, Tasks
  <1>2. Sound(Applied(srv[task.tag], task.gen, result))
    BY <1>1, ServersAreSound, ServerOperators
  <1>3. ServerTypes'
    BY <1>1, <1>2, OneServer DEF applyResult
  <1>4. cyc' \in CycleStates
    BY DEF applyResult, SchedulerTypes, CycleStates
  <1>5. tests' \subseteq Tasks
    BY DEF applyResult, SchedulerTypes
  <1> QED
    BY <1>3, <1>4, <1>5 DEF applyResult, SchedulerTypes, EventTypes, manualVars, eventVars

LEMMA ManualTypes ==
    ASSUME Types, Manual
    PROVE  Types'
  <1> USE DEF Types, cycleVars, eventVars
  <1> man.gen \in Generations
    BY DEF SchedulerTypes, ManualStates
  <1>1. CASE ManualStart
    <2>1. cycleSeq + 1 \in Generations
      BY <1>1, NextGeneration DEF ManualStart, SchedulerTypes
    <2>2. man' \in ManualStates
      BY <1>1, <2>1 DEF ManualStart, NoManual, ManualStates
    <2> QED
      BY <1>1, <2>1, <2>2 DEF ManualStart, SchedulerTypes, EventTypes, ServerTypes
  <1>2. CASE ManualReset
    <2>1. PICK s \in man.left :
            /\ ResetServer(s, man.gen)
            /\ man' = IF man.left = {s}
                      THEN [man EXCEPT !.pc = "prepare", !.left = Servers]
                      ELSE [man EXCEPT !.left = @ \ {s}]
            /\ UNCHANGED <<cycleVars, manualRefreshAt, completed, observer>>
      BY <1>2 DEF ManualReset
    <2>2. s \in Servers /\ man' \in ManualStates
      BY <2>1 DEF SchedulerTypes, ManualStates
    <2>3. ServerTypes'
      BY <2>1, <2>2, ResetTypes
    <2> QED
      BY <2>1, <2>2, <2>3 DEF SchedulerTypes, EventTypes
  <1>3. CASE prepareManualRefreshTarget
    <2> DEFINE prepared(s) == IF srv[s].gen = man.gen THEN man.prepared \cup {s}
                              ELSE man.prepared
               pc(s) == CASE man.left # {s} -> "prepare"
                          [] man.left = {s} /\ prepared(s) = {} -> "mark"
                          [] OTHER -> "run"
    <2>1. PICK s \in man.left :
            /\ man' = [man EXCEPT !.prepared = prepared(s),
                                  !.left = IF man.left = {s} THEN prepared(s)
                                           ELSE @ \ {s},
                                  !.pc = pc(s)]
            /\ \/ srv' = [srv EXCEPT ![s].enqueued = man.gen, ![s].status = "checking"]
               \/ UNCHANGED srv
            /\ UNCHANGED <<cycleVars, manualRefreshAt, completed, observer>>
      BY <1>3 DEF prepareManualRefreshTarget
    <2>2. s \in Servers /\ prepared(s) \in SUBSET Servers
      BY <2>1 DEF SchedulerTypes, ManualStates
    <2>3. pc(s) \in {"prepare", "mark", "run"}
      OBVIOUS
    <2>4. man' \in ManualStates
      <3> HIDE DEF prepared, pc
      <3> QED
        BY <2>1, <2>2, <2>3 DEF SchedulerTypes, ManualStates
    <2>5. ServerTypes'
      <3>1. CASE UNCHANGED srv
        BY <3>1 DEF ServerTypes
      <3>2. CASE srv' = [srv EXCEPT ![s].enqueued = man.gen, ![s].status = "checking"]
        <4>1. Sound([srv[s] EXCEPT !.enqueued = man.gen, !.status = "checking"])
          BY <2>2, ServersAreSound, ServerOperators DEF Results
        <4>2. srv' = [srv EXCEPT ![s] =
                        [srv[s] EXCEPT !.enqueued = man.gen, !.status = "checking"]]
          BY <2>2, <3>2 DEF ServerTypes, ServerStates
        <4> QED
          BY <2>2, <4>1, <4>2, OneServer
      <3> QED
        BY <2>1, <3>1, <3>2
    <2> QED
      BY <2>1, <2>4, <2>5 DEF SchedulerTypes, EventTypes
  <1>4. CASE StartBatch
    <2>1. PICK b \in Batches(man.left) :
            /\ man' = [man EXCEPT !.batch = b, !.left = @ \ b, !.number = @ + 1]
            /\ srv' = [s \in Servers |-> IF s \in b THEN [srv[s] EXCEPT !.enqueued = 0]
                                         ELSE srv[s]]
            /\ UNCHANGED <<cycleVars, manualRefreshAt, eventVars>>
      BY <1>4 DEF StartBatch
    <2>2. b \in SUBSET Servers /\ man.left \ b \in SUBSET Servers /\ man.number + 1 \in Nat
      BY <2>1, BatchesWithin DEF SchedulerTypes, ManualStates
    <2>3. man' \in ManualStates
      BY <2>1, <2>2 DEF SchedulerTypes, ManualStates
    <2>4. \A s \in Servers : Sound(srv'[s])
      BY <2>1, ServersAreSound, ServerOperators DEF Results
    <2>5. ServerTypes'
      BY <2>1, <2>4, EveryServer
    <2> QED
      BY <2>1, <2>3, <2>5 DEF SchedulerTypes, EventTypes
  <1>5. CASE ManualPublish
    <2>1. [gen |-> man.gen, batch |-> man.number] \in Events
      BY DEF SchedulerTypes, ManualStates, Events
    <2>2. EventTypes'
      BY <1>5, <2>1, PublishBatchTypes DEF ManualPublish
    <2>3. man' \in ManualStates
      BY <1>5 DEF ManualPublish, SchedulerTypes, ManualStates
    <2> QED
      BY <1>5, <2>2, <2>3 DEF ManualPublish, SchedulerTypes, ServerTypes
  <1>6. CASE ManualTimeout
    <2> DEFINE Released(r) == IF r.gen = man.gen THEN [r EXCEPT !.enqueued = 0] ELSE r
               pending == man.left \cup man.batch
    <2>0. PICK late \in SUBSET man.batch : \E result \in [late -> Results] :
            srv' = [s \in Servers |->
                      CASE s \in late -> Released(Applied(srv[s], man.gen, result[s]))
                        [] s \in pending \ late -> Released(srv[s])
                        [] OTHER -> srv[s]]
      BY <1>6 DEF ManualTimeout
    <2>1. PICK result \in [late -> Results] :
            srv' = [s \in Servers |->
                      CASE s \in late -> Released(Applied(srv[s], man.gen, result[s]))
                        [] s \in pending \ late -> Released(srv[s])
                        [] OTHER -> srv[s]]
      BY <2>0
    <2>2. \A r : Sound(r) => Sound(Released(r))
      BY ServerOperators DEF Results
    <2>3. ASSUME NEW s \in Servers PROVE Sound(srv'[s])
      <3>1. Sound(srv[s])
        BY ServersAreSound
      <3>2. CASE s \in late
        <4>1. Sound(Applied(srv[s], man.gen, result[s]))
          BY <3>1, <3>2, ServerOperators
        <4> QED
          BY <2>1, <2>2, <3>2, <4>1
      <3>3. CASE s \notin late
        BY <2>1, <2>2, <3>1, <3>3
      <3> QED
        BY <3>2, <3>3
    <2>4. ServerTypes'
      BY <2>1, <2>3, EveryServer
    <2>5. man' \in ManualStates
      BY <1>6 DEF ManualTimeout, SchedulerTypes, ManualStates
    <2> QED
      BY <1>6, <2>4, <2>5 DEF ManualTimeout, SchedulerTypes, EventTypes
  <1>7. CASE markManualRefreshForTargets
    <2>1. man' \in ManualStates
      BY <1>7, MonitoringAssumption
      DEF markManualRefreshForTargets, NoManual, ManualStates, Generations
    <2> QED
      BY <1>7, <2>1 DEF markManualRefreshForTargets, SchedulerTypes, EventTypes, ServerTypes
  <1>8. CASE \E s \in Servers, result \in Results : executeManualRefreshTarget(s, result)
    <2>1. PICK s \in Servers, result \in Results : executeManualRefreshTarget(s, result)
      BY <1>8
    <2>2. Sound(Applied(srv[s], man.gen, result))
      BY ServersAreSound, ServerOperators
    <2>3. ServerTypes'
      BY <2>1, <2>2, OneServer DEF executeManualRefreshTarget
    <2>4. man' \in ManualStates
      BY <2>1 DEF executeManualRefreshTarget, SchedulerTypes, ManualStates
    <2> QED
      BY <2>1, <2>3, <2>4 DEF executeManualRefreshTarget, SchedulerTypes, EventTypes
  <1> QED
    BY <1>1, <1>2, <1>3, <1>4, <1>5, <1>6, <1>7, <1>8 DEF Manual

LEMMA ManualKeeps ==
    ASSUME Manual
    PROVE  UNCHANGED <<loop, cycleRunning, asking, fullCycleRequested>>
  BY DEF Manual, ManualStart, ManualReset, prepareManualRefreshTarget, StartBatch,
         ManualPublish, ManualTimeout, markManualRefreshForTargets,
         executeManualRefreshTarget, cycleVars

LEMMA NotifierTypes ==
    ASSUME Types, emitGroupEventThrottled
    PROVE  Types'
  <1>1. EventTypes'
    BY PublishTypes DEF emitGroupEventThrottled, Types, EventTypes
  <1> QED
    BY <1>1 DEF emitGroupEventThrottled, Types, SchedulerTypes, ServerTypes, cycleVars,
                manualVars

-----------------------------------------------------------------------------
(* A step of the monitoring, and one of the balancer.                       *)

LEMMA MonitoringKeeps ==
    ASSUME IInv, MonitoringStep, UNCHANGED balancerVars
    PROVE  IInv'
  <1> USE DEF IInv
  <1> Types
    BY DEF Types
  <1>1. BalancerTypes'
    BY DEF BalancerTypes, balancerVars, selectionVars
  <1>2. Types' /\ OneCycle' /\ RequestNotLost'
    <2>1. CASE \E r \in Requesters : startCycleOnce(r)
      BY <2>1, StartTypes, StartKeeps
    <2>2. CASE \E l \in Loops : Cycle(l)
      BY <2>2, CycleTypes, CycleKeeps
    <2>3. CASE \E task \in tests, result \in Results : applyResult(task, result)
      <3>1. PICK task \in tests, result \in Results : applyResult(task, result)
        BY <2>3
      <3>2. UNCHANGED <<loop, cycleRunning, asking, fullCycleRequested>>
        BY <3>1 DEF applyResult
      <3>3. OneCycle' /\ RequestNotLost'
        BY <3>2, LoopsUntouched
      <3>4. Types'
        BY <3>1, ResultTypes
      <3> QED
        BY <3>3, <3>4
    <2>4. CASE Manual
      <3>1. UNCHANGED <<loop, cycleRunning, asking, fullCycleRequested>>
        BY <2>4, ManualKeeps
      <3>2. OneCycle' /\ RequestNotLost'
        BY <3>1, LoopsUntouched
      <3> QED
        BY <2>4, <3>2, ManualTypes
    <2>5. CASE emitGroupEventThrottled
      <3>1. UNCHANGED <<loop, cycleRunning, asking, fullCycleRequested>>
        BY <2>5 DEF emitGroupEventThrottled, cycleVars
      <3>2. OneCycle' /\ RequestNotLost'
        BY <3>1, LoopsUntouched
      <3> QED
        BY <2>5, <3>2, NotifierTypes
    <2> QED
      BY <2>1, <2>2, <2>3, <2>4, <2>5 DEF MonitoringStep
  <1> QED
    BY <1>1, <1>2 DEF Types

(* What the worker reads, and what it makes of it.                          *)
Evidence(h) ==
    /\ h \in Histories
    /\ \A s \in Servers : h[s] # None => (h[s].ready => h[s].status # "none")

LEMMA ReadsViews ==
    ASSUME IInv, NEW s \in Unreads
    PROVE  /\ s \in Servers
           /\ Evidence(Has(s))
           /\ Has(s)[s] = Ranking(srv[s])
           /\ \A t \in Servers \ {s} : Has(s)[t] = snapshot[t]
  <1>1. s \in Servers
    BY DEF Unreads
  <1>2. Ranking(srv[s]) \in Views /\ (Ranking(srv[s]).ready => Ranking(srv[s]).status # "none")
    BY <1>1 DEF IInv, ServerTypes, ServerStates, Ranking, Views
  <1>3. snapshot \in [Servers -> Views \cup {None}]
    BY DEF IInv, BalancerTypes, Histories
  <1>4. Has(s) = [snapshot EXCEPT ![s] = Ranking(srv[s])]
    BY DEF Has
  <1>5. Has(s)[s] = Ranking(srv[s]) /\ \A t \in Servers \ {s} : Has(s)[t] = snapshot[t]
    BY <1>1, <1>3, <1>4
  <1>6. Has(s) \in Histories
    BY <1>1, <1>2, <1>3, <1>4 DEF Histories
  <1>7. \A t \in Servers : Has(s)[t] # None => (Has(s)[t].ready => Has(s)[t].status # "none")
    BY <1>2, <1>5 DEF IInv, BalancerTypes
  <1> QED
    BY <1>1, <1>5, <1>6, <1>7 DEF Evidence

LEMMA RememberedCohort ==
    ASSUME BalancerTypes, NEW h, h \in Histories, NEW g \in Generations,
           selectionGeneration <= g
    PROVE  /\ rememberFullGeneration(h, g) \in [gen : Generations, history : Histories]
           /\ rememberFullGeneration(h, g).gen <= g
  <1>1. CASE ~generationSettled(h, g) \/ g < lastFull.gen
    BY <1>1 DEF rememberFullGeneration, BalancerTypes, Generations
  <1>2. CASE generationSettled(h, g) /\ g > lastFull.gen
    BY <1>2 DEF rememberFullGeneration, BalancerTypes, Generations
  <1>3. CASE generationSettled(h, g) /\ g = lastFull.gen
    <2> DEFINE merged == [s \in Servers |-> IF h[s].status = "failed" THEN h[s]
                                            ELSE lastFull.history[s]]
    <2>1. merged \in Histories
      BY DEF Histories, BalancerTypes
    <2>2. rememberFullGeneration(h, g) = [lastFull EXCEPT !.history = merged]
      BY <1>3 DEF rememberFullGeneration, BalancerTypes, Generations
    <2> QED
      BY <1>3, <2>1, <2>2 DEF BalancerTypes, Generations
  <1> QED
    BY <1>1, <1>2, <1>3 DEF BalancerTypes, Generations

(* A decision keeps what is active or takes an eligible server.             *)
Decided(decision, h, d, g) ==
    \/ decision.active = active /\ decision.bootstrap = bootstrap
    \/ bootstrap /\ decision.active \in Eligible(h, g) /\ decision.bootstrap \in BOOLEAN
    \/ ~bootstrap /\ decision.active \in Eligible(d, g) /\ decision.bootstrap = bootstrap

LEMMA DecisionsTaken ==
    ASSUME BalancerTypes, NEW h, NEW d, NEW g, NEW full,
           NEW decision \in IF bootstrap THEN StartupDecisions(h, g)
                            ELSE ConfirmedDecisions(h, d, g, full)
    PROVE  Decided(decision, h, d, g)
  <1>1. Keep.active = active /\ Keep.bootstrap = bootstrap
    BY DEF Keep
  <1>2. CASE decision = Keep
    BY <1>1, <1>2 DEF Decided
  <1>3. CASE bootstrap /\ decision # Keep
    <2>1. PICK c \in Eligible(h, g) :
            decision = [active |-> c, bootstrap |-> ~bootstrapGenerationSettled(h, g)]
      BY <1>3 DEF StartupDecisions
    <2>2. decision.active = c /\ decision.bootstrap = ~bootstrapGenerationSettled(h, g)
      BY <2>1, Zenon
    <2>3. decision.bootstrap \in BOOLEAN
      BY <2>2, Zenon DEF bootstrapGenerationSettled
    <2> QED
      BY <1>3, <2>2, <2>3, Zenon DEF Decided
  <1>4. CASE ~bootstrap /\ decision # Keep
    <2>1. PICK c \in Eligible(d, g) : decision = [Keep EXCEPT !.active = c]
      BY <1>4 DEF ConfirmedDecisions
    <2>2. decision.active = c /\ decision.bootstrap = bootstrap
      BY <2>1 DEF Keep
    <2> QED
      BY <1>4, <2>2, Zenon DEF Decided
  <1> QED
    BY <1>2, <1>3, <1>4

LEMMA BalancerKeeps ==
    ASSUME IInv, BalancerStep
    PROVE  IInv'
  <1> USE DEF cycleVars, manualVars
  <1>1. CASE SubscribeGroup
    <2>1. EventTypes'
      BY <1>1 DEF SubscribeGroup, IInv, EventTypes
    <2>2. BalancerTypes'
      BY <1>1 DEF SubscribeGroup, IInv, BalancerTypes, selectionVars
    <2>3. OneCycle' /\ RequestNotLost'
      BY <1>1, LoopsUntouched DEF SubscribeGroup, IInv
    <2> QED
      BY <1>1, <2>1, <2>2, <2>3 DEF SubscribeGroup, IInv, SchedulerTypes, ServerTypes
  <1>2. CASE Receive
    <2>1. EventTypes' /\ SchedulerTypes' /\ ServerTypes'
      BY <1>2 DEF Receive, IInv, EventTypes, SchedulerTypes, ServerTypes
    <2>2. worker'.mode \in {"manual", "batch", "plain"}
      BY <1>2 DEF Receive
    <2>3. BalancerTypes'
      BY <1>2, <2>2 DEF Receive, IInv, BalancerTypes, selectionVars
    <2>4. OneCycle' /\ RequestNotLost'
      BY <1>2, LoopsUntouched DEF Receive, IInv
    <2> QED
      BY <2>1, <2>3, <2>4 DEF IInv
  <1>3. CASE OutboundsRankingHistory
    <2>1. PICK s \in Unreads : snapshot' = Has(s)
                               /\ UNCHANGED <<monitoringVars, worker, selectionVars>>
      BY <1>3 DEF OutboundsRankingHistory
    <2>2. Evidence(snapshot')
      BY <2>1, ReadsViews
    <2>3. BalancerTypes'
      BY <2>1, <2>2 DEF IInv, BalancerTypes, Evidence, selectionVars
    <2>4. OneCycle' /\ RequestNotLost'
      BY <2>1, LoopsUntouched DEF IInv, monitoringVars
    <2> QED
      BY <2>1, <2>3, <2>4
      DEF IInv, SchedulerTypes, EventTypes, ServerTypes, monitoringVars, eventVars
  <1>4. CASE updateOutboundsInfo
    <2> DEFINE g(h) == IF /\ currentGeneration(h) > selectionGeneration
                          /\ generationCoversAll(h, currentGeneration(h))
                       THEN currentGeneration(h) ELSE selectionGeneration
               full(h) == rememberFullGeneration(h, g(h))
               d(h) == IF ~bootstrap /\ g(h) > 0 /\ g(h) = full(h).gen
                       THEN fullGenerationDecisionHistory(h, full(h)) ELSE h
    <2>1. PICK s \in Unreads :
            /\ Unreads = {s}
            /\ worker' = IdleWorker
            /\ snapshot' = Unread
            /\ selectionGeneration' = g(Has(s))
            /\ lastFull' = full(Has(s))
            /\ \E decision \in IF bootstrap THEN StartupDecisions(Has(s), g(Has(s)))
                               ELSE ConfirmedDecisions(Has(s), d(Has(s)), g(Has(s)),
                                                       full(Has(s))) :
                 /\ active' = decision.active
                 /\ bootstrap' = decision.bootstrap
                 /\ \/ Request("worker")
                    \/ UNCHANGED <<fullCycleRequested, asking>>
      BY <1>4 DEF updateOutboundsInfo
    <2>2. UNCHANGED <<srv, cycleSeq, cycleRunning, loop, cyc, tests, manualVars, eventVars>>
      BY <1>4 DEF updateOutboundsInfo
    <2> HIDE DEF g, full, d
    <2>3. s \in Servers /\ Has(s) \in Histories /\ Has(s)[s].gen \in Generations
      BY <2>1, ReadsViews DEF Evidence, IInv, ServerTypes, ServerStates, Ranking
    <2>4. selectionGeneration' \in Generations /\ selectionGeneration <= selectionGeneration'
      <3>1. generationCoversAll(Has(s), currentGeneration(Has(s)))
              => currentGeneration(Has(s)) \in Generations
        BY <2>3 DEF generationCoversAll
      <3> QED
        BY <2>1, <3>1 DEF g, IInv, BalancerTypes, Generations
    <2>5. /\ lastFull' \in [gen : Generations, history : Histories]
          /\ lastFull'.gen <= selectionGeneration'
      BY <2>1, <2>3, <2>4, RememberedCohort DEF full, IInv
    <2>6. active' \in Servers \cup {None} /\ bootstrap' \in BOOLEAN
          /\ (bootstrap' \/ active' # None)
      <3>1. \A h, e : Eligible(h, e) \subseteq Servers
        BY DEF Eligible
      <3>2. PICK decision \in IF bootstrap THEN StartupDecisions(Has(s), g(Has(s)))
                              ELSE ConfirmedDecisions(Has(s), d(Has(s)), g(Has(s)),
                                                      full(Has(s))) :
              active' = decision.active /\ bootstrap' = decision.bootstrap
        BY <2>1, Zenon
      <3>3. BalancerTypes
        BY DEF IInv
      <3>4. Decided(decision, Has(s), d(Has(s)), g(Has(s)))
        BY <3>2, <3>3, DecisionsTaken, Zenon
      <3>5. \/ active' = active /\ bootstrap' = bootstrap
            \/ active' \in Servers /\ bootstrap' \in BOOLEAN
        BY <3>1, <3>2, <3>3, <3>4 DEF Decided, BalancerTypes
      <3> QED
        BY <3>3, <3>5, MonitoringAssumption DEF BalancerTypes
    <2>7. snapshot' \in Histories /\ \A t \in Servers : snapshot'[t] = None
      BY <2>1 DEF Unread, Histories
    <2>8. BalancerTypes'
      BY <2>1, <2>4, <2>5, <2>6, <2>7 DEF BalancerTypes, IdleWorker
    <2>9. /\ fullCycleRequested' \in BOOLEAN /\ asking' \subseteq Requesters
          /\ asking \subseteq asking'
          /\ fullCycleRequested' => fullCycleRequested \/ asking' # {}
      BY <2>1 DEF Request, Requesters, IInv, SchedulerTypes
    <2>10. OneCycle' /\ RequestNotLost'
      BY <2>2, <2>9, LoopsUntouched DEF IInv
    <2> QED
      BY <2>2, <2>8, <2>9, <2>10 DEF IInv, SchedulerTypes, EventTypes, ServerTypes, eventVars
  <1> QED
    BY <1>1, <1>2, <1>3, <1>4 DEF BalancerStep

-----------------------------------------------------------------------------
(* The invariant holds in every state of every behaviour.                   *)
THEOREM Invariance == Spec => []IInv
  <1>1. Init => IInv
    BY Initially
  <1>2. IInv /\ [Next]_vars => IInv'
    <2> SUFFICES ASSUME IInv, [Next]_vars PROVE IInv'
      OBVIOUS
    <2>1. CASE MonitoringStep /\ UNCHANGED balancerVars
      BY <2>1, MonitoringKeeps
    <2>2. CASE BalancerStep
      BY <2>2, BalancerKeeps
    <2>3. CASE UNCHANGED vars
      BY <2>3 DEF vars, monitoringVars, cycleVars, manualVars, eventVars, balancerVars,
                  selectionVars, IInv, SchedulerTypes, EventTypes, ServerTypes,
                  BalancerTypes, OneCycle, RequestNotLost
    <2> QED
      BY <2>1, <2>2, <2>3 DEF Next
  <1> QED
    BY <1>1, <1>2, PTL DEF Spec

(* Every variable stays within its type, and at most one goroutine runs a   *)
(* cycle, exactly while cycleRunning is set.                                *)
THEOREM TypesHold == Spec => []TypeOK
  <1>1. IInv => TypeOK
    <2> SUFFICES ASSUME IInv PROVE TypeOK
      OBVIOUS
    <2>1. lastFull.gen \in 0..selectionGeneration
      BY DEF IInv, BalancerTypes, Generations
    <2> QED
      BY <2>1 DEF IInv, SchedulerTypes, EventTypes, ServerTypes, BalancerTypes, OneCycle,
                  LoopStates, TypeOK
  <1> QED
    BY <1>1, Invariance, PTL

(* A requested full cycle is never lost between the end of a cycle and the  *)
(* start of the next (startCycleOnce).                                      *)
THEOREM RequestNotLostAlways == Spec => []RequestNotLost
  <1>1. IInv => RequestNotLost
    BY DEF IInv
  <1> QED
    BY <1>1, Invariance, PTL
-----------------------------------------------------------------------------
(* A server that is chosen was read as a success, or is one of the last     *)
(* settled cohort that nothing read contradicts.                            *)
Verified(s) ==
    \/ Promotes(Ranked(s), selectionGeneration')
    \/ /\ lastFull'.gen > 0
       /\ Promotes(lastFull'.history[s], lastFull'.gen)
       /\ \/ Ranked(s).status = "success"
          \/ Ranked(s).gen < lastFull'.gen

LEMMA LastReadRanks ==
    ASSUME IInv, NEW s \in Unreads, Unreads = {s}
    PROVE  \A t \in Servers : Ranked(t) = Has(s)[t]
  <1> SUFFICES ASSUME NEW t \in Servers PROVE Ranked(t) = Has(s)[t]
    OBVIOUS
  <1>1. CASE t = s
    BY <1>1, ReadsViews DEF Ranked, Unreads
  <1>2. CASE t # s
    <2>1. snapshot[t] # None
      BY <1>2 DEF Unreads
    <2> QED
      BY <1>2, <2>1, ReadsViews DEF Ranked
  <1> QED
    BY <1>1, <1>2

LEMMA SwitchesVerified ==
    ASSUME IInv, updateOutboundsInfo, active' # active
    PROVE  Verified(active')
  <1> DEFINE g(h) == IF /\ currentGeneration(h) > selectionGeneration
                        /\ generationCoversAll(h, currentGeneration(h))
                     THEN currentGeneration(h) ELSE selectionGeneration
             full(h) == rememberFullGeneration(h, g(h))
             d(h) == IF ~bootstrap /\ g(h) > 0 /\ g(h) = full(h).gen
                     THEN fullGenerationDecisionHistory(h, full(h)) ELSE h
  <1>1. PICK s \in Unreads :
          /\ Unreads = {s}
          /\ selectionGeneration' = g(Has(s))
          /\ lastFull' = full(Has(s))
          /\ \E decision \in IF bootstrap THEN StartupDecisions(Has(s), g(Has(s)))
                             ELSE ConfirmedDecisions(Has(s), d(Has(s)), g(Has(s)),
                                                     full(Has(s))) :
               active' = decision.active
    BY DEF updateOutboundsInfo
  <1> DEFINE saved == d(Has(s))
  <1>2. \/ active' # active /\ saved = Has(s)
        \/ /\ selectionGeneration' = lastFull'.gen /\ lastFull'.gen > 0
           /\ saved = fullGenerationDecisionHistory(Has(s), lastFull')
    BY <1>1
  <1> HIDE DEF g, full, d
  <1>3. PICK decision \in IF bootstrap THEN StartupDecisions(Has(s), g(Has(s)))
                          ELSE ConfirmedDecisions(Has(s), d(Has(s)), g(Has(s)),
                                                  full(Has(s))) :
          active' = decision.active
    BY <1>1, Zenon
  <1>4. BalancerTypes
    BY DEF IInv
  <1>5. Decided(decision, Has(s), d(Has(s)), g(Has(s)))
    BY <1>3, <1>4, DecisionsTaken, Zenon
  <1>6. active' \in Eligible(Has(s), selectionGeneration')
        \/ active' \in Eligible(saved, selectionGeneration')
    BY <1>1, <1>3, <1>5 DEF Decided
  <1> HIDE DEF saved
  <1>7. active' \in Servers
    BY <1>6 DEF Eligible
  <1>8. Ranked(active') = Has(s)[active']
    BY <1>1, <1>7, LastReadRanks
  <1>9. CASE active' \in Eligible(Has(s), selectionGeneration')
    BY <1>8, <1>9 DEF Eligible, Promotes, Verified
  <1>10. CASE /\ active' \in Eligible(saved, selectionGeneration')
              /\ selectionGeneration' = lastFull'.gen /\ lastFull'.gen > 0
              /\ saved = fullGenerationDecisionHistory(Has(s), lastFull')
    <2>1. saved[active'] = IF Vetoes(Has(s)[active'], lastFull'.history[active'])
                           THEN Has(s)[active'] ELSE lastFull'.history[active']
      BY <1>7, <1>10 DEF fullGenerationDecisionHistory
    <2>2. CASE Vetoes(Has(s)[active'], lastFull'.history[active'])
      <3>1. Promotes(Ranked(active'), selectionGeneration')
        BY <1>8, <1>10, <2>1, <2>2 DEF Eligible, Promotes
      <3> QED
        BY <3>1 DEF Verified
    <2>3. CASE ~Vetoes(Has(s)[active'], lastFull'.history[active'])
      <3>1. Promotes(lastFull'.history[active'], lastFull'.gen)
        BY <1>10, <2>1, <2>3 DEF Eligible, Promotes
      <3>2. Has(s)[active'] \in Views /\ (Has(s)[active'].ready => Has(s)[active'].status # "none")
        <4>1. CASE active' = s
          <5>1. srv[s] \in ServerStates /\ (srv[s].ready => srv[s].status # "none")
            BY <1>7, <4>1 DEF IInv, ServerTypes
          <5> QED
            BY <1>1, <4>1, <5>1, ReadsViews DEF Ranking, Views, ServerStates
        <4>2. CASE active' # s
          <5>1. snapshot[active'] # None /\ Has(s)[active'] = snapshot[active']
            BY <1>1, <1>7, <4>2, ReadsViews DEF Unreads
          <5> QED
            BY <1>4, <1>7, <5>1 DEF BalancerTypes, Histories
        <4> QED
          BY <4>1, <4>2
      <3>3. \/ Has(s)[active'].status = "success"
            \/ Has(s)[active'].gen < lastFull'.gen
        <4>1. lastFull'.gen \in Int /\ Has(s)[active'].gen \in Int
          <5>1. IInv'
            BY BalancerKeeps DEF BalancerStep
          <5>2. lastFull'.gen \in Generations
            BY <5>1 DEF IInv, BalancerTypes
          <5> QED
            BY <3>2, <5>2, MonitoringAssumption DEF Views, Generations
        <4>2. Has(s)[active'].status \in {"success", "failed", "none", "checking"}
          BY <3>2 DEF Views, Results
        <4>3. lastFull'.history[active'].gen = lastFull'.gen
          BY <3>1 DEF Promotes
        <4> QED
          BY <2>3, <3>2, <4>1, <4>2, <4>3 DEF Vetoes
      <3> QED
        BY <1>8, <1>10, <3>1, <3>3 DEF Verified
    <2> QED
      BY <2>2, <2>3
  <1> QED
    BY <1>2, <1>6, <1>9, <1>10

(* A server becomes active only on a success that was just read, or on one  *)
(* of the last settled cohort that nothing just read contradicts, whatever  *)
(* cycles, manual refreshes and results come between the reads              *)
(* (updateOutboundsInfo, fullGenerationDecisionHistory).                    *)
THEOREM SwitchIsVerifiedAlways == Spec => SwitchIsVerified
  <1> DEFINE Switch == active' # active =>
         \/ Promotes(Ranked(active'), selectionGeneration')
         \/ /\ lastFull'.gen > 0
            /\ Promotes(lastFull'.history[active'], lastFull'.gen)
            /\ \/ Ranked(active').status = "success"
               \/ Ranked(active').gen < lastFull'.gen
  <1>1. IInv /\ [Next]_vars => [Switch]_vars
    <2> SUFFICES ASSUME IInv, [Next]_vars, active' # active PROVE Verified(active')
      BY DEF Verified
    <2>1. updateOutboundsInfo
      BY DEF Next, BalancerStep, SubscribeGroup, Receive, OutboundsRankingHistory,
             balancerVars, selectionVars, vars
    <2> QED
      BY <2>1, SwitchesVerified
  <1> QED
    BY <1>1, Invariance, PTL DEF Spec, SwitchIsVerified
=============================================================================
