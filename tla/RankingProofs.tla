--------------------------- MODULE RankingProofs ---------------------------
(***************************************************************************)
(* QuietMeansRanked, for every set of servers and of goroutines, every     *)
(* size of a batch and every number of generations.                        *)
(*                                                                         *)
(* The argument has two halves.  A cohort is settled and all its batches   *)
(* are published only by the publication of the last of them: no result    *)
(* that comes later makes it so, because tests are outstanding only while  *)
(* a batch is still to be published (CycleShape, ManualShape, Numbering).  *)
(* And from that publication on, somebody will look: the worker has not    *)
(* subscribed yet, an event is unread, or the worker is reading and has    *)
(* read nothing that has changed since (RankedOrWillBe).                   *)
(***************************************************************************)
EXTENDS SmartActiveProofs, FiniteSetTheorems

(* all is tested in batches: n of them were full, and left is to come.      *)
Batching(all, left, n) ==
    /\ left \subseteq all /\ left # {}
    /\ n * Workers + Cardinality(left) = Cardinality(all)

(* Batch n is tested, and left is to come after it.                         *)
Testing(all, left, n) ==
    /\ left \subseteq all
    /\ n > 0 /\ (n - 1) * Workers < Cardinality(all)
    /\ left # {} => Batching(all, left, n)

(* A cycle tests its targets in batches; tests are outstanding only while   *)
(* it waits for one.                                                        *)
CycleShape ==
    /\ \A l \in Loops :
         /\ loop[l] = "reset" => /\ cyc.targets # {} /\ cyc.left \subseteq cyc.targets
                                 /\ cyc.number = 0
         /\ loop[l] = "stage" => Batching(cyc.targets, cyc.left, cyc.number)
         /\ loop[l] = "wait" => Testing(cyc.targets, cyc.left, cyc.number)
    /\ cyc.waiting # {} => \E l \in Loops : loop[l] = "wait"
    /\ tests \subseteq [tag : cyc.waiting, gen : {cyc.gen}]

(* A manual refresh does the same with the servers it prepared.             *)
ManualShape ==
    /\ man.pc \in {"reset", "prepare"} => man.batch = {} /\ man.number = 0
    /\ man.pc = "run" =>
         IF man.batch = {} THEN Batching(man.prepared, man.left, man.number)
         ELSE Testing(man.prepared, man.left, man.number)
    /\ man.pc = "publish" => man.batch = {} /\ Testing(man.prepared, man.left, man.number)

(* A generation is allocated once, and of a generation that still runs only *)
(* the batches before the present one are completed.                        *)
Numbering ==
    /\ cyc.gen <= cycleSeq /\ man.gen <= cycleSeq /\ completed.gen <= cycleSeq
    /\ cyc.gen = man.gen => cyc.gen = 0
    /\ \A l \in Loops :
         /\ loop[l] \in {"reset", "stage", "wait"} => cyc.gen > 0
         /\ loop[l] \in {"reset", "stage"} /\ completed.gen = cyc.gen
              => completed.batch <= cyc.number
         /\ loop[l] = "wait" /\ completed.gen = cyc.gen => completed.batch < cyc.number
    /\ man.pc # "off" => man.gen > 0
    /\ man.pc \in {"reset", "prepare"} => completed.gen # man.gen
    /\ man.pc = "run" /\ completed.gen = man.gen =>
         IF man.batch = {} THEN completed.batch <= man.number ELSE completed.batch < man.number
    /\ man.pc = "publish" /\ completed.gen = man.gen => completed.batch < man.number

(* A worker that has not subscribed, or is idle, has read nothing.          *)
WorkerShape ==
    /\ worker.pc \in {"start", "idle", "update"}
    /\ ~observer.open => worker.pc = "start"
    /\ worker.pc # "update" => snapshot = Unread
    /\ worker.pc = "start" => worker.mode = "plain"

(* Every batch of generation g was published, its results stand, and the    *)
(* worker has not gone on to another one: the premise of QuietMeansRanked.  *)
Settled(g) ==
    /\ g > 0 /\ \A s \in Servers : srv[s].gen = g /\ Terminal(srv[s])
    /\ completed.gen = g /\ completed.batch * Workers >= Cardinality(Servers)
    /\ lastHandled.gen \in {0, g}
    /\ g >= selectionGeneration

(* The worker is reading, and has read nothing that has changed since.      *)
ReadsAll(g) ==
    /\ worker.pc = "update"
    /\ worker.mode = "batch" => worker.batch = g
    /\ \A s \in Servers : snapshot[s] # None => snapshot[s] = Ranking(srv[s])

WillRank(g) == worker.pc = "start" \/ observer.events # {} \/ ReadsAll(g)

HasRanked(g) ==
    /\ lastFull.gen = g
    /\ (\E s \in Servers : srv[s].status = "success") => active # None /\ ~bootstrap

RankedOrWillBe == \A g \in Generations : Settled(g) => WillRank(g) \/ HasRanked(g)

RInv ==
    /\ CycleShape
    /\ ManualShape
    /\ Numbering
    /\ WorkerShape
    /\ RankedOrWillBe

-----------------------------------------------------------------------------
(* Batches.                                                                 *)

LEMMA Finite ==
    ASSUME NEW S \in SUBSET Servers
    PROVE  IsFiniteSet(S) /\ Cardinality(S) \in Nat /\ Cardinality(S) <= Cardinality(Servers)
           /\ Cardinality(Servers) \in Nat /\ (S # {} => Cardinality(S) > 0)
  BY FS_Subset, FS_CardinalityType, FS_EmptySet, MonitoringAssumption

(* The next batch has something to test, and its size is full unless it is  *)
(* the last one.                                                            *)
LEMMA NextBatch ==
    ASSUME NEW all \in SUBSET Servers, NEW left, NEW n \in Nat, Batching(all, left, n),
           NEW b \in Batches(left)
    PROVE  b # {} /\ Testing(all, left \ b, n + 1)
  <1> DEFINE w == Workers
             k == Cardinality(left)
  <1>1. left \in SUBSET Servers /\ b \in SUBSET left /\ left # {}
    BY DEF Batching, Batches
  <1>2. /\ k \in Nat /\ k > 0 /\ Cardinality(all) \in Nat
        /\ IsFiniteSet(left) /\ IsFiniteSet(b)
    BY <1>1, Finite
  <1>3. w \in Nat /\ w > 0
    BY MonitoringAssumption
  <1>4. n * w \in Nat /\ (n + 1) * w = n * w + w
    BY <1>3
  <1>5. n * w + k = Cardinality(all)
    BY DEF Batching
  <1>6. Cardinality(b) = IF k < w THEN k ELSE w
    BY DEF Batches
  <1> HIDE DEF w, k
  <1>7. b # {}
    BY <1>2, <1>3, <1>6, FS_EmptySet
  <1>8. left \ b # {} => Cardinality(left \ b) = k - w
    <2>1. Cardinality(left \ b) = k - Cardinality(b)
      <3>1. left \cap b = b
        BY <1>1
      <3> QED
        BY <1>2, <3>1, FS_Difference DEF k
    <2>2. Cardinality(b) = k => b = left
      BY <1>1, <1>2, FS_Subset DEF k
    <2> QED
      BY <1>6, <2>1, <2>2
  <1>9. left \ b # {} => (n + 1) * w + Cardinality(left \ b) = Cardinality(all)
    BY <1>2, <1>3, <1>4, <1>5, <1>8
  <1>10. n * w < Cardinality(all) /\ (n + 1) - 1 = n
    BY <1>2, <1>4, <1>5
  <1> QED
    BY <1>1, <1>7, <1>9, <1>10 DEF Testing, Batching, w

(* A generation whose batch n is tested or still to come is not completed.  *)
LEMMA BeforeTheLast ==
    ASSUME NEW all \in SUBSET Servers, NEW left, NEW n \in Nat, NEW m \in Nat,
           \/ Batching(all, left, n) /\ m <= n
           \/ Testing(all, left, n) /\ m < n
    PROVE  ~(m * Workers >= Cardinality(Servers))
  <1> DEFINE w == Workers
  <1>1. w \in Nat
    BY MonitoringAssumption
  <1>2. /\ Cardinality(all) \in Nat /\ Cardinality(Servers) \in Nat
        /\ Cardinality(all) <= Cardinality(Servers)
    BY Finite
  <1>3. PICK p \in Nat : m <= p /\ p * w < Cardinality(all)
    <2>1. CASE Batching(all, left, n) /\ m <= n
      <3>1. Cardinality(left) \in Nat /\ Cardinality(left) > 0
        BY <2>1, Finite DEF Batching
      <3>2. n * w \in Nat
        BY <1>1
      <3> QED
        BY <1>2, <2>1, <3>1, <3>2 DEF Batching
    <2>2. CASE Testing(all, left, n) /\ m < n
      <3>1. n - 1 \in Nat /\ m <= n - 1
        BY <2>2
      <3> QED
        BY <2>2, <3>1 DEF Testing
    <2> QED
      BY <2>1, <2>2
  <1>4. m * w <= p * w
    BY <1>1, <1>3
  <1>5. m * w \in Nat /\ p * w \in Nat
    BY <1>1
  <1> QED
    BY <1>2, <1>3, <1>4, <1>5

-----------------------------------------------------------------------------
(* The initial state.                                                       *)

LEMMA RankingInitially == Init => RInv
  <1> SUFFICES ASSUME Init PROVE RInv
    OBVIOUS
  <1> USE DEF Init, MonitoringInit, NoCycle, NoManual, NoEvent, IdleWorker
  <1>1. CycleShape
    BY DEF CycleShape
  <1>2. ManualShape
    BY DEF ManualShape
  <1>3. Numbering
    BY DEF Numbering
  <1>4. WorkerShape
    BY DEF WorkerShape
  <1>5. RankedOrWillBe
    BY DEF RankedOrWillBe, WillRank
  <1> QED
    BY <1>1, <1>2, <1>3, <1>4, <1>5 DEF RInv

-----------------------------------------------------------------------------
(* A cohort is settled by a publication only.                               *)

(* A generation that is still tested by the cycle or by the manual refresh  *)
(* is not completed.                                                        *)
LEMMA TestedIsIncomplete ==
    ASSUME IInv, RInv, \/ \E l \in Loops : loop[l] \in {"stage", "wait"} /\ completed.gen = cyc.gen
                       \/ man.pc = "run" /\ completed.gen = man.gen
    PROVE  ~(completed.batch * Workers >= Cardinality(Servers))
  <1> completed.batch \in Nat
    BY DEF IInv, EventTypes, Events
  <1>1. CASE \E l \in Loops : loop[l] \in {"stage", "wait"} /\ completed.gen = cyc.gen
    <2>1. cyc.targets \in SUBSET Servers /\ cyc.number \in Nat
      BY DEF IInv, SchedulerTypes, CycleStates
    <2> QED
      BY <1>1, <2>1, BeforeTheLast DEF RInv, CycleShape, Numbering
  <1>2. CASE man.pc = "run" /\ completed.gen = man.gen
    <2>1. man.prepared \in SUBSET Servers /\ man.number \in Nat
      BY DEF IInv, SchedulerTypes, ManualStates
    <2> QED
      BY <1>2, <2>1, BeforeTheLast DEF RInv, ManualShape, Numbering
  <1> QED
    BY <1>1, <1>2

(* A step that publishes nothing leaves what is settled to the worker.      *)
LEMMA Undisturbed ==
    ASSUME RankedOrWillBe, UNCHANGED balancerVars, UNCHANGED completed,
           observer.events # {} => observer'.events # {},
           \A g \in Generations : \A s \in Servers :
             Settled(g)' => Ranking(srv'[s]) = Ranking(srv[s])
    PROVE  RankedOrWillBe'
  <1> SUFFICES ASSUME NEW g \in Generations, Settled(g)'
               PROVE  (WillRank(g) \/ HasRanked(g))'
    BY DEF RankedOrWillBe
  <1> USE DEF balancerVars, selectionVars
  <1>1. \A s \in Servers : /\ srv'[s].gen = srv[s].gen /\ srv'[s].ready = srv[s].ready
                           /\ srv'[s].status = srv[s].status
                           /\ Ranking(srv'[s]) = Ranking(srv[s])
    BY DEF Ranking
  <1>2. Settled(g)
    BY <1>1 DEF Settled, Terminal
  <1>3. WillRank(g) \/ HasRanked(g)
    BY <1>2 DEF RankedOrWillBe
  <1>4. ReadsAll(g) => ReadsAll(g)'
    BY <1>1 DEF ReadsAll
  <1>5. HasRanked(g) => HasRanked(g)'
    BY <1>1 DEF HasRanked
  <1> QED
    BY <1>3, <1>4, <1>5 DEF WillRank

(* After a publication the channel holds an event, or the worker has not    *)
(* subscribed.                                                              *)
LEMMA Published ==
    ASSUME RInv, UNCHANGED balancerVars, NEW event, Publish(event)
    PROVE  RankedOrWillBe'
  <1>1. observer'.events # {} \/ worker.pc = "start"
    BY DEF Publish, RInv, WorkerShape, IInv, EventTypes
  <1> QED
    BY <1>1 DEF RankedOrWillBe, WillRank, balancerVars

(* A step of the monitoring does not make a worker subscribe or read.       *)
LEMMA WorkerUndisturbed ==
    ASSUME WorkerShape, UNCHANGED balancerVars, observer'.open = observer.open
    PROVE  WorkerShape'
  BY DEF WorkerShape, balancerVars

(* A test of generation g that ends tells only of a server of generation g. *)
LEMMA AppliedIsLocal ==
    ASSUME NEW r, NEW g, NEW result
    PROVE  Applied(r, g, result).gen = g \/ Applied(r, g, result) = r
  BY DEF Applied

-----------------------------------------------------------------------------
(* Requests and cycles.                                                     *)

InTest == {"reset", "stage", "wait"}

(* Only the goroutine that moves is in a cycle.                             *)
LEMMA OnlyMover ==
    ASSUME IInv, NEW l \in Loops, NEW from, NEW to, Moves(l, from, to), from \in Running
    PROVE  /\ loop[l] = from /\ loop'[l] = to
           /\ \A k \in Loops : k # l => loop'[k] \notin InTest /\ loop[k] \notin InTest
  BY DEF IInv, OneCycle, Moves, Running, InTest

(* A goroutine that is not in a cycle moves, or starts one.                 *)
LEMMA OutsideCycle ==
    ASSUME IInv, RInv, UNCHANGED <<srv, cycleSeq, cyc, tests, manualVars, completed, observer>>,
           UNCHANGED balancerVars,
           \A l \in Loops : loop'[l] = loop[l]
                            \/ (loop[l] \notin InTest /\ loop'[l] \notin InTest)
    PROVE  RInv'
  <1> USE DEF manualVars
  <1>1. CycleShape'
    BY DEF RInv, CycleShape, InTest
  <1>2. ManualShape'
    BY DEF RInv, ManualShape
  <1>3. Numbering'
    BY DEF RInv, Numbering, InTest
  <1>4. WorkerShape'
    BY WorkerUndisturbed DEF RInv
  <1>5. RankedOrWillBe'
    BY Undisturbed DEF RInv
  <1> QED
    BY <1>1, <1>2, <1>3, <1>4, <1>5 DEF RInv

LEMMA StartRanks ==
    ASSUME IInv, RInv, NEW r \in Requesters, startCycleOnce(r), UNCHANGED balancerVars
    PROVE  RInv'
  <1>1. \A l \in Loops : loop'[l] = loop[l] \/ (loop[l] \notin InTest /\ loop'[l] \notin InTest)
    BY DEF startCycleOnce, InTest, IInv, OneCycle
  <1> QED
    BY <1>1, OutsideCycle DEF startCycleOnce, eventVars

LEMMA OutsideRanks ==
    ASSUME IInv, RInv, NEW l \in Loops, FinishCycle(l) \/ TestAgain(l) \/ Reacquire(l),
           UNCHANGED balancerVars
    PROVE  RInv'
  <1>1. \A k \in Loops : loop'[k] = loop[k] \/ (loop[k] \notin InTest /\ loop'[k] \notin InTest)
    BY DEF FinishCycle, TestAgain, Reacquire, Moves, InTest, IInv, OneCycle
  <1> QED
    BY <1>1, OutsideCycle DEF FinishCycle, TestAgain, Reacquire, eventVars

(* The new generation has completed nothing, and its targets are to come.   *)
LEMMA CollectRanks ==
    ASSUME IInv, RInv, NEW l \in Loops, Collect(l), UNCHANGED balancerVars
    PROVE  RInv'
  <1> DEFINE targets == {s \in Servers : Free(s)}
  <1>1. /\ Moves(l, "collect", IF targets = {} THEN "clear" ELSE "reset")
        /\ cyc' = [NoCycle EXCEPT !.gen = cycleSeq + 1, !.targets = targets, !.left = targets]
        /\ cycleSeq' = cycleSeq + 1
        /\ UNCHANGED <<srv, tests, manualVars, eventVars>>
    BY DEF Collect
  <1> HIDE DEF targets
  <1>2. /\ cyc'.gen = cycleSeq + 1 /\ cyc'.targets = targets /\ cyc'.left = targets
        /\ cyc'.waiting = {} /\ cyc'.number = 0
    BY <1>1 DEF NoCycle
  <1>3. /\ loop[l] = "collect" /\ loop'[l] = IF targets = {} THEN "clear" ELSE "reset"
        /\ \A k \in Loops : k # l => loop'[k] \notin InTest /\ loop[k] \notin InTest
    BY <1>1, OnlyMover DEF Running
  <1>4. /\ cycleSeq \in Nat /\ man.gen \in Nat /\ completed.gen \in Nat
    BY MonitoringAssumption
    DEF IInv, SchedulerTypes, EventTypes, ManualStates, Events, Generations
  <1>5. tests = {}
    <2>1. \A k \in Loops : loop[k] # "wait"
      BY <1>3 DEF InTest
    <2>2. tests \subseteq [tag : {}, gen : {cyc.gen}]
      BY <2>1 DEF RInv, CycleShape
    <2> QED
      BY <2>2
  <1>6. CycleShape'
    BY <1>1, <1>2, <1>3, <1>5 DEF CycleShape, InTest
  <1>7. ManualShape'
    BY <1>1 DEF RInv, ManualShape, manualVars
  <1>8. Numbering'
    BY <1>1, <1>2, <1>3, <1>4 DEF RInv, Numbering, InTest, manualVars, eventVars
  <1>9. WorkerShape'
    BY <1>1, WorkerUndisturbed DEF RInv, eventVars
  <1>10. RankedOrWillBe'
    BY <1>1, Undisturbed DEF RInv, eventVars
  <1> QED
    BY <1>6, <1>7, <1>8, <1>9, <1>10 DEF RInv

(* A server that was reset is not settled.                                  *)
LEMMA ResetUnsettles ==
    ASSUME IInv, NEW s \in Servers, NEW g, ResetServer(s, g)
    PROVE  \A h \in Generations : ~Settled(h)'
  <1>1. srv'[s].ready = FALSE
    BY DEF ResetServer, Reset, IInv, ServerTypes
  <1> QED
    BY <1>1 DEF Settled, Terminal

LEMMA ResetRanks ==
    ASSUME IInv, RInv, NEW l \in Loops, beginCheckGeneration(l), UNCHANGED balancerVars
    PROVE  RInv'
  <1>1. PICK s \in cyc.left :
          /\ ResetServer(s, cyc.gen)
          /\ Moves(l, "reset", IF cyc.left = {s} THEN "stage" ELSE "reset")
          /\ cyc' = [cyc EXCEPT !.left = IF cyc.left = {s} THEN cyc.targets
                                         ELSE cyc.left \ {s}]
          /\ UNCHANGED <<cycleSeq, tests, manualVars, completed, observer>>
    BY DEF beginCheckGeneration
  <1>2. /\ loop[l] = "reset" /\ loop'[l] = IF cyc.left = {s} THEN "stage" ELSE "reset"
        /\ \A k \in Loops : k # l => loop'[k] \notin InTest /\ loop[k] \notin InTest
    BY <1>1, OnlyMover DEF Running
  <1>3. /\ cyc'.gen = cyc.gen /\ cyc'.targets = cyc.targets /\ cyc'.waiting = cyc.waiting
        /\ cyc'.left = IF cyc.left = {s} THEN cyc.targets ELSE cyc.left \ {s}
        /\ cyc'.number = cyc.number
    BY <1>1 DEF IInv, SchedulerTypes, CycleStates
  <1>4. s \in Servers /\ cyc.targets \in SUBSET Servers
    BY DEF IInv, SchedulerTypes, CycleStates
  <1>5. cyc.targets # {} /\ cyc.left \subseteq cyc.targets /\ cyc.number = 0
    BY <1>2 DEF RInv, CycleShape
  <1>6. Batching(cyc.targets, cyc.targets, 0)
    BY <1>4, <1>5, Finite, MonitoringAssumption DEF Batching
  <1>7. CycleShape'
    <2>1. cyc.waiting = {}
      BY <1>2 DEF RInv, CycleShape, InTest
    <2> QED
      BY <1>1, <1>2, <1>3, <1>5, <1>6, <2>1 DEF RInv, CycleShape, InTest
  <1>8. ManualShape'
    BY <1>1 DEF RInv, ManualShape, manualVars
  <1>9. Numbering'
    BY <1>1, <1>2, <1>3 DEF RInv, Numbering, InTest, manualVars
  <1>10. WorkerShape'
    BY <1>1, WorkerUndisturbed DEF RInv
  <1>11. RankedOrWillBe'
    BY <1>1, <1>4, ResetUnsettles, Undisturbed DEF RInv
  <1> QED
    BY <1>7, <1>8, <1>9, <1>10, <1>11 DEF RInv

(* What is queued by the cycle loses its result, or keeps a failure.        *)
LEMMA EnqueuedKeeps ==
    ASSUME NEW r, Sound(r), NEW g \in Generations, Accepts(r, g), Terminal(Enqueued(r, g))
    PROVE  Ranking(Enqueued(r, g)) = Ranking(r)
  BY DEF Sound, ServerStates, Enqueued, Accepts, Terminal, Ranking, Results

LEMMA EnqueueRanks ==
    ASSUME IInv, RInv, NEW l \in Loops, EnqueueBatch(l), UNCHANGED balancerVars
    PROVE  RInv'
  <1> DEFINE accepted(b) == {s \in b : Accepts(srv[s], cyc.gen)}
  <1>1. PICK b \in Batches(cyc.left) :
          /\ Moves(l, "stage", "wait")
          /\ srv' = [s \in Servers |-> IF s \in accepted(b)
                                       THEN Enqueued(srv[s], cyc.gen) ELSE srv[s]]
          /\ tests' = tests \cup {[tag |-> s, gen |-> cyc.gen] : s \in accepted(b)}
          /\ cyc' = [cyc EXCEPT !.left = @ \ b, !.waiting = accepted(b), !.number = @ + 1]
          /\ UNCHANGED <<cycleSeq, manualVars, eventVars>>
    BY DEF EnqueueBatch
  <1>2. \A s \in accepted(b) : Accepts(srv[s], cyc.gen)
    OBVIOUS
  <1> DEFINE queued == accepted(b)
  <1> HIDE DEF accepted
  <1>3. /\ loop[l] = "stage" /\ loop'[l] = "wait"
        /\ \A k \in Loops : k # l => loop'[k] \notin InTest /\ loop[k] \notin InTest
    BY <1>1, OnlyMover DEF Running
  <1>4. /\ cyc'.gen = cyc.gen /\ cyc'.targets = cyc.targets /\ cyc'.waiting = queued
        /\ cyc'.left = cyc.left \ b /\ cyc'.number = cyc.number + 1
    BY <1>1 DEF IInv, SchedulerTypes, CycleStates
  <1>5. cyc.targets \in SUBSET Servers /\ cyc.number \in Nat /\ cyc.gen \in Generations
    BY DEF IInv, SchedulerTypes, CycleStates
  <1>6. Batching(cyc.targets, cyc.left, cyc.number)
    BY <1>3 DEF RInv, CycleShape
  <1>7. Testing(cyc.targets, cyc.left \ b, cyc.number + 1)
    BY <1>1, <1>5, <1>6, NextBatch
  <1>8. CycleShape'
    <2>1. cyc.waiting = {}
      BY <1>3 DEF RInv, CycleShape, InTest
    <2>2. tests = {}
      BY <2>1 DEF RInv, CycleShape
    <2>3. tests' \subseteq [tag : cyc'.waiting, gen : {cyc'.gen}]
      BY <1>1, <1>4, <2>2
    <2> QED
      BY <1>3, <1>4, <1>7, <2>3 DEF CycleShape, InTest
  <1>9. ManualShape'
    BY <1>1 DEF RInv, ManualShape, manualVars
  <1>10. Numbering'
    <2>1. completed.batch \in Nat
      BY DEF IInv, EventTypes, Events
    <2> QED
      BY <1>1, <1>3, <1>4, <1>5, <2>1 DEF RInv, Numbering, InTest, manualVars, eventVars
  <1>11. WorkerShape'
    BY <1>1, WorkerUndisturbed DEF RInv, eventVars
  <1>12. RankedOrWillBe'
    <2>1. ASSUME NEW g \in Generations, NEW s \in Servers, Settled(g)'
          PROVE  Ranking(srv'[s]) = Ranking(srv[s])
      <3>1. Terminal(srv'[s])
        BY <2>1 DEF Settled
      <3>2. CASE s \in queued
        <4>1. srv'[s] = Enqueued(srv[s], cyc.gen)
          BY <1>1, <3>2
        <4> QED
          BY <1>2, <1>5, <3>1, <3>2, <4>1, EnqueuedKeeps, ServersAreSound DEF IInv
      <3>3. CASE s \notin queued
        BY <1>1, <3>3
      <3> QED
        BY <3>2, <3>3
    <2> QED
      BY <1>1, <2>1, Undisturbed DEF RInv, eventVars
  <1> QED
    BY <1>8, <1>9, <1>10, <1>11, <1>12 DEF RInv

(* A result of the cycle comes while its generation is incomplete.          *)
LEMMA ResultRanks ==
    ASSUME IInv, RInv, NEW task \in tests, NEW result \in Results, applyResult(task, result),
           UNCHANGED balancerVars
    PROVE  RInv'
  <1>1. task.tag \in Servers /\ task.tag \in cyc.waiting /\ task.gen = cyc.gen
    BY DEF RInv, CycleShape, IInv, SchedulerTypes, Tasks
  <1>2. PICK l \in Loops : loop[l] = "wait"
    BY <1>1 DEF RInv, CycleShape
  <1>3. /\ tests' = tests \ {task}
        /\ srv' = [srv EXCEPT ![task.tag] = Applied(@, task.gen, result)]
        /\ cyc' = [cyc EXCEPT !.waiting = @ \ {task.tag}]
        /\ UNCHANGED <<cycleSeq, loop, manualVars, eventVars>>
    BY DEF applyResult
  <1>4. /\ cyc'.gen = cyc.gen /\ cyc'.targets = cyc.targets /\ cyc'.left = cyc.left
        /\ cyc'.waiting = cyc.waiting \ {task.tag} /\ cyc'.number = cyc.number
    BY <1>3 DEF IInv, SchedulerTypes, CycleStates
  <1>5. CycleShape'
    <2>1. tests' \subseteq [tag : cyc'.waiting, gen : {cyc'.gen}]
      <3> SUFFICES ASSUME NEW t \in tests, t # task
                   PROVE  t \in [tag : cyc'.waiting, gen : {cyc'.gen}]
        BY <1>3
      <3>1. t \in [tag : cyc.waiting, gen : {cyc.gen}] /\ task \in [tag : cyc.waiting, gen : {cyc.gen}]
        BY DEF RInv, CycleShape
      <3>2. t.tag # task.tag
        BY <3>1
      <3> QED
        BY <1>4, <3>1, <3>2
    <2> QED
      BY <1>2, <1>3, <1>4, <2>1 DEF RInv, CycleShape
  <1>6. ManualShape'
    BY <1>3 DEF RInv, ManualShape, manualVars
  <1>7. Numbering'
    BY <1>3, <1>4 DEF RInv, Numbering, manualVars, eventVars
  <1>8. WorkerShape'
    BY <1>3, WorkerUndisturbed DEF RInv, eventVars
  <1>9. RankedOrWillBe'
    <2>1. ASSUME NEW g \in Generations, NEW s \in Servers, Settled(g)'
          PROVE  srv'[s] = srv[s]
      <3>1. completed.gen = g /\ completed.batch * Workers >= Cardinality(Servers)
        BY <1>3, <2>1 DEF Settled, eventVars
      <3>2. completed.gen # cyc.gen
        BY <1>2, <3>1, TestedIsIncomplete
      <3>3. srv'[task.tag] = Applied(srv[task.tag], cyc.gen, result)
        BY <1>1, <1>3 DEF IInv, ServerTypes
      <3>4. srv'[task.tag].gen = g
        BY <1>1, <2>1 DEF Settled
      <3>5. srv'[task.tag] = srv[task.tag]
        BY <3>1, <3>2, <3>3, <3>4, AppliedIsLocal
      <3> QED
        BY <1>3, <3>5 DEF IInv, ServerTypes
    <2> QED
      BY <1>3, <2>1, Undisturbed DEF RInv, eventVars
  <1> QED
    BY <1>5, <1>6, <1>7, <1>8, <1>9 DEF RInv

LEMMA Completes ==
    ASSUME NEW event, publishCompletedBatch(event)
    PROVE  completed' \in {completed, event} /\ Publish(event) /\ observer'.open = observer.open
  BY DEF publishCompletedBatch, Publish

LEMMA PublishRanks ==
    ASSUME IInv, RInv, NEW l \in Loops, PublishBatch(l), UNCHANGED balancerVars
    PROVE  RInv'
  <1> DEFINE event == [gen |-> cyc.gen, batch |-> cyc.number]
  <1>1. /\ cyc.waiting = {}
        /\ Moves(l, "wait", IF cyc.left = {} THEN "finish" ELSE "stage")
        /\ UNCHANGED <<cycleSeq, cyc, tests, manualVars>>
    BY DEF PublishBatch
  <1>2. completed' \in {completed, event} /\ Publish(event) /\ observer'.open = observer.open
    BY Completes DEF PublishBatch
  <1>3. /\ loop[l] = "wait" /\ loop'[l] = IF cyc.left = {} THEN "finish" ELSE "stage"
        /\ \A k \in Loops : k # l => loop'[k] \notin InTest /\ loop[k] \notin InTest
    BY <1>1, OnlyMover DEF Running
  <1>4. Testing(cyc.targets, cyc.left, cyc.number)
    BY <1>3 DEF RInv, CycleShape
  <1>5. CycleShape'
    BY <1>1, <1>3, <1>4 DEF RInv, CycleShape, InTest, Testing
  <1>6. ManualShape'
    BY <1>1 DEF RInv, ManualShape, manualVars
  <1>7. Numbering'
    <2>1. /\ completed.batch \in Nat /\ cyc.number \in Nat
          /\ cyc.gen \in Nat /\ cyc.gen > 0 /\ cyc.gen # man.gen
      BY <1>3, MonitoringAssumption
      DEF IInv, EventTypes, Events, SchedulerTypes, CycleStates, Generations, RInv, Numbering
    <2>2. completed'.gen = cyc.gen => completed'.batch <= cyc.number
      BY <1>2, <1>3, <2>1 DEF RInv, Numbering
    <2>3. completed'.gen = man.gen => completed' = completed
      BY <1>2, <2>1
    <2>4. completed'.gen <= cycleSeq
      BY <1>2 DEF RInv, Numbering
    <2> HIDE DEF event
    <2> QED
      BY <1>1, <1>3, <2>2, <2>3, <2>4 DEF RInv, Numbering, InTest, manualVars
  <1>8. WorkerShape'
    BY <1>2, WorkerUndisturbed DEF RInv
  <1>9. RankedOrWillBe'
    BY <1>2, Published
  <1> QED
    BY <1>5, <1>6, <1>7, <1>8, <1>9 DEF RInv

LEMMA ClearRanks ==
    ASSUME IInv, RInv, NEW l \in Loops, ClearRunning(l), UNCHANGED balancerVars
    PROVE  RInv'
  <1>1. /\ Moves(l, "clear", "retest") /\ cyc' = NoCycle
        /\ UNCHANGED <<srv, cycleSeq, tests, manualVars, eventVars>>
    BY DEF ClearRunning
  <1>2. /\ loop[l] = "clear" /\ loop'[l] = "retest"
        /\ \A k \in Loops : k # l => loop'[k] \notin InTest /\ loop[k] \notin InTest
    BY <1>1, OnlyMover DEF Running
  <1>3. cyc'.gen = 0 /\ cyc'.waiting = {}
    BY <1>1 DEF NoCycle
  <1>4. tests = {}
    <2>1. cyc.waiting = {}
      BY <1>2 DEF RInv, CycleShape, InTest
    <2> QED
      BY <2>1 DEF RInv, CycleShape
  <1>5. CycleShape'
    BY <1>1, <1>2, <1>3, <1>4 DEF CycleShape, InTest
  <1>6. ManualShape'
    BY <1>1 DEF RInv, ManualShape, manualVars
  <1>7. Numbering'
    <2>1. 0 <= cycleSeq
      BY MonitoringAssumption DEF IInv, SchedulerTypes, Generations
    <2> QED
      BY <1>1, <1>2, <1>3, <2>1 DEF RInv, Numbering, InTest, manualVars, eventVars
  <1>8. WorkerShape'
    BY <1>1, WorkerUndisturbed DEF RInv, eventVars
  <1>9. RankedOrWillBe'
    BY <1>1, Undisturbed DEF RInv, eventVars
  <1> QED
    BY <1>5, <1>6, <1>7, <1>8, <1>9 DEF RInv

LEMMA CycleRanks ==
    ASSUME IInv, RInv, NEW l \in Loops, Cycle(l), UNCHANGED balancerVars
    PROVE  RInv'
  BY CollectRanks, ResetRanks, EnqueueRanks, PublishRanks, OutsideRanks, ClearRanks DEF Cycle

-----------------------------------------------------------------------------
(* Manual refreshes.                                                        *)

(* A manual refresh does not touch the cycle.                               *)
LEMMA CycleUndisturbed ==
    ASSUME RInv, UNCHANGED <<loop, cyc, tests>>
    PROVE  CycleShape'
  BY DEF RInv, CycleShape

(* A step that publishes nothing and stays in the same generation.          *)
LEMMA SameRefresh ==
    ASSUME RInv, UNCHANGED <<cycleVars, completed>>, man'.gen = man.gen, man.pc # "off",
           man'.pc \in {"reset", "prepare"} => man.pc \in {"reset", "prepare"},
           man'.pc = "run" => IF man'.batch = {} THEN completed.gen = man.gen => completed.batch <= man'.number
                              ELSE completed.gen = man.gen => completed.batch < man'.number,
           man'.pc = "publish" /\ completed.gen = man.gen => completed.batch < man'.number
    PROVE  Numbering'
  BY DEF RInv, Numbering, cycleVars

LEMMA ManualStartRanks ==
    ASSUME IInv, RInv, ManualStart, UNCHANGED balancerVars
    PROVE  RInv'
  <1>1. /\ cycleSeq' = cycleSeq + 1
        /\ man'.pc = "reset" /\ man'.gen = cycleSeq + 1 /\ man'.batch = {} /\ man'.number = 0
        /\ UNCHANGED <<srv, loop, cyc, tests, eventVars>>
    BY DEF ManualStart, NoManual
  <1>2. CycleShape'
    BY <1>1, CycleUndisturbed
  <1>3. ManualShape'
    BY <1>1 DEF ManualShape
  <1>4. Numbering'
    <2>1. cycleSeq \in Nat /\ cyc.gen \in Nat /\ completed.gen \in Nat
      BY MonitoringAssumption
      DEF IInv, SchedulerTypes, EventTypes, CycleStates, Events, Generations
    <2> QED
      BY <1>1, <2>1 DEF RInv, Numbering, eventVars
  <1>5. WorkerShape'
    BY <1>1, WorkerUndisturbed DEF RInv, eventVars
  <1>6. RankedOrWillBe'
    BY <1>1, Undisturbed DEF RInv, eventVars
  <1> QED
    BY <1>2, <1>3, <1>4, <1>5, <1>6 DEF RInv

LEMMA ManualResetRanks ==
    ASSUME IInv, RInv, ManualReset, UNCHANGED balancerVars
    PROVE  RInv'
  <1>1. PICK s \in man.left :
          /\ man.pc = "reset"
          /\ ResetServer(s, man.gen)
          /\ man' = IF man.left = {s} THEN [man EXCEPT !.pc = "prepare", !.left = Servers]
                    ELSE [man EXCEPT !.left = @ \ {s}]
          /\ UNCHANGED <<cycleVars, completed, observer>>
    BY DEF ManualReset
  <1>2. s \in Servers
    BY DEF IInv, SchedulerTypes, ManualStates
  <1>3. /\ man'.pc \in {"reset", "prepare"} /\ man'.gen = man.gen
        /\ man'.batch = man.batch /\ man'.number = man.number
    BY <1>1 DEF IInv, SchedulerTypes, ManualStates
  <1>4. CycleShape'
    BY <1>1, CycleUndisturbed DEF cycleVars
  <1>5. ManualShape'
    BY <1>1, <1>3 DEF RInv, ManualShape
  <1>6. Numbering'
    BY <1>1, <1>3, SameRefresh
  <1>7. WorkerShape'
    BY <1>1, WorkerUndisturbed DEF RInv
  <1>8. RankedOrWillBe'
    BY <1>1, <1>2, ResetUnsettles, Undisturbed DEF RInv
  <1> QED
    BY <1>4, <1>5, <1>6, <1>7, <1>8 DEF RInv

LEMMA PrepareRanks ==
    ASSUME IInv, RInv, prepareManualRefreshTarget, UNCHANGED balancerVars
    PROVE  RInv'
  <1> DEFINE prepared(s) == IF srv[s].gen = man.gen THEN man.prepared \cup {s}
                            ELSE man.prepared
             pc(s) == CASE man.left # {s} -> "prepare"
                        [] man.left = {s} /\ prepared(s) = {} -> "mark"
                        [] OTHER -> "run"
  <1>1. PICK s \in man.left :
          /\ man.pc = "prepare"
          /\ man' = [man EXCEPT !.prepared = prepared(s),
                                !.left = IF man.left = {s} THEN prepared(s) ELSE @ \ {s},
                                !.pc = pc(s)]
          /\ \/ srv' = [srv EXCEPT ![s].enqueued = man.gen, ![s].status = "checking"]
             \/ UNCHANGED srv
          /\ UNCHANGED <<cycleVars, completed, observer>>
    BY DEF prepareManualRefreshTarget
  <1>2. s \in Servers /\ prepared(s) \in SUBSET Servers
    BY <1>1 DEF IInv, SchedulerTypes, ManualStates
  <1>3. /\ pc(s) \in {"prepare", "mark", "run"}
        /\ pc(s) = "run" => man.left = {s} /\ prepared(s) # {}
    OBVIOUS
  <1> HIDE DEF prepared, pc
  <1>4. /\ man'.pc = pc(s) /\ man'.gen = man.gen /\ man'.prepared = prepared(s)
        /\ man'.left = IF man.left = {s} THEN prepared(s) ELSE man.left \ {s}
        /\ man'.batch = man.batch /\ man'.number = man.number
    BY <1>1 DEF IInv, SchedulerTypes, ManualStates
  <1>5. man.batch = {} /\ man.number = 0 /\ completed.gen # man.gen
    BY <1>1 DEF RInv, ManualShape, Numbering
  <1>6. CycleShape'
    BY <1>1, CycleUndisturbed DEF cycleVars
  <1>7. ManualShape'
    <2>1. prepared(s) # {} => Batching(prepared(s), prepared(s), 0)
      BY <1>2, Finite, MonitoringAssumption DEF Batching
    <2> QED
      BY <1>3, <1>4, <1>5, <2>1 DEF ManualShape
  <1>8. Numbering'
    BY <1>1, <1>3, <1>4, <1>5, SameRefresh
  <1>9. WorkerShape'
    BY <1>1, WorkerUndisturbed DEF RInv
  <1>10. RankedOrWillBe'
    <2>1. CASE UNCHANGED srv
      BY <1>1, <2>1, Undisturbed DEF RInv
    <2>2. CASE srv' = [srv EXCEPT ![s].enqueued = man.gen, ![s].status = "checking"]
      <3>1. srv'[s].status = "checking"
        BY <1>2, <2>2 DEF IInv, ServerTypes, ServerStates
      <3>2. \A g \in Generations : ~Settled(g)'
        BY <1>2, <3>1 DEF Settled, Terminal, Results
      <3> QED
        BY <1>1, <3>2, Undisturbed DEF RInv
    <2> QED
      BY <1>1, <2>1, <2>2
  <1> QED
    BY <1>6, <1>7, <1>8, <1>9, <1>10 DEF RInv

LEMMA StartBatchRanks ==
    ASSUME IInv, RInv, StartBatch, UNCHANGED balancerVars
    PROVE  RInv'
  <1>1. PICK b \in Batches(man.left) :
          /\ man.pc = "run" /\ man.batch = {}
          /\ man' = [man EXCEPT !.batch = b, !.left = @ \ b, !.number = @ + 1]
          /\ srv' = [s \in Servers |-> IF s \in b THEN [srv[s] EXCEPT !.enqueued = 0]
                                       ELSE srv[s]]
          /\ UNCHANGED <<cycleVars, eventVars>>
    BY DEF StartBatch
  <1>2. /\ man'.pc = "run" /\ man'.gen = man.gen /\ man'.prepared = man.prepared
        /\ man'.left = man.left \ b /\ man'.batch = b /\ man'.number = man.number + 1
    BY <1>1 DEF IInv, SchedulerTypes, ManualStates
  <1>3. man.prepared \in SUBSET Servers /\ man.number \in Nat /\ completed.batch \in Nat
    BY DEF IInv, SchedulerTypes, ManualStates, EventTypes, Events
  <1>4. b # {} /\ Testing(man.prepared, man.left \ b, man.number + 1)
    <2>1. Batching(man.prepared, man.left, man.number)
      BY <1>1 DEF RInv, ManualShape
    <2> QED
      BY <1>1, <1>3, <2>1, NextBatch
  <1>5. CycleShape'
    BY <1>1, CycleUndisturbed DEF cycleVars
  <1>6. ManualShape'
    BY <1>2, <1>4 DEF ManualShape
  <1>7. Numbering'
    <2>1. completed.gen = man.gen => completed.batch < man.number + 1
      BY <1>1, <1>3 DEF RInv, Numbering
    <2> QED
      BY <1>1, <1>2, <1>4, <2>1, SameRefresh DEF eventVars
  <1>8. WorkerShape'
    BY <1>1, WorkerUndisturbed DEF RInv, eventVars
  <1>9. RankedOrWillBe'
    <2>1. \A s \in Servers : Ranking(srv'[s]) = Ranking(srv[s])
      BY <1>1 DEF Ranking, IInv, ServerTypes, ServerStates
    <2> QED
      BY <1>1, <2>1, Undisturbed DEF RInv, eventVars
  <1> QED
    BY <1>5, <1>6, <1>7, <1>8, <1>9 DEF RInv

(* A result of the refresh comes while its generation is incomplete.        *)
LEMMA ManualResultRanks ==
    ASSUME IInv, RInv, NEW s \in Servers, NEW result \in Results,
           executeManualRefreshTarget(s, result), UNCHANGED balancerVars
    PROVE  RInv'
  <1>1. /\ man.pc = "run" /\ s \in man.batch
        /\ srv' = [srv EXCEPT ![s] = Applied(@, man.gen, result)]
        /\ man' = [man EXCEPT !.batch = @ \ {s},
                              !.pc = IF man.batch = {s} THEN "publish" ELSE "run"]
        /\ UNCHANGED <<cycleVars, eventVars>>
    BY DEF executeManualRefreshTarget
  <1>2. /\ man'.pc = IF man.batch = {s} THEN "publish" ELSE "run"
        /\ man'.gen = man.gen /\ man'.prepared = man.prepared /\ man'.left = man.left
        /\ man'.batch = man.batch \ {s} /\ man'.number = man.number
    BY <1>1 DEF IInv, SchedulerTypes, ManualStates
  <1>3. Testing(man.prepared, man.left, man.number)
        /\ (completed.gen = man.gen => completed.batch < man.number)
    BY <1>1 DEF RInv, ManualShape, Numbering
  <1>4. man'.pc = "run" => man'.batch # {}
    BY <1>1, <1>2
  <1>5. CycleShape'
    BY <1>1, CycleUndisturbed DEF cycleVars
  <1>6. ManualShape'
    BY <1>1, <1>2, <1>3, <1>4 DEF ManualShape
  <1>7. Numbering'
    BY <1>1, <1>2, <1>3, <1>4, SameRefresh DEF eventVars
  <1>8. WorkerShape'
    BY <1>1, WorkerUndisturbed DEF RInv, eventVars
  <1>9. RankedOrWillBe'
    <2>1. ASSUME NEW g \in Generations, NEW t \in Servers, Settled(g)'
          PROVE  srv'[t] = srv[t]
      <3>1. completed.gen = g /\ completed.batch * Workers >= Cardinality(Servers)
        BY <1>1, <2>1 DEF Settled, eventVars
      <3>2. completed.gen # man.gen
        BY <1>1, <3>1, TestedIsIncomplete
      <3>3. srv'[s] = Applied(srv[s], man.gen, result)
        BY <1>1 DEF IInv, ServerTypes
      <3>4. srv'[s].gen = g
        BY <2>1 DEF Settled
      <3>5. srv'[s] = srv[s]
        BY <3>1, <3>2, <3>3, <3>4, AppliedIsLocal
      <3> QED
        BY <1>1, <3>5 DEF IInv, ServerTypes
    <2> QED
      BY <1>1, <2>1, Undisturbed DEF RInv, eventVars
  <1> QED
    BY <1>5, <1>6, <1>7, <1>8, <1>9 DEF RInv

LEMMA ManualPublishRanks ==
    ASSUME IInv, RInv, ManualPublish, UNCHANGED balancerVars
    PROVE  RInv'
  <1> DEFINE event == [gen |-> man.gen, batch |-> man.number]
  <1>1. /\ man.pc = "publish" /\ man' = [man EXCEPT !.pc = IF man.left = {} THEN "mark" ELSE "run"]
        /\ UNCHANGED <<srv, cycleVars>>
    BY DEF ManualPublish
  <1>2. completed' \in {completed, event} /\ Publish(event) /\ observer'.open = observer.open
    BY Completes DEF ManualPublish
  <1>3. /\ man'.pc = IF man.left = {} THEN "mark" ELSE "run"
        /\ man'.gen = man.gen /\ man'.prepared = man.prepared /\ man'.left = man.left
        /\ man'.batch = man.batch /\ man'.number = man.number
    BY <1>1 DEF IInv, SchedulerTypes, ManualStates
  <1>4. man.batch = {} /\ Testing(man.prepared, man.left, man.number)
    BY <1>1 DEF RInv, ManualShape
  <1>5. CycleShape'
    BY <1>1, CycleUndisturbed DEF cycleVars
  <1>6. ManualShape'
    BY <1>3, <1>4 DEF ManualShape, Testing
  <1>7. Numbering'
    <2>1. /\ completed.batch \in Nat /\ man.number \in Nat
          /\ man.gen \in Nat /\ man.gen > 0 /\ man.gen # cyc.gen
      BY <1>1, MonitoringAssumption
      DEF IInv, EventTypes, Events, SchedulerTypes, ManualStates, Generations, RInv, Numbering
    <2>2. completed'.gen = man.gen => completed'.batch <= man.number
      BY <1>1, <1>2, <2>1 DEF RInv, Numbering
    <2>3. completed'.gen = cyc.gen => completed' = completed
      BY <1>2, <2>1
    <2>4. completed'.gen <= cycleSeq
      BY <1>2 DEF RInv, Numbering
    <2> HIDE DEF event
    <2> QED
      BY <1>1, <1>3, <1>4, <2>1, <2>2, <2>3, <2>4 DEF RInv, Numbering, cycleVars
  <1>8. WorkerShape'
    BY <1>2, WorkerUndisturbed DEF RInv
  <1>9. RankedOrWillBe'
    BY <1>2, Published
  <1> QED
    BY <1>5, <1>6, <1>7, <1>8, <1>9 DEF RInv

(* A refresh that gives up leaves its generation incomplete; what it        *)
(* releases of other generations keeps its result.                          *)
LEMMA TimeoutRanks ==
    ASSUME IInv, RInv, ManualTimeout, UNCHANGED balancerVars
    PROVE  RInv'
  <1> DEFINE pending == man.left \cup man.batch
             Released(r) == IF r.gen = man.gen THEN [r EXCEPT !.enqueued = 0] ELSE r
  <1>1. /\ man.pc = "run"
        /\ man' = [man EXCEPT !.pc = "mark", !.prepared = @ \ pending, !.batch = {}, !.left = {}]
        /\ UNCHANGED <<cycleVars, eventVars>>
    BY DEF ManualTimeout
  <1>2. PICK late \in SUBSET man.batch :
          \E result \in [late -> Results] :
            srv' = [s \in Servers |->
                      CASE s \in late -> Released(Applied(srv[s], man.gen, result[s]))
                        [] s \in pending \ late -> Released(srv[s])
                        [] OTHER -> srv[s]]
    BY DEF ManualTimeout
  <1>3. PICK result \in [late -> Results] :
          srv' = [s \in Servers |->
                    CASE s \in late -> Released(Applied(srv[s], man.gen, result[s]))
                      [] s \in pending \ late -> Released(srv[s])
                      [] OTHER -> srv[s]]
    BY <1>2
  <1>4. man'.pc = "mark" /\ man'.gen = man.gen
    BY <1>1 DEF IInv, SchedulerTypes, ManualStates
  <1>5. CycleShape'
    BY <1>1, CycleUndisturbed DEF cycleVars
  <1>6. ManualShape'
    BY <1>4 DEF ManualShape
  <1>7. Numbering'
    BY <1>1, <1>4, SameRefresh DEF eventVars
  <1>8. WorkerShape'
    BY <1>1, WorkerUndisturbed DEF RInv, eventVars
  <1>9. RankedOrWillBe'
    <2>1. ASSUME NEW g \in Generations, NEW s \in Servers, Settled(g)'
          PROVE  Ranking(srv'[s]) = Ranking(srv[s])
      <3>1. completed.gen = g /\ completed.batch * Workers >= Cardinality(Servers)
        BY <1>1, <2>1 DEF Settled, eventVars
      <3>2. g # man.gen
        BY <1>1, <3>1, TestedIsIncomplete
      <3>3. srv'[s].gen = g
        BY <2>1 DEF Settled
      <3>4. srv[s] \in ServerStates
        BY DEF IInv, ServerTypes
      <3>5. Ranking(Released(srv[s])) = Ranking(srv[s])
        BY <3>4 DEF Ranking, ServerStates
      <3>6. CASE s \in late
        <4> DEFINE applied == Applied(srv[s], man.gen, result[s])
        <4>1. srv'[s] = Released(applied)
          BY <1>3, <3>6
        <4>2. applied = srv[s] \/ applied.gen = man.gen
          BY AppliedIsLocal
        <4>3. applied \in ServerStates
          <5>1. result[s] \in Results /\ man.gen \in Generations
            BY <1>3, <3>6 DEF IInv, SchedulerTypes, ManualStates
          <5> QED
            BY <5>1, ServersAreSound, ServerOperators DEF IInv, Sound
        <4> HIDE DEF applied, Released
        <4>4. applied = srv[s]
          <5>1. CASE applied.gen = man.gen
            <6>1. Released(applied).gen = man.gen
              BY <4>3, <5>1 DEF Released, ServerStates
            <6> QED
              BY <3>2, <3>3, <4>1, <6>1
          <5> QED
            BY <4>2, <5>1
        <4> QED
          BY <3>5, <4>1, <4>4
      <3>7. CASE s \notin late
        <4>1. srv'[s] = Released(srv[s]) \/ srv'[s] = srv[s]
          BY <1>3, <3>7
        <4> HIDE DEF Released
        <4> QED
          BY <3>5, <4>1
      <3> QED
        BY <3>6, <3>7
    <2> QED
      BY <1>1, <2>1, Undisturbed DEF RInv, eventVars
  <1> QED
    BY <1>5, <1>6, <1>7, <1>8, <1>9 DEF RInv

LEMMA MarkRanks ==
    ASSUME IInv, RInv, markManualRefreshForTargets, UNCHANGED balancerVars
    PROVE  RInv'
  <1>1. man' = NoManual /\ UNCHANGED <<srv, cycleVars, completed, observer>>
    BY DEF markManualRefreshForTargets
  <1>2. man'.pc = "off" /\ man'.gen = 0
    BY <1>1 DEF NoManual
  <1>3. CycleShape'
    BY <1>1, CycleUndisturbed DEF cycleVars
  <1>4. ManualShape'
    BY <1>2 DEF ManualShape
  <1>5. Numbering'
    <2>1. 0 <= cycleSeq
      BY MonitoringAssumption DEF IInv, SchedulerTypes, Generations
    <2> QED
      BY <1>1, <1>2, <2>1 DEF RInv, Numbering, cycleVars
  <1>6. WorkerShape'
    BY <1>1, WorkerUndisturbed DEF RInv
  <1>7. RankedOrWillBe'
    BY <1>1, Undisturbed DEF RInv
  <1> QED
    BY <1>3, <1>4, <1>5, <1>6, <1>7 DEF RInv

LEMMA ManualRanks ==
    ASSUME IInv, RInv, Manual, UNCHANGED balancerVars
    PROVE  RInv'
  BY ManualStartRanks, ManualResetRanks, PrepareRanks, StartBatchRanks, ManualResultRanks,
     ManualPublishRanks, TimeoutRanks, MarkRanks DEF Manual

-----------------------------------------------------------------------------
(* The notifier, and a step of the monitoring.                              *)

LEMMA NotifierRanks ==
    ASSUME IInv, RInv, emitGroupEventThrottled, UNCHANGED balancerVars
    PROVE  RInv'
  <1>1. /\ Publish(completed) /\ observer'.open = observer.open
        /\ UNCHANGED <<srv, cycleVars, manualVars, completed>>
    BY DEF emitGroupEventThrottled, Publish
  <1>2. CycleShape'
    BY <1>1, CycleUndisturbed DEF cycleVars
  <1>3. ManualShape'
    BY <1>1 DEF RInv, ManualShape, manualVars
  <1>4. Numbering'
    BY <1>1 DEF RInv, Numbering, cycleVars, manualVars
  <1>5. WorkerShape'
    BY <1>1, WorkerUndisturbed DEF RInv
  <1>6. RankedOrWillBe'
    BY <1>1, Published
  <1> QED
    BY <1>2, <1>3, <1>4, <1>5, <1>6 DEF RInv

LEMMA MonitoringRanks ==
    ASSUME IInv, RInv, MonitoringStep, UNCHANGED balancerVars
    PROVE  RInv'
  BY StartRanks, CycleRanks, ResultRanks, ManualRanks, NotifierRanks DEF MonitoringStep

-----------------------------------------------------------------------------
(* The worker.  A step that leaves the monitoring alone, but for the        *)
(* request of a full cycle and the event that is taken.                     *)

LEMMA MonitoringUndisturbed ==
    ASSUME RInv, UNCHANGED <<cycleSeq, loop, cyc, tests, man, completed>>
    PROVE  CycleShape' /\ ManualShape' /\ Numbering'
  BY DEF RInv, CycleShape, ManualShape, Numbering

(* The worker begins to read.                                               *)
LEMMA BeginsReading ==
    ASSUME snapshot' = Unread, worker'.pc = "update",
           \A g \in Generations :
             Settled(g)' /\ worker'.mode = "batch" => worker'.batch = g
    PROVE  RankedOrWillBe'
  BY DEF RankedOrWillBe, WillRank, ReadsAll, Unread

LEMMA SubscribeRanks ==
    ASSUME IInv, RInv, SubscribeGroup
    PROVE  RInv'
  <1>1. /\ worker.pc = "start" /\ worker.mode = "plain" /\ snapshot = Unread
        /\ worker' = [worker EXCEPT !.pc = "update"]
        /\ observer' = [observer EXCEPT !.open = TRUE]
        /\ UNCHANGED <<cycleVars, manualVars, completed, snapshot>>
    BY DEF SubscribeGroup, RInv, WorkerShape
  <1>2. CycleShape' /\ ManualShape' /\ Numbering'
    BY <1>1, MonitoringUndisturbed DEF cycleVars, manualVars
  <1>3. worker'.pc = "update" /\ worker'.mode = "plain"
    BY <1>1 DEF IInv, BalancerTypes
  <1>4. WorkerShape'
    BY <1>1, <1>3 DEF WorkerShape, IInv, EventTypes
  <1>5. RankedOrWillBe'
    BY <1>1, <1>3, BeginsReading
  <1> QED
    BY <1>2, <1>4, <1>5 DEF RInv

LEMMA ReceiveRanks ==
    ASSUME IInv, RInv, Receive
    PROVE  RInv'
  <1> DEFINE fresh(e) == e.gen > 0 /\ Later(e, lastHandled)
  <1>1. PICK event \in observer.events :
          /\ worker.pc = "idle"
          /\ observer' = [observer EXCEPT !.events = {}]
          /\ lastHandled' = IF fresh(event) THEN event ELSE lastHandled
          /\ worker' = [pc |-> "update",
                        mode |-> CASE manualRefreshAt -> "manual"
                                   [] ~manualRefreshAt /\ fresh(event) -> "batch"
                                   [] OTHER -> "plain",
                        batch |-> IF fresh(event) /\ ~manualRefreshAt THEN event.gen ELSE 0]
          /\ UNCHANGED <<srv, cycleVars, man, completed, snapshot>>
    BY DEF Receive
  <1>2. worker'.mode = "batch" => fresh(event) /\ worker'.batch = lastHandled'.gen
                                 /\ lastHandled'.gen > 0
    BY <1>1
  <1> HIDE DEF fresh
  <1>3. worker'.pc = "update" /\ observer'.open = observer.open
    BY <1>1 DEF IInv, EventTypes
  <1>4. CycleShape' /\ ManualShape' /\ Numbering'
    BY <1>1, MonitoringUndisturbed DEF cycleVars
  <1>5. snapshot = Unread
    BY <1>1 DEF RInv, WorkerShape
  <1>6. WorkerShape'
    BY <1>1, <1>3 DEF RInv, WorkerShape
  <1>7. \A g \in Generations : Settled(g)' /\ worker'.mode = "batch" => worker'.batch = g
    BY <1>2 DEF Settled
  <1>8. RankedOrWillBe'
    BY <1>1, <1>3, <1>5, <1>7, BeginsReading
  <1> QED
    BY <1>4, <1>6, <1>8 DEF RInv

LEMMA ReadRanks ==
    ASSUME IInv, RInv, OutboundsRankingHistory
    PROVE  RInv'
  <1>1. PICK s \in Unreads : /\ worker.pc = "update" /\ snapshot' = Has(s)
                             /\ UNCHANGED <<monitoringVars, worker, lastHandled, selectionVars>>
    BY DEF OutboundsRankingHistory
  <1> USE DEF monitoringVars, eventVars, selectionVars
  <1>2. CycleShape' /\ ManualShape' /\ Numbering'
    BY <1>1, MonitoringUndisturbed DEF cycleVars, manualVars
  <1>3. WorkerShape'
    BY <1>1 DEF RInv, WorkerShape
  <1>4. ASSUME NEW g \in Generations, ReadsAll(g)
        PROVE  ReadsAll(g)'
    BY <1>1, <1>4, ReadsViews DEF ReadsAll
  <1>5. RankedOrWillBe'
    <2> SUFFICES ASSUME NEW g \in Generations, Settled(g)'
                 PROVE  (WillRank(g) \/ HasRanked(g))'
      BY DEF RankedOrWillBe
    <2>1. Settled(g)
      BY <1>1 DEF Settled
    <2>2. HasRanked(g) => HasRanked(g)'
      BY <1>1 DEF HasRanked
    <2> QED
      BY <1>1, <1>4, <2>1, <2>2 DEF RInv, RankedOrWillBe, WillRank
  <1> QED
    BY <1>2, <1>3, <1>5 DEF RInv

(* What a settled cohort looks like to a worker that has read all of it.    *)
LEMMA SettledIsRead ==
    ASSUME IInv, NEW g \in Generations, Settled(g), ReadsAll(g),
           NEW s \in Unreads, Unreads = {s}
    PROVE  /\ \A t \in Servers : Has(s)[t] = Ranking(srv[t])
           /\ generationSettled(Has(s), g)
           /\ generationCoversAll(Has(s), g)
           /\ currentGeneration(Has(s)) = g
           /\ bootstrapGenerationSettled(Has(s), g)
  <1>1. s \in Servers /\ \A t \in Servers : Has(s)[t] = Ranking(srv[t])
    BY ReadsViews DEF ReadsAll, Unreads
  <1>2. \A t \in Servers : Has(s)[t].gen = g /\ Terminal(Has(s)[t])
    <2> SUFFICES ASSUME NEW t \in Servers PROVE Has(s)[t].gen = g /\ Terminal(Has(s)[t])
      OBVIOUS
    <2>1. srv[t].gen = g /\ Terminal(srv[t])
      BY DEF Settled
    <2>2. /\ Ranking(srv[t]).gen = srv[t].gen /\ Ranking(srv[t]).ready = srv[t].ready
          /\ Ranking(srv[t]).status = srv[t].status
      BY DEF Ranking
    <2>3. Terminal(Ranking(srv[t]))
      BY <2>1, <2>2, Zenon DEF Terminal
    <2> QED
      BY <1>1, <2>1, <2>2, <2>3
  <1>3. g > 0 /\ g >= g
    BY MonitoringAssumption DEF Settled, Generations
  <1>4. currentGeneration(Has(s)) = g
    <2>1. {Has(s)[t].gen : t \in Servers} = {g}
      BY <1>1, <1>2
    <2>2. currentGeneration(Has(s)) \in {g}
      BY <1>2, <1>3, <2>1 DEF currentGeneration
    <2> QED
      BY <2>2
  <1> QED
    BY <1>1, <1>2, <1>3, <1>4
    DEF generationSettled, generationCoversAll, bootstrapGenerationSettled

(* The startup selects from a settled cohort that was read.                 *)
LEMMA StartupSelects ==
    ASSUME IInv, NEW g \in Generations, Settled(g), ReadsAll(g), bootstrap,
           NEW s \in Unreads, Unreads = {s},
           \E t \in Servers : srv[t].status = "success",
           NEW decision \in StartupDecisions(Has(s), g)
    PROVE  decision.active \in Servers /\ ~decision.bootstrap
  <1>1. Eligible(Has(s), g) # {}
    <2>1. PICK t \in Servers : srv[t].status = "success"
      OBVIOUS
    <2>2. Has(s)[t].status = "success"
      <3>1. Has(s)[t] = Ranking(srv[t])
        BY SettledIsRead
      <3> QED
        BY <2>1, <3>1 DEF Ranking
    <2> QED
      BY <2>1, <2>2, SettledIsRead DEF generationSettled, Terminal, Eligible
  <1>2. ~(\/ g = 0
          \/ worker.mode = "batch" /\ worker.batch # g
          \/ worker.mode = "plain" /\ ~bootstrapGenerationSettled(Has(s), g)
          \/ Eligible(Has(s), g) = {})
    BY <1>1, SettledIsRead DEF Settled, ReadsAll
  <1>3. PICK c \in Eligible(Has(s), g) :
          decision = [active |-> c, bootstrap |-> ~bootstrapGenerationSettled(Has(s), g)]
    BY <1>2 DEF StartupDecisions
  <1>4. decision.active = c /\ decision.bootstrap = ~bootstrapGenerationSettled(Has(s), g)
    BY <1>3, Zenon
  <1>5. ~decision.bootstrap
    BY <1>4, SettledIsRead, Zenon
  <1> QED
    BY <1>4, <1>5 DEF Eligible

LEMMA UpdateRanks ==
    ASSUME IInv, RInv, updateOutboundsInfo
    PROVE  RInv'
  <1> DEFINE sel(h) == IF /\ currentGeneration(h) > selectionGeneration
                          /\ generationCoversAll(h, currentGeneration(h))
                       THEN currentGeneration(h) ELSE selectionGeneration
             full(h) == rememberFullGeneration(h, sel(h))
             d(h) == IF ~bootstrap /\ sel(h) > 0 /\ sel(h) = full(h).gen
                     THEN fullGenerationDecisionHistory(h, full(h)) ELSE h
  <1>1. PICK s \in Unreads :
          /\ worker.pc = "update"
          /\ Unreads = {s}
          /\ worker' = IdleWorker
          /\ snapshot' = Unread
          /\ selectionGeneration' = sel(Has(s))
          /\ lastFull' = full(Has(s))
          /\ \E decision \in IF bootstrap THEN StartupDecisions(Has(s), sel(Has(s)))
                             ELSE ConfirmedDecisions(Has(s), d(Has(s)), sel(Has(s)),
                                                     full(Has(s))) :
               active' = decision.active /\ bootstrap' = decision.bootstrap
    BY DEF updateOutboundsInfo
  <1>2. UNCHANGED <<srv, cycleSeq, loop, cyc, tests, man, completed, observer, lastHandled>>
    BY DEF updateOutboundsInfo, manualVars, eventVars
  <1> HIDE DEF sel, full, d
  <1>3. PICK decision \in IF bootstrap THEN StartupDecisions(Has(s), sel(Has(s)))
                          ELSE ConfirmedDecisions(Has(s), d(Has(s)), sel(Has(s)),
                                                  full(Has(s))) :
          active' = decision.active /\ bootstrap' = decision.bootstrap
    BY <1>1, Zenon
  <1>4. BalancerTypes
    BY DEF IInv
  <1>5. Decided(decision, Has(s), d(Has(s)), sel(Has(s)))
    BY <1>3, <1>4, DecisionsTaken, Zenon
  <1>6. s \in Servers /\ Has(s)[s].gen \in Generations
    <2>1. s \in Servers /\ Has(s)[s] = Ranking(srv[s])
      BY ReadsViews
    <2>2. srv[s].gen \in Generations
      BY <2>1 DEF IInv, ServerTypes, ServerStates
    <2> QED
      BY <2>1, <2>2 DEF Ranking
  <1>7. selectionGeneration' \in Generations /\ selectionGeneration <= selectionGeneration'
    <2>1. generationCoversAll(Has(s), currentGeneration(Has(s)))
            => currentGeneration(Has(s)) \in Generations
      BY <1>6 DEF generationCoversAll
    <2> QED
      BY <1>1, <1>4, <2>1 DEF sel, BalancerTypes, Generations
  <1>8. CycleShape' /\ ManualShape' /\ Numbering'
    BY <1>2, MonitoringUndisturbed
  <1>9. WorkerShape'
    BY <1>1, <1>2 DEF RInv, WorkerShape, IdleWorker
  <1>10. ASSUME NEW g \in Generations, Settled(g)'
         PROVE  Settled(g)
    BY <1>2, <1>4, <1>7, <1>10, MonitoringAssumption DEF Settled, BalancerTypes, Generations
  (* What was read is the cohort: it is remembered, and selected from.      *)
  <1>11. ASSUME NEW g \in Generations, Settled(g), ReadsAll(g)
         PROVE  HasRanked(g)'
    <2>1. selectionGeneration' = g
      <3>1. currentGeneration(Has(s)) = g /\ generationCoversAll(Has(s), g)
        BY <1>1, <1>11, SettledIsRead
      <3>2. selectionGeneration <= g
        BY <1>11 DEF Settled
      <3> QED
        BY <1>1, <1>4, <3>1, <3>2, MonitoringAssumption DEF sel, BalancerTypes, Generations
    <2>2. lastFull'.gen = g
      <3>1. generationSettled(Has(s), g)
        BY <1>1, <1>11, SettledIsRead
      <3>2. lastFull.gen <= g
        BY <1>4, <1>11, MonitoringAssumption DEF Settled, BalancerTypes, Generations
      <3>3. lastFull' = rememberFullGeneration(Has(s), g)
        BY <1>1, <2>1 DEF full
      <3> QED
        BY <1>4, <3>1, <3>2, <3>3, MonitoringAssumption
        DEF rememberFullGeneration, BalancerTypes, Generations
    <2>3. ASSUME \E t \in Servers : srv[t].status = "success"
          PROVE  active' # None /\ ~bootstrap'
      <3>1. CASE bootstrap
        <4>1. decision \in StartupDecisions(Has(s), g)
          BY <1>1, <1>3, <2>1, <3>1
        <4>2. decision.active \in Servers /\ ~decision.bootstrap
          BY <1>1, <1>11, <2>3, <3>1, <4>1, StartupSelects
        <4>3. active' \in Servers
          BY <1>3, <4>2
        <4>4. ~bootstrap'
          BY <1>3, <4>2, Zenon
        <4> QED
          BY <4>3, <4>4, MonitoringAssumption
      <3>2. CASE ~bootstrap
        <4>1. bootstrap' = bootstrap
          BY <1>3, <1>5, <3>2, Zenon DEF Decided
        <4>2. active' = active \/ active' \in Servers
          BY <1>3, <1>5, <3>2 DEF Decided, Eligible
        <4> QED
          BY <1>4, <3>2, <4>1, <4>2, MonitoringAssumption DEF BalancerTypes
      <3> QED
        BY <3>1, <3>2
    <2> QED
      BY <1>2, <2>2, <2>3 DEF HasRanked
  (* What was ranked stays ranked, while the selection does not go beyond.  *)
  <1>12. ASSUME NEW g \in Generations, Settled(g)', HasRanked(g)
         PROVE  HasRanked(g)'
    <2>1. lastFull.gen = g /\ lastFull.gen \in Nat
      BY <1>4, <1>12, MonitoringAssumption DEF HasRanked, BalancerTypes, Generations
    <2>2. selectionGeneration' <= g
      BY <1>12 DEF Settled
    <2>3. lastFull'.gen = g
      <3>1. lastFull' = rememberFullGeneration(Has(s), selectionGeneration')
        BY <1>1 DEF full
      <3>2. \/ lastFull'.gen = lastFull.gen
            \/ lastFull'.gen = selectionGeneration' /\ selectionGeneration' > lastFull.gen
        BY <1>4, <1>7, <3>1, MonitoringAssumption
        DEF rememberFullGeneration, BalancerTypes, Generations
      <3> QED
        BY <1>7, <2>1, <2>2, <3>2, MonitoringAssumption DEF Generations
    <2>4. ASSUME active # None, ~bootstrap
          PROVE  active' # None /\ ~bootstrap'
      <3>1. bootstrap' = bootstrap
        BY <1>3, <1>5, <2>4, Zenon DEF Decided
      <3>2. active' = active \/ active' \in Servers
        BY <1>3, <1>5, <2>4 DEF Decided, Eligible
      <3> QED
        BY <2>4, <3>1, <3>2, MonitoringAssumption
    <2> QED
      BY <1>2, <1>12, <2>3, <2>4 DEF HasRanked
  <1>13. RankedOrWillBe'
    <2> SUFFICES ASSUME NEW g \in Generations, Settled(g)'
                 PROVE  (WillRank(g) \/ HasRanked(g))'
      BY DEF RankedOrWillBe
    <2>1. Settled(g)
      BY <1>10
    <2>2. observer.events # {} \/ ReadsAll(g) \/ HasRanked(g)
      BY <1>1, <2>1 DEF RInv, RankedOrWillBe, WillRank
    <2> QED
      BY <1>2, <1>11, <1>12, <2>1, <2>2 DEF WillRank
  <1> QED
    BY <1>8, <1>9, <1>13 DEF RInv

-----------------------------------------------------------------------------
(* The invariant holds in every state of every behaviour.                   *)
THEOREM RankingInvariance == Spec => [](IInv /\ RInv)
  <1>1. Init => RInv
    BY RankingInitially
  <1>2. IInv /\ RInv /\ [Next]_vars => RInv'
    <2> SUFFICES ASSUME IInv, RInv, [Next]_vars PROVE RInv'
      OBVIOUS
    <2>1. CASE MonitoringStep /\ UNCHANGED balancerVars
      BY <2>1, MonitoringRanks
    <2>2. CASE BalancerStep
      BY <2>2, SubscribeRanks, ReceiveRanks, ReadRanks, UpdateRanks DEF BalancerStep
    <2>3. CASE UNCHANGED vars
      <3> USE <2>3 DEF vars, monitoringVars, cycleVars, manualVars, eventVars, balancerVars,
                       selectionVars
      <3>1. CycleShape' /\ ManualShape' /\ Numbering'
        BY MonitoringUndisturbed
      <3>2. WorkerShape'
        BY WorkerUndisturbed DEF RInv
      <3>3. RankedOrWillBe'
        BY Undisturbed DEF RInv
      <3> QED
        BY <3>1, <3>2, <3>3 DEF RInv
    <2> QED
      BY <2>1, <2>2, <2>3 DEF Next
  <1> QED
    BY <1>1, <1>2, Invariance, PTL DEF Spec

(* When nothing is left to be done, a settled cohort whose last batch was   *)
(* published has been ranked and, if a server of it works, one is selected: *)
(* whatever events were dropped, however late the worker subscribed, and    *)
(* whatever came while it was reading (outbound_monitoring.go, balancer.go).*)
THEOREM QuietMeansRankedAlways == Spec => []QuietMeansRanked
  <1>1. IInv /\ RInv => QuietMeansRanked
    <2> DEFINE h == [s \in Servers |-> Ranking(srv[s])]
    <2> SUFFICES ASSUME IInv, RInv, NEW g, g = currentGeneration(h),
                        Quiet, generationSettled(h, g), completed.gen = g,
                        completed.batch * Workers >= Cardinality(Servers),
                        lastHandled.gen \in {0, g}, g >= selectionGeneration
                 PROVE  /\ lastFull.gen = g
                        /\ Eligible(h, g) # {} => active # None /\ ~bootstrap
      BY DEF QuietMeansRanked
    <2>1. g \in Generations
      BY DEF IInv, EventTypes, Events
    <2>2. \A s \in Servers : /\ h[s].gen = srv[s].gen /\ h[s].ready = srv[s].ready
                             /\ h[s].status = srv[s].status
      BY DEF Ranking
    <2> HIDE DEF h
    <2>3. Settled(g)
      BY <2>2 DEF Settled, generationSettled, Terminal
    <2>4. ~WillRank(g)
      BY DEF WillRank, ReadsAll, Quiet
    <2>5. HasRanked(g)
      BY <2>1, <2>3, <2>4 DEF RInv, RankedOrWillBe
    <2> QED
      BY <2>2, <2>5 DEF HasRanked, Eligible
  <1> QED
    BY <1>1, RankingInvariance, PTL
=============================================================================
