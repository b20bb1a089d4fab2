------------------------ MODULE CoreOwnershipProofs ------------------------
(***************************************************************************)
(* The core's ownership protocol, for any bound on the generations: the    *)
(* four safety properties of CoreOwnership follow from an invariant in     *)
(* four parts, of which two carry the argument.                            *)
(*                                                                         *)
(* Exclusive: the native mutex is held by exactly the actor whose place is *)
(* inside it, so that the setup of one generation and the close of another *)
(* never overlap.                                                          *)
(*                                                                         *)
(* OwnerKept, JobBound: an owner can lose the core only to the job of its  *)
(* own session's close, and once that job exists the session's scope is    *)
(* cancelled, so that no start of that session can set the core up again.  *)
(*                                                                         *)
(* That the core implements SessionResource needs the order of the         *)
(* generations as well: Turns, at the end.                                 *)
(***************************************************************************)
EXTENDS CoreOwnership, TLAPS

USE CoreBoundAssumption

InExclusive == {"holding", "settling", "setup", "starting"}
Acquired == {"acquired", "queued"} \cup InExclusive

(* The mutex is held by at most one start, the close job or the Setup call. *)
Exclusive ==
  /\ \A g \in Gen : start[g] \in InExclusive => mutex = "start"
  /\ \A g, h \in Gen : start[g] \in InExclusive /\ start[h] \in InExclusive => g = h
  /\ job \in {"closing", "released"} => mutex = "close"
  /\ flutterSetup = "holding" => mutex = "flutter"

(* A start that acquired the core and is not cancelled yet, and a close that *)
(* found its session to own the core, can rely on it.                        *)
OwnerKept ==
  \A g \in Gen :
    /\ start[g] \in Acquired /\ ~scopeCancelled(g) => owner = g
    /\ close[g] = "owns" => owner = g

(* A job closes the core of a session whose close has gone past its core     *)
(* step, and that session owns the core until the job releases it.           *)
JobBound ==
  /\ activeClose = 0 <=> job = "none"
  /\ activeClose # 0 => close[activeClose] \in {"network", "closed"}
  /\ job \in {"waiting", "closing", "released"} => owner = activeClose
  /\ job = "released" => core = 0

IInv == TypeOK /\ Exclusive /\ OwnerKept /\ JobBound /\ CoreIsOwned

(* The initial state satisfies the invariant.                              *)
LEMMA InitIInv == Init => IInv
  BY DEF Init, IInv, TypeOK, Gen, StartStage, CloseStage, JobStage, SetupStage, Holder,
     Exclusive, InExclusive, OwnerKept, Acquired, JobBound, CoreIsOwned

(* A generation is allocated or a session committed: no owner, core or lock *)
(* changes, and a committed start has not acquired anything.               *)
LEMMA SessionsPreserve ==
  ASSUME IInv, accept \/ beginExplicitSession
  PROVE  IInv'
<1> USE DEF IInv, TypeOK, Gen, StartStage, CloseStage, JobStage, SetupStage, Holder
<1>1. CASE accept
  <2>1. TypeOK'
    BY <1>1 DEF accept
  <2>2. Exclusive'
    BY <1>1 DEF accept, Exclusive, InExclusive
  <2>3. OwnerKept'
    BY <1>1 DEF accept, OwnerKept, Acquired, InExclusive, scopeCancelled, JobBound
  <2>4. JobBound'
    BY <1>1 DEF accept, JobBound, OwnerKept, Exclusive
  <2>5. CoreIsOwned'
    BY <1>1 DEF accept, CoreIsOwned, OwnerKept, Acquired, InExclusive, JobBound
  <2> QED BY <2>1, <2>2, <2>3, <2>4, <2>5
<1>2. CASE beginExplicitSession
  <2>1. TypeOK'
    BY <1>2 DEF beginExplicitSession
  <2>2. Exclusive'
    BY <1>2 DEF beginExplicitSession, Exclusive, InExclusive
  <2>3. OwnerKept'
    BY <1>2 DEF beginExplicitSession, OwnerKept, Acquired, InExclusive, scopeCancelled, JobBound
  <2>4. JobBound'
    BY <1>2 DEF beginExplicitSession, JobBound, OwnerKept, Exclusive
  <2>5. CoreIsOwned'
    BY <1>2 DEF beginExplicitSession, CoreIsOwned, OwnerKept, Acquired, InExclusive, JobBound
  <2> QED BY <2>1, <2>2, <2>3, <2>4, <2>5
<1> QED BY <1>1, <1>2

(* onDestroy detaches the session; its start and its close go on.          *)
LEMMA DestroyPreserves ==
  ASSUME IInv, NEW g \in Gen, onDestroy(g)
  PROVE  IInv'
<1> USE DEF IInv, TypeOK, Gen, StartStage, CloseStage, JobStage, SetupStage, Holder
<1>1. CASE onDestroy(g)
  <2>1. TypeOK'
    BY <1>1 DEF onDestroy
  <2>2. Exclusive'
    BY <1>1 DEF onDestroy, Exclusive, InExclusive
  <2>3. OwnerKept'
    BY <1>1 DEF onDestroy, OwnerKept, Acquired, InExclusive, scopeCancelled, JobBound
  <2>4. JobBound'
    BY <1>1 DEF onDestroy, JobBound, OwnerKept, Exclusive
  <2>5. CoreIsOwned'
    BY <1>1 DEF onDestroy, CoreIsOwned, OwnerKept, Acquired, InExclusive, JobBound
  <2> QED BY <2>1, <2>2, <2>3, <2>4, <2>5
<1> QED BY <1>1

(* startService up to the mutex: tryAcquire takes the core only when it is  *)
(* free or its own already, so no running close job loses its owner.       *)
LEMMA StartWaits ==
  ASSUME IInv, NEW g \in Gen, awaitPreviousShutdown(g) \/ checkAfterWait(g) \/ tryAcquire(g) \/ queueForNative(g)
  PROVE  IInv'
<1> USE DEF IInv, TypeOK, Gen, StartStage, CloseStage, JobStage, SetupStage, Holder
<1>1. CASE awaitPreviousShutdown(g)
  <2>1. TypeOK'
    BY <1>1 DEF awaitPreviousShutdown, Proceed, scopeCancelled
  <2>2. Exclusive'
    BY <1>1 DEF awaitPreviousShutdown, Proceed, scopeCancelled, Exclusive, InExclusive
  <2>3. OwnerKept'
    BY <1>1 DEF awaitPreviousShutdown, Proceed, scopeCancelled, OwnerKept, Acquired, InExclusive, scopeCancelled, JobBound
  <2>4. JobBound'
    BY <1>1 DEF awaitPreviousShutdown, Proceed, scopeCancelled, JobBound, OwnerKept, Exclusive
  <2>5. CoreIsOwned'
    BY <1>1 DEF awaitPreviousShutdown, Proceed, scopeCancelled, CoreIsOwned, OwnerKept, Acquired, InExclusive, JobBound
  <2> QED BY <2>1, <2>2, <2>3, <2>4, <2>5
<1>2. CASE checkAfterWait(g)
  <2>1. TypeOK'
    BY <1>2 DEF checkAfterWait, Proceed, scopeCancelled
  <2>2. Exclusive'
    BY <1>2 DEF checkAfterWait, Proceed, scopeCancelled, Exclusive, InExclusive
  <2>3. OwnerKept'
    BY <1>2 DEF checkAfterWait, Proceed, scopeCancelled, OwnerKept, Acquired, InExclusive, scopeCancelled, JobBound
  <2>4. JobBound'
    BY <1>2 DEF checkAfterWait, Proceed, scopeCancelled, JobBound, OwnerKept, Exclusive
  <2>5. CoreIsOwned'
    BY <1>2 DEF checkAfterWait, Proceed, scopeCancelled, CoreIsOwned, OwnerKept, Acquired, InExclusive, JobBound
  <2> QED BY <2>1, <2>2, <2>3, <2>4, <2>5
<1>3. CASE tryAcquire(g)
  <2>1. TypeOK'
    BY <1>3 DEF tryAcquire, Proceed, scopeCancelled
  <2>2. Exclusive'
    BY <1>3 DEF tryAcquire, Proceed, scopeCancelled, Exclusive, InExclusive
  <2>3. OwnerKept'
    BY <1>3 DEF tryAcquire, Proceed, scopeCancelled, OwnerKept, Acquired, InExclusive, scopeCancelled, JobBound
  <2>4. JobBound'
    BY <1>3 DEF tryAcquire, Proceed, scopeCancelled, JobBound, OwnerKept, Exclusive
  <2>5. CoreIsOwned'
    BY <1>3 DEF tryAcquire, Proceed, scopeCancelled, CoreIsOwned, OwnerKept, Acquired, InExclusive, JobBound
  <2> QED BY <2>1, <2>2, <2>3, <2>4, <2>5
<1>4. CASE queueForNative(g)
  <2>1. TypeOK'
    BY <1>4 DEF queueForNative, Proceed, scopeCancelled
  <2>2. Exclusive'
    BY <1>4 DEF queueForNative, Proceed, scopeCancelled, Exclusive, InExclusive
  <2>3. OwnerKept'
    BY <1>4 DEF queueForNative, Proceed, scopeCancelled, OwnerKept, Acquired, InExclusive, scopeCancelled, JobBound
  <2>4. JobBound'
    BY <1>4 DEF queueForNative, Proceed, scopeCancelled, JobBound, OwnerKept, Exclusive
  <2>5. CoreIsOwned'
    BY <1>4 DEF queueForNative, Proceed, scopeCancelled, CoreIsOwned, OwnerKept, Acquired, InExclusive, JobBound
  <2> QED BY <2>1, <2>2, <2>3, <2>4, <2>5
<1> QED BY <1>1, <1>2, <1>3, <1>4

(* startService inside the mutex: a session whose scope is not cancelled    *)
(* still owns the core when Mobile.setup runs.                             *)
LEMMA StartHolds ==
  ASSUME IInv, NEW g \in Gen, enterExclusive(g) \/ checkInExclusive(g) \/ Setup(g) \/ checkAfterSetup(g) \/ awaitReady(g)
  PROVE  IInv'
<1> USE DEF IInv, TypeOK, Gen, StartStage, CloseStage, JobStage, SetupStage, Holder
<1>1. CASE enterExclusive(g)
  <2>1. TypeOK'
    BY <1>1 DEF enterExclusive, Proceed, LeaveExclusive, scopeCancelled, mayContinue, acceptsOperations, shutdownSettled
  <2>2. Exclusive'
    BY <1>1 DEF enterExclusive, Proceed, LeaveExclusive, scopeCancelled, mayContinue, acceptsOperations, shutdownSettled, Exclusive, InExclusive
  <2>3. OwnerKept'
    BY <1>1 DEF enterExclusive, Proceed, LeaveExclusive, scopeCancelled, mayContinue, acceptsOperations, shutdownSettled, OwnerKept, Acquired, InExclusive, scopeCancelled, JobBound
  <2>4. JobBound'
    BY <1>1 DEF enterExclusive, Proceed, LeaveExclusive, scopeCancelled, mayContinue, acceptsOperations, shutdownSettled, JobBound, OwnerKept, Exclusive
  <2>5. CoreIsOwned'
    BY <1>1 DEF enterExclusive, Proceed, LeaveExclusive, scopeCancelled, mayContinue, acceptsOperations, shutdownSettled, CoreIsOwned, OwnerKept, Acquired, InExclusive, JobBound
  <2> QED BY <2>1, <2>2, <2>3, <2>4, <2>5
<1>2. CASE checkInExclusive(g)
  <2>1. TypeOK'
    BY <1>2 DEF checkInExclusive, Proceed, LeaveExclusive, scopeCancelled, mayContinue, acceptsOperations, shutdownSettled
  <2>2. Exclusive'
    BY <1>2 DEF checkInExclusive, Proceed, LeaveExclusive, scopeCancelled, mayContinue, acceptsOperations, shutdownSettled, Exclusive, InExclusive
  <2>3. OwnerKept'
    BY <1>2 DEF checkInExclusive, Proceed, LeaveExclusive, scopeCancelled, mayContinue, acceptsOperations, shutdownSettled, OwnerKept, Acquired, InExclusive, scopeCancelled, JobBound
  <2>4. JobBound'
    BY <1>2 DEF checkInExclusive, Proceed, LeaveExclusive, scopeCancelled, mayContinue, acceptsOperations, shutdownSettled, JobBound, OwnerKept, Exclusive
  <2>5. CoreIsOwned'
    BY <1>2 DEF checkInExclusive, Proceed, LeaveExclusive, scopeCancelled, mayContinue, acceptsOperations, shutdownSettled, CoreIsOwned, OwnerKept, Acquired, InExclusive, JobBound
  <2> QED BY <2>1, <2>2, <2>3, <2>4, <2>5
<1>3. CASE Setup(g)
  <2>1. TypeOK'
    <3>1. setups' \in {setups, setups \cup {g}}
      BY <1>3 DEF Setup
    <3>2. setups' \subseteq Gen
      BY <3>1
    <3>3. core' \in 0 .. MaxGeneration
      BY <1>3 DEF Setup
    <3>4. \E stage \in StartStage : start' = [start EXCEPT ![g] = stage]
      BY <1>3 DEF Setup, Proceed, LeaveExclusive
    <3> QED
      BY <1>3, <3>2, <3>3, <3>4 DEF Setup, Proceed, LeaveExclusive
  <2>2. Exclusive'
    BY <1>3 DEF Setup, Proceed, LeaveExclusive, scopeCancelled, mayContinue, acceptsOperations, shutdownSettled, Exclusive, InExclusive
  <2>3. OwnerKept'
    BY <1>3 DEF Setup, Proceed, LeaveExclusive, scopeCancelled, mayContinue, acceptsOperations, shutdownSettled, OwnerKept, Acquired, InExclusive, scopeCancelled, JobBound
  <2>4. JobBound'
    BY <1>3 DEF Setup, Proceed, LeaveExclusive, scopeCancelled, mayContinue, acceptsOperations, shutdownSettled, JobBound, OwnerKept, Exclusive
  <2>5. CoreIsOwned'
    BY <1>3 DEF Setup, Proceed, LeaveExclusive, scopeCancelled, mayContinue, acceptsOperations, shutdownSettled, CoreIsOwned, OwnerKept, Acquired, InExclusive, JobBound
  <2> QED BY <2>1, <2>2, <2>3, <2>4, <2>5
<1>4. CASE checkAfterSetup(g)
  <2>1. TypeOK'
    BY <1>4 DEF checkAfterSetup, Proceed, LeaveExclusive, scopeCancelled, mayContinue, acceptsOperations, shutdownSettled
  <2>2. Exclusive'
    BY <1>4 DEF checkAfterSetup, Proceed, LeaveExclusive, scopeCancelled, mayContinue, acceptsOperations, shutdownSettled, Exclusive, InExclusive
  <2>3. OwnerKept'
    BY <1>4 DEF checkAfterSetup, Proceed, LeaveExclusive, scopeCancelled, mayContinue, acceptsOperations, shutdownSettled, OwnerKept, Acquired, InExclusive, scopeCancelled, JobBound
  <2>4. JobBound'
    BY <1>4 DEF checkAfterSetup, Proceed, LeaveExclusive, scopeCancelled, mayContinue, acceptsOperations, shutdownSettled, JobBound, OwnerKept, Exclusive
  <2>5. CoreIsOwned'
    BY <1>4 DEF checkAfterSetup, Proceed, LeaveExclusive, scopeCancelled, mayContinue, acceptsOperations, shutdownSettled, CoreIsOwned, OwnerKept, Acquired, InExclusive, JobBound
  <2> QED BY <2>1, <2>2, <2>3, <2>4, <2>5
<1>5. CASE awaitReady(g)
  <2>1. TypeOK'
    BY <1>5 DEF awaitReady, Proceed, LeaveExclusive, scopeCancelled, mayContinue, acceptsOperations, shutdownSettled
  <2>2. Exclusive'
    BY <1>5 DEF awaitReady, Proceed, LeaveExclusive, scopeCancelled, mayContinue, acceptsOperations, shutdownSettled, Exclusive, InExclusive
  <2>3. OwnerKept'
    BY <1>5 DEF awaitReady, Proceed, LeaveExclusive, scopeCancelled, mayContinue, acceptsOperations, shutdownSettled, OwnerKept, Acquired, InExclusive, scopeCancelled, JobBound
  <2>4. JobBound'
    BY <1>5 DEF awaitReady, Proceed, LeaveExclusive, scopeCancelled, mayContinue, acceptsOperations, shutdownSettled, JobBound, OwnerKept, Exclusive
  <2>5. CoreIsOwned'
    BY <1>5 DEF awaitReady, Proceed, LeaveExclusive, scopeCancelled, mayContinue, acceptsOperations, shutdownSettled, CoreIsOwned, OwnerKept, Acquired, InExclusive, JobBound
  <2> QED BY <2>1, <2>2, <2>3, <2>4, <2>5
<1> QED BY <1>1, <1>2, <1>3, <1>4, <1>5

(* closeSession: between the test of ownership and the dispatch of the      *)
(* close job nobody but this session could have released the core.         *)
LEMMA ClosePreserves ==
  ASSUME IInv, NEW g \in Gen, closeSession(g) \/ cancelScope(g) \/ testOwns(g) \/ dispatchClose(g) \/ clearNetwork(g)
  PROVE  IInv'
<1> USE DEF IInv, TypeOK, Gen, StartStage, CloseStage, JobStage, SetupStage, Holder
<1>1. CASE closeSession(g)
  <2>1. TypeOK'
    BY <1>1 DEF closeSession, Closing, closesSession
  <2>2. Exclusive'
    BY <1>1 DEF closeSession, Closing, closesSession, Exclusive, InExclusive
  <2>3. OwnerKept'
    BY <1>1 DEF closeSession, Closing, closesSession, OwnerKept, Acquired, InExclusive, scopeCancelled, JobBound
  <2>4. JobBound'
    BY <1>1 DEF closeSession, Closing, closesSession, JobBound, OwnerKept, Exclusive
  <2>5. CoreIsOwned'
    BY <1>1 DEF closeSession, Closing, closesSession, CoreIsOwned, OwnerKept, Acquired, InExclusive, JobBound
  <2> QED BY <2>1, <2>2, <2>3, <2>4, <2>5
<1>2. CASE cancelScope(g)
  <2>1. TypeOK'
    BY <1>2 DEF cancelScope, Closing, closesSession
  <2>2. Exclusive'
    BY <1>2 DEF cancelScope, Closing, closesSession, Exclusive, InExclusive
  <2>3. OwnerKept'
    BY <1>2 DEF cancelScope, Closing, closesSession, OwnerKept, Acquired, InExclusive, scopeCancelled, JobBound
  <2>4. JobBound'
    BY <1>2 DEF cancelScope, Closing, closesSession, JobBound, OwnerKept, Exclusive
  <2>5. CoreIsOwned'
    BY <1>2 DEF cancelScope, Closing, closesSession, CoreIsOwned, OwnerKept, Acquired, InExclusive, JobBound
  <2> QED BY <2>1, <2>2, <2>3, <2>4, <2>5
<1>3. CASE testOwns(g)
  <2>1. TypeOK'
    BY <1>3 DEF testOwns, Closing, closesSession
  <2>2. Exclusive'
    BY <1>3 DEF testOwns, Closing, closesSession, Exclusive, InExclusive
  <2>3. OwnerKept'
    BY <1>3 DEF testOwns, Closing, closesSession, OwnerKept, Acquired, InExclusive, scopeCancelled, JobBound
  <2>4. JobBound'
    BY <1>3 DEF testOwns, Closing, closesSession, JobBound, OwnerKept, Exclusive
  <2>5. CoreIsOwned'
    BY <1>3 DEF testOwns, Closing, closesSession, CoreIsOwned, OwnerKept, Acquired, InExclusive, JobBound
  <2> QED BY <2>1, <2>2, <2>3, <2>4, <2>5
<1>4. CASE dispatchClose(g)
  <2>1. TypeOK'
    BY <1>4 DEF dispatchClose, Closing, closesSession
  <2>2. Exclusive'
    BY <1>4 DEF dispatchClose, Closing, closesSession, Exclusive, InExclusive
  <2>3. OwnerKept'
    BY <1>4 DEF dispatchClose, Closing, closesSession, OwnerKept, Acquired, InExclusive, scopeCancelled, JobBound
  <2>4. JobBound'
    BY <1>4 DEF dispatchClose, Closing, closesSession, JobBound, OwnerKept, Exclusive
  <2>5. CoreIsOwned'
    BY <1>4 DEF dispatchClose, Closing, closesSession, CoreIsOwned, OwnerKept, Acquired, InExclusive, JobBound
  <2> QED BY <2>1, <2>2, <2>3, <2>4, <2>5
<1>5. CASE clearNetwork(g)
  <2>1. TypeOK'
    BY <1>5 DEF clearNetwork, Closing, closesSession
  <2>2. Exclusive'
    BY <1>5 DEF clearNetwork, Closing, closesSession, Exclusive, InExclusive
  <2>3. OwnerKept'
    BY <1>5 DEF clearNetwork, Closing, closesSession, OwnerKept, Acquired, InExclusive, scopeCancelled, JobBound
  <2>4. JobBound'
    BY <1>5 DEF clearNetwork, Closing, closesSession, JobBound, OwnerKept, Exclusive
  <2>5. CoreIsOwned'
    BY <1>5 DEF clearNetwork, Closing, closesSession, CoreIsOwned, OwnerKept, Acquired, InExclusive, JobBound
  <2> QED BY <2>1, <2>2, <2>3, <2>4, <2>5
<1> QED BY <1>1, <1>2, <1>3, <1>4, <1>5

(* The close job: the owner is released after the core is down.            *)
LEMMA JobPreserves ==
  ASSUME IInv, jobEnters \/ mobileClose \/ release \/ jobCompletes
  PROVE  IInv'
<1> USE DEF IInv, TypeOK, Gen, StartStage, CloseStage, JobStage, SetupStage, Holder
<1>1. CASE jobEnters
  <2>1. TypeOK'
    BY <1>1 DEF jobEnters, JobStep
  <2>2. Exclusive'
    BY <1>1 DEF jobEnters, JobStep, Exclusive, InExclusive
  <2>3. OwnerKept'
    BY <1>1 DEF jobEnters, JobStep, OwnerKept, Acquired, InExclusive, scopeCancelled, JobBound
  <2>4. JobBound'
    BY <1>1 DEF jobEnters, JobStep, JobBound, OwnerKept, Exclusive
  <2>5. CoreIsOwned'
    BY <1>1 DEF jobEnters, JobStep, CoreIsOwned, OwnerKept, Acquired, InExclusive, JobBound
  <2> QED BY <2>1, <2>2, <2>3, <2>4, <2>5
<1>2. CASE mobileClose
  <2>1. TypeOK'
    BY <1>2 DEF mobileClose, JobStep
  <2>2. Exclusive'
    BY <1>2 DEF mobileClose, JobStep, Exclusive, InExclusive
  <2>3. OwnerKept'
    BY <1>2 DEF mobileClose, JobStep, OwnerKept, Acquired, InExclusive, scopeCancelled, JobBound
  <2>4. JobBound'
    BY <1>2 DEF mobileClose, JobStep, JobBound, OwnerKept, Exclusive
  <2>5. CoreIsOwned'
    BY <1>2 DEF mobileClose, JobStep, CoreIsOwned, OwnerKept, Acquired, InExclusive, JobBound
  <2> QED BY <2>1, <2>2, <2>3, <2>4, <2>5
<1>3. CASE release
  <2>1. TypeOK'
    BY <1>3 DEF release, JobStep
  <2>2. Exclusive'
    BY <1>3 DEF release, JobStep, Exclusive, InExclusive
  <2>3. OwnerKept'
    BY <1>3 DEF release, JobStep, OwnerKept, Acquired, InExclusive, scopeCancelled, JobBound
  <2>4. JobBound'
    BY <1>3 DEF release, JobStep, JobBound, OwnerKept, Exclusive
  <2>5. CoreIsOwned'
    BY <1>3 DEF release, JobStep, CoreIsOwned, OwnerKept, Acquired, InExclusive, JobBound
  <2> QED BY <2>1, <2>2, <2>3, <2>4, <2>5
<1>4. CASE jobCompletes
  <2>1. TypeOK'
    BY <1>4 DEF jobCompletes, JobStep
  <2>2. Exclusive'
    BY <1>4 DEF jobCompletes, JobStep, Exclusive, InExclusive
  <2>3. OwnerKept'
    BY <1>4 DEF jobCompletes, JobStep, OwnerKept, Acquired, InExclusive, scopeCancelled, JobBound
  <2>4. JobBound'
    BY <1>4 DEF jobCompletes, JobStep, JobBound, OwnerKept, Exclusive
  <2>5. CoreIsOwned'
    BY <1>4 DEF jobCompletes, JobStep, CoreIsOwned, OwnerKept, Acquired, InExclusive, JobBound
  <2> QED BY <2>1, <2>2, <2>3, <2>4, <2>5
<1> QED BY <1>1, <1>2, <1>3, <1>4

(* Flutter's Setup takes and leaves the mutex only.                        *)
LEMMA FlutterPreserves ==
  ASSUME IInv, setupSettles \/ setupEnters \/ setupLeaves
  PROVE  IInv'
<1> USE DEF IInv, TypeOK, Gen, StartStage, CloseStage, JobStage, SetupStage, Holder
<1>1. CASE setupSettles
  <2>1. TypeOK'
    BY <1>1 DEF setupSettles, FlutterStep
  <2>2. Exclusive'
    BY <1>1 DEF setupSettles, FlutterStep, Exclusive, InExclusive
  <2>3. OwnerKept'
    BY <1>1 DEF setupSettles, FlutterStep, OwnerKept, Acquired, InExclusive, scopeCancelled, JobBound
  <2>4. JobBound'
    BY <1>1 DEF setupSettles, FlutterStep, JobBound, OwnerKept, Exclusive
  <2>5. CoreIsOwned'
    BY <1>1 DEF setupSettles, FlutterStep, CoreIsOwned, OwnerKept, Acquired, InExclusive, JobBound
  <2> QED BY <2>1, <2>2, <2>3, <2>4, <2>5
<1>2. CASE setupEnters
  <2>1. TypeOK'
    BY <1>2 DEF setupEnters, FlutterStep
  <2>2. Exclusive'
    BY <1>2 DEF setupEnters, FlutterStep, Exclusive, InExclusive
  <2>3. OwnerKept'
    BY <1>2 DEF setupEnters, FlutterStep, OwnerKept, Acquired, InExclusive, scopeCancelled, JobBound
  <2>4. JobBound'
    BY <1>2 DEF setupEnters, FlutterStep, JobBound, OwnerKept, Exclusive
  <2>5. CoreIsOwned'
    BY <1>2 DEF setupEnters, FlutterStep, CoreIsOwned, OwnerKept, Acquired, InExclusive, JobBound
  <2> QED BY <2>1, <2>2, <2>3, <2>4, <2>5
<1>3. CASE setupLeaves
  <2>1. TypeOK'
    BY <1>3 DEF setupLeaves, FlutterStep
  <2>2. Exclusive'
    BY <1>3 DEF setupLeaves, FlutterStep, Exclusive, InExclusive
  <2>3. OwnerKept'
    BY <1>3 DEF setupLeaves, FlutterStep, OwnerKept, Acquired, InExclusive, scopeCancelled, JobBound
  <2>4. JobBound'
    BY <1>3 DEF setupLeaves, FlutterStep, JobBound, OwnerKept, Exclusive
  <2>5. CoreIsOwned'
    BY <1>3 DEF setupLeaves, FlutterStep, CoreIsOwned, OwnerKept, Acquired, InExclusive, JobBound
  <2> QED BY <2>1, <2>2, <2>3, <2>4, <2>5
<1> QED BY <1>1, <1>2, <1>3

-----------------------------------------------------------------------------
(* Every step of the specification preserves the invariant.                *)
LEMMA StepPreserves ==
  ASSUME IInv, [Next]_vars
  PROVE  IInv'
<1>1. CASE accept \/ beginExplicitSession
  BY <1>1, SessionsPreserve
<1>2. ASSUME NEW g \in Gen, onDestroy(g)
      PROVE  IInv'
  BY <1>2, DestroyPreserves
<1>3. ASSUME NEW g \in Gen, StartStep(g)
      PROVE  IInv'
  BY <1>3, StartWaits, StartHolds DEF StartStep
<1>4. ASSUME NEW g \in Gen, closeSession(g) \/ CloseStep(g)
      PROVE  IInv'
  BY <1>4, ClosePreserves DEF CloseStep
<1>5. CASE CloseJob
  BY <1>5, JobPreserves DEF CloseJob
<1>6. CASE setupSettles \/ setupEnters \/ setupLeaves
  BY <1>6, FlutterPreserves
<1>7. CASE UNCHANGED vars
  BY <1>7 DEF vars, IInv, TypeOK, Exclusive, OwnerKept, scopeCancelled, JobBound, CoreIsOwned
<1> QED
  BY <1>1, <1>2, <1>3, <1>4, <1>5, <1>6, <1>7 DEF Next

(* IInv is an invariant of the core's ownership protocol.                  *)
THEOREM Invariance == Spec => []IInv
<1>1. Init => IInv
  BY InitIInv
<1>2. IInv /\ [Next]_vars => IInv'
  BY StepPreserves
<1> QED
  BY <1>1, <1>2, PTL DEF Spec

(* Every variable keeps its type.                                          *)
THEOREM TypesHold == Spec => []TypeOK
<1>1. IInv => TypeOK
  BY DEF IInv
<1> QED
  BY <1>1, Invariance, PTL

(* A core that is set up has its owner recorded: CoreProcessOwner-         *)
(* Coordinator.release, which lets DISCONNECTED be published, comes after  *)
(* the native close.                                                       *)
THEOREM CoreIsOwnedAlways == Spec => []CoreIsOwned
<1>1. IInv => CoreIsOwned
  BY DEF IInv
<1> QED
  BY <1>1, Invariance, PTL

(* Mobile.close never runs while a start is between its second test and    *)
(* its readiness (CoreNativeOperationCoordinator's mutex).                 *)
THEOREM NoCloseDuringStartAlways == Spec => []NoCloseDuringStart
<1>1. IInv => NoCloseDuringStart
  BY DEF IInv, TypeOK, JobStage, Exclusive, InExclusive, NoCloseDuringStart
<1> QED
  BY <1>1, Invariance, PTL

(* What a step may do to the core: only Mobile.setup puts one there, for a  *)
(* generation that owns the core, and only the native close takes it away,  *)
(* the core of the session its job was dispatched for.                      *)
LEMMA CoreChanges ==
  ASSUME IInv, [Next]_vars, core' # core
  PROVE  \/ core' # 0 /\ owner = core'
         \/ core' = 0 /\ owner = activeClose
<1>1. ASSUME NEW g \in Gen, Setup(g)
      PROVE  core' # 0 /\ owner = core'
  BY <1>1 DEF IInv, OwnerKept, Acquired, InExclusive, Setup, scopeCancelled, shutdownSettled, Gen
<1>2. CASE mobileClose
  BY <1>2 DEF IInv, JobBound, mobileClose
<1> QED
  BY <1>1, <1>2 DEF Next, vars, accept, beginExplicitSession, onDestroy, StartStep, CloseStep,
     CloseJob, awaitPreviousShutdown, checkAfterWait, tryAcquire, queueForNative, enterExclusive,
     checkInExclusive, checkAfterSetup, awaitReady, closeSession, Closing, cancelScope, testOwns,
     dispatchClose, clearNetwork, jobEnters, release, jobCompletes, JobStep, setupSettles,
     setupEnters, setupLeaves, FlutterStep

(* The core is set up for a generation only after the core of every earlier *)
(* one was closed, also when that close outlived its time limit.           *)
THEOREM SetupAfterCloseAlways == Spec => SetupAfterClose
<1>1. IInv /\ [Next]_vars => [core' # core /\ core' # 0 => core = 0]_vars
  BY CoreChanges DEF IInv, CoreIsOwned
<1> QED
  BY <1>1, Invariance, PTL DEF Spec, SetupAfterClose

(* A native close that was delayed past its session never hits the core of  *)
(* the next one.                                                           *)
THEOREM CloseHitsOwnCoreAlways == Spec => CloseHitsOwnCore
<1>1. IInv /\ [Next]_vars => [core' = 0 /\ core # 0 => core = activeClose]_vars
  BY CoreChanges DEF IInv, CoreIsOwned
<1> QED
  BY <1>1, Invariance, PTL DEF Spec, CloseHitsOwnCore

-----------------------------------------------------------------------------
(* The turns of the sessions.  The core went to sessions up to the current  *)
(* one, a session whose turn is over does not come back to the mutex, and a *)
(* start that passed the test inside the mutex is newer than them all.      *)
Turns ==
  /\ \A g \in Gen : start[g] # "none" => g <= sequence
  /\ \A h \in setups : start[h] \in {"setup", "starting", "ready", "ended"}
  /\ \A g \in Gen : start[g] = "settling" => \A h \in setups : h < g
  /\ core # 0 => core \in setups

(* The steps of startService: the session that is tested inside the mutex   *)
(* is the current one, and until it leaves the mutex nobody else sets up.   *)
LEMMA StartKeepsTurns ==
  ASSUME IInv, Turns, NEW g \in Gen, StartStep(g)
  PROVE  Turns'
<1>1. /\ start \in [Gen -> StartStage] /\ sequence \in Nat /\ setups \subseteq Gen
      /\ start[g] \notin {"none", "ready", "ended"} /\ sequence' = sequence
      /\ \E stage \in StartStage : start' = [start EXCEPT ![g] = stage]
  BY DEF IInv, TypeOK, StartStep, awaitPreviousShutdown, checkAfterWait, tryAcquire,
     queueForNative, enterExclusive, checkInExclusive, Setup, checkAfterSetup, awaitReady,
     Proceed, LeaveExclusive, StartStage
<1>2. \A h \in Gen \ {g} : start'[h] = start[h]
  BY <1>1
<1>3. \A h \in Gen : start'[h] # "none" => h <= sequence'
  BY <1>1, <1>2 DEF Turns
<1>4. CASE /\ UNCHANGED <<core, setups>>
           /\ start'[g] # "settling"
           /\ start[g] \in {"setup", "starting"} =>
                start'[g] \in {"setup", "starting", "ready", "ended"}
  BY <1>1, <1>2, <1>3, <1>4 DEF Turns
<1>5. CASE checkInExclusive(g) /\ mayContinue(g)
  <2>1. g = sequence /\ start[g] = "holding" /\ UNCHANGED <<core, setups>>
    BY <1>5 DEF checkInExclusive, mayContinue, isCurrent
  <2>2. \A h \in setups : h # g /\ h <= sequence
    BY <1>1, <2>1 DEF Turns
  <2>3. \A h \in setups : h < g
    BY <1>1, <2>1, <2>2 DEF Gen
  <2> QED
    BY <1>2, <1>3, <2>1, <2>2, <2>3, <1>1 DEF Turns
<1>6. CASE Setup(g) /\ setups' # setups
  <2>1. /\ start[g] = "settling" /\ start'[g] = "setup"
        /\ setups' = setups \cup {g} /\ core' = g
    BY <1>1, <1>6 DEF Setup, Proceed, LeaveExclusive
  <2>2. \A h \in Gen : start'[h] # "settling"
    BY <1>2, <2>1 DEF IInv, Exclusive, InExclusive
  <2> QED
    BY <1>1, <1>2, <1>3, <2>1, <2>2 DEF Turns
<1>7. CASE Setup(g) /\ setups' = setups
  <2>1. start[g] = "settling" /\ g \notin setups
    BY <1>7 DEF Setup, Turns
  <2>2. UNCHANGED core /\ start'[g] = "ended"
    BY <1>1, <1>7, <2>1 DEF Setup, Proceed, LeaveExclusive
  <2> QED
    BY <1>4, <1>7, <2>1, <2>2
<1>8. CASE checkInExclusive(g) /\ ~mayContinue(g)
  BY <1>1, <1>4, <1>8 DEF checkInExclusive, Proceed, LeaveExclusive
<1>9. CASE \/ awaitPreviousShutdown(g) \/ checkAfterWait(g) \/ tryAcquire(g) \/ queueForNative(g)
           \/ enterExclusive(g) \/ checkAfterSetup(g) \/ awaitReady(g)
  BY <1>1, <1>4, <1>9 DEF awaitPreviousShutdown, checkAfterWait, tryAcquire, queueForNative,
     enterExclusive, checkAfterSetup, awaitReady, Proceed, LeaveExclusive
<1> QED
  BY <1>5, <1>6, <1>7, <1>8, <1>9 DEF StartStep

(* Every step keeps the turns.                                             *)
LEMMA TurnsKept ==
  ASSUME IInv, Turns, [Next]_vars
  PROVE  Turns'
<1>1. sequence \in Nat /\ start \in [Gen -> StartStage]
  BY DEF IInv, TypeOK
<1>2. CASE accept
  <2>1. sequence' >= sequence /\ sequence' \in Nat /\ UNCHANGED <<start, core, setups>>
    BY <1>1, <1>2 DEF accept
  <2>2. \A g \in Gen : g <= sequence => g <= sequence'
    BY <1>1, <2>1 DEF Gen
  <2> QED
    BY <2>1, <2>2 DEF Turns
<1>3. CASE beginExplicitSession
  <2>1. /\ sequence \in Gen /\ start[sequence] = "none" /\ UNCHANGED <<sequence, core, setups>>
        /\ start' = [start EXCEPT ![sequence] = "committed"]
    BY <1>1, <1>3 DEF beginExplicitSession, IInv, TypeOK, Gen
  <2>2. /\ \A g \in Gen \ {sequence} : start'[g] = start[g]
        /\ start'[sequence] = "committed"
    BY <1>1, <2>1
  <2>3. setups \subseteq Gen \ {sequence}
    BY <2>1 DEF IInv, TypeOK, Turns
  <2> QED
    BY <1>1, <2>1, <2>2, <2>3 DEF Turns
<1>4. ASSUME NEW g \in Gen, StartStep(g)
      PROVE  Turns'
  BY <1>4, StartKeepsTurns
<1>5. CASE UNCHANGED <<sequence, start, setups>> /\ core' \in {core, 0}
  BY <1>5 DEF Turns
<1>6. CASE \/ \E g \in Gen : onDestroy(g) \/ closeSession(g) \/ CloseStep(g)
           \/ CloseJob \/ setupSettles \/ setupEnters \/ setupLeaves \/ UNCHANGED vars
  BY <1>5, <1>6 DEF vars, onDestroy, closeSession, CloseStep, Closing, cancelScope, testOwns,
     dispatchClose, clearNetwork, CloseJob, jobEnters, mobileClose, release, jobCompletes,
     JobStep, setupSettles, setupEnters, setupLeaves, FlutterStep
<1> QED
  BY <1>2, <1>3, <1>4, <1>6 DEF Next

(* A start that sets up the core takes the resource: it has the claim, the  *)
(* core is down, and no newer session has had it.                          *)
LEMMA SetupTakes ==
  ASSUME IInv, Turns, NEW g \in Gen, Setup(g), setups' # setups
  PROVE  Resource!Take(g)
<1>1. /\ start[g] = "settling" /\ shutdownSettled /\ ~scopeCancelled(g)
      /\ core' = g /\ setups' = setups \cup {g} /\ owner' = owner
  BY DEF Setup
<1>2. owner = g /\ g # 0
  BY <1>1 DEF IInv, OwnerKept, Acquired, InExclusive, Gen
<1>3. g \notin setups
  BY <1>1 DEF Turns
<1>4. core = 0
  BY <1>2, <1>3 DEF IInv, CoreIsOwned, Turns
<1>5. \A h \in setups : h < g
  BY <1>1 DEF Turns
<1> QED
  BY <1>1, <1>2, <1>4, <1>5 DEF Resource!Take

(* CoreProcessOwnerCoordinator, the mutex and the close job implement the   *)
(* resource that sessions take turns with, for any bound on generations.   *)
THEOREM CoreImplementsSessionResource == Spec => ImplementsSessionResource
<1>1. Init => Turns /\ Resource!Init
  BY DEF Init, Turns, Resource!Init
<1>2. IInv /\ Turns /\ [Next]_vars => Turns'
  BY TurnsKept
<1>3. IInv /\ Turns /\ [Next]_vars => [Resource!Next]_(Resource!vars)
  <2> SUFFICES ASSUME IInv, Turns, [Next]_vars
               PROVE  Resource!Next \/ UNCHANGED <<{owner} \ {0}, {core} \ {0}, setups>>
    BY DEF Resource!vars
  <2>1. CASE UNCHANGED <<owner, core, setups>>
    BY <2>1
  <2>2. ASSUME NEW g \in Gen, Setup(g)
        PROVE  Resource!Next \/ UNCHANGED <<owner, core, setups>>
    <3>1. CASE setups' # setups
      BY <2>2, <3>1, SetupTakes DEF Resource!Next
    <3>2. CASE setups' = setups
      BY <2>2, <3>2 DEF Setup, Turns
    <3> QED
      BY <3>1, <3>2
  <2>3. ASSUME NEW g \in Gen, tryAcquire(g)
        PROVE  Resource!Next \/ UNCHANGED <<owner, core, setups>>
    <3>1. CASE owner = 0 /\ owner' = g
      <4>1. Resource!Claim(g)
        BY <2>3, <3>1 DEF tryAcquire, Resource!Claim, Gen
      <4> QED
        BY <4>1 DEF Resource!Next
    <3> QED
      BY <2>3, <3>1 DEF tryAcquire
  <2>4. CASE mobileClose
    <3>1. core' = 0 /\ UNCHANGED <<owner, setups>>
      BY <2>4 DEF mobileClose
    <3>2. CASE core # 0
      <4>1. Resource!Close
        BY <3>1, <3>2 DEF Resource!Close
      <4> QED
        BY <4>1 DEF Resource!Next
    <3> QED
      BY <2>1, <3>1, <3>2
  <2>5. CASE release
    <3>1. core = 0 /\ owner = activeClose /\ owner # 0
      BY <2>5 DEF release, IInv, JobBound
    <3>2. owner' = 0 /\ UNCHANGED <<core, setups>>
      BY <2>5, <3>1 DEF release
    <3>3. Resource!Release
      BY <3>1, <3>2 DEF Resource!Release
    <3> QED
      BY <3>3 DEF Resource!Next
  <2> QED
    BY <2>1, <2>2, <2>3, <2>4, <2>5 DEF Next, vars, accept, beginExplicitSession, onDestroy,
       StartStep, CloseStep, CloseJob, awaitPreviousShutdown, checkAfterWait, queueForNative,
       enterExclusive, checkInExclusive, checkAfterSetup, awaitReady, closeSession, Closing,
       cancelScope, testOwns, dispatchClose, clearNetwork, jobEnters, jobCompletes, JobStep,
       setupSettles, setupEnters, setupLeaves, FlutterStep
<1> QED
  BY <1>1, <1>2, <1>3, Invariance, PTL DEF Spec, ImplementsSessionResource, Resource!Spec
=============================================================================
