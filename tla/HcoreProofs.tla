---------------------------- MODULE HcoreProofs ----------------------------
(***************************************************************************)
(* HcoreLifecycle keeps its invariants and implements the safety part of   *)
(* CoreCalls, for any sets of calls.                                       *)
(*                                                                         *)
(* The invariant speaks of the core at two moments: with the lock free,    *)
(* where StartedService, live and the status must agree, and with the lock *)
(* held, where the core as it was when the lock was taken (entry) did      *)
(* agree and the holder's place tells what it has changed since.           *)
(***************************************************************************)
EXTENDS HcoreLifecycle, TLAPS

USE HcoreAssumption

Held == StartHeld \cup StopHeld

(* The lock is held exactly by the call that is at a place inside it.      *)
LockInv == \A c \in Calls : lock = c <=> pc[c] \in Held

(* A start is made by a start or a restart, and only a start that is       *)
(* registered can be cancelled through startupCancel.                      *)
StartInv ==
    /\ \A c \in Calls : pc[c] \in StartHeld \cup {"enter", "wait"} => c \in Creators
    /\ startupCancel # None =>
          pc[startupCancel] \in {"starting", "build", "test", "create", "lastTest",
                                 "place", "startError", "startErrorEnd",
                                 "unregister"}
    /\ cancelledByStop \subseteq cancelled
    /\ late \subseteq cancelled
    /\ \A c \in cancelledByStop :
          /\ pc[c] \in StartHeld \cup {"back", "done"}
          /\ pc[c] \in {"unlock", "back", "done"} => answer[c] = "cancelled"

Told(i) == pc[i] \in {"back", "done"} /\ answer[i] = "started"

(* A core that refers to instance s, with the instances l alive and up if  *)
(* its start was reported.                                                 *)
Settled(s, l, up) ==
    /\ s # None => s \in l
    /\ up <=> s # None /\ Told(s)
    /\ \A i \in l : pc[i] \in {"back", "done"}
    /\ \A i \in l \ late : i = s /\ up

FreeInv ==
    lock = None =>
        /\ CoreState \in {"STOPPED", "STARTED"}
        /\ Settled(StartedService, live, CoreState = "STARTED")

EntryUp == entry.service # None /\ Told(entry.service)

(* What the holder has done to the core since it took the lock. *)
Same == StartedService = entry.service /\ live = entry.live
Cleared == StartedService = None /\ live = entry.live \ {entry.service}
Created(c) == StartedService = entry.service /\ live = entry.live \cup {c}
Placed(c) == StartedService = c /\ live = entry.live \cup {c}

(* The core and the answer a start goes on with, before and after the      *)
(* deferred function has tested the cancellation.                          *)
Finishing(c) ==
    \/ Same /\ answer[c] = "cancelled" /\ c \in cancelled
    \/ /\ Placed(c) /\ answer[c] = "started" /\ CoreState = "STARTED"
       /\ c \in cancelled => c \in late
    \/ Cleared /\ answer[c] = "failed" /\ CoreState = "STOPPED"

Finished(c) ==
    \/ /\ Same /\ answer[c] \in {"cancelled", "already"}
       /\ CoreState \in {"STOPPED", "STARTED"}
       /\ (CoreState = "STARTED") = EntryUp
       /\ answer[c] = "already" => EntryUp
    \/ /\ ~EntryUp /\ Placed(c) /\ CoreState = "STARTED" /\ answer[c] = "started"
    \/ /\ ~EntryUp /\ Placed(c) /\ CoreState = "STOPPED" /\ answer[c] = "cancelled"
       /\ c \in late
    \/ /\ ~EntryUp /\ Cleared /\ CoreState = "STOPPED"
       /\ answer[c] \in {"cancelled", "failed"}

WorkInv ==
    \A c \in Calls : lock = c =>
        /\ pc[c] \in StartHeld \ {"unlock"} => ~EntryUp
        /\ pc[c] \in {"register", "starting", "build", "test", "create",
                      "startError", "stopping", "close"} => Same
        /\ pc[c] \in {"lastTest", "place"} => Created(c)
        /\ pc[c] = "place" /\ c \in cancelled => c \in late
        /\ pc[c] \in {"startErrorEnd", "stopError", "stopErrorEnd", "stopUnlock"}
              => Cleared
        /\ pc[c] \in {"unregister", "cancelTest"} => Finishing(c)
        /\ pc[c] = "unlock" => Finished(c)
        /\ pc[c] = "stopUnlock" =>
              CoreState = "STOPPED" /\ answer[c] \in {"stopped", "failed"}

HeldInv ==
    lock # None => /\ Settled(entry.service, entry.live, EntryUp)
                   /\ WorkInv

(* The status that is being published is the current one, and a listener   *)
(* that missed nothing has it or is about to get it.                       *)
ListenerInv ==
    /\ unpublished # "none" => unpublished = CoreState
    /\ unpublished # "none" => lock # None
    /\ listener = "off" => buffer = <<>>
    /\ unpublished = "none" /\ ~missed =>
          /\ buffer # <<>> => Head(buffer) = CoreState
          /\ listener = "listening" /\ buffer = <<>> => delivered = CoreState

IInv ==
    /\ TypeOK
    /\ LockInv
    /\ StartInv
    /\ FreeInv
    /\ HeldInv
    /\ ListenerInv

USE DEF Calls, Creators, StartHeld, StopHeld, AfterLastTest, Held

-----------------------------------------------------------------------------
(* Calls reach the core and leave it.                                    *)

(* A call begins outside the lock.                                         *)
LEMMA CallPreserves ==
  ASSUME IInv, NEW c \in Calls, Call(c)
  PROVE  IInv'
<1> USE DEF IInv, Call, statuses, listening, history
<1>1. TypeOK'
  BY DEF TypeOK, StartInv, Places, CoreStates, Answers
<1>2. LockInv'
  BY DEF TypeOK, LockInv
<1>3. StartInv'
  BY DEF TypeOK, LockInv, StartInv
<1>4. FreeInv'
  BY DEF TypeOK, LockInv, StartInv, FreeInv, HeldInv, WorkInv, Settled,
     Told, EntryUp, Same, Cleared, Created, Placed, Finishing, Finished
<1>5. HeldInv'
  BY DEF TypeOK, LockInv, StartInv, FreeInv, HeldInv, WorkInv, Settled,
     Told, EntryUp, Same, Cleared, Created, Placed, Finishing, Finished
<1>6. ListenerInv'
  BY DEF TypeOK, LockInv, ListenerInv
<1> QED BY <1>1, <1>2, <1>3, <1>4, <1>5, <1>6

(* A cancellation changes only what its start will answer.                 *)
LEMMA CancelRPCPreserves ==
  ASSUME IInv, NEW c \in Calls, CancelRPC(c)
  PROVE  IInv'
<1> USE DEF IInv, CancelRPC, statuses, listening
<1>1. TypeOK'
  BY DEF TypeOK, StartInv, Places, CoreStates, Answers
<1>2. LockInv'
  BY DEF TypeOK, LockInv
<1>3. StartInv'
  BY DEF TypeOK, LockInv, StartInv
<1>4. FreeInv'
  BY DEF TypeOK, LockInv, StartInv, FreeInv, HeldInv, WorkInv, Settled,
     Told, EntryUp, Same, Cleared, Created, Placed, Finishing, Finished
<1>5. HeldInv'
  BY DEF TypeOK, LockInv, StartInv, FreeInv, HeldInv, WorkInv, Settled,
     Told, EntryUp, Same, Cleared, Created, Placed, Finishing, Finished
<1>6. ListenerInv'
  BY DEF TypeOK, LockInv, ListenerInv
<1> QED BY <1>1, <1>2, <1>3, <1>4, <1>5, <1>6

(* A restart goes on to its start.                                         *)
LEMMA WaitPreserves ==
  ASSUME IInv, NEW c \in Calls, Wait(c)
  PROVE  IInv'
<1> USE DEF IInv, Wait, NoStatus, history, statuses, listening
<1>1. TypeOK'
  BY DEF TypeOK, StartInv, Places, CoreStates, Answers
<1>2. LockInv'
  BY DEF TypeOK, LockInv
<1>3. StartInv'
  BY DEF TypeOK, LockInv, StartInv
<1>4. FreeInv'
  BY DEF TypeOK, LockInv, StartInv, FreeInv, HeldInv, WorkInv, Settled,
     Told, EntryUp, Same, Cleared, Created, Placed, Finishing, Finished
<1>5. HeldInv'
  BY DEF TypeOK, LockInv, StartInv, FreeInv, HeldInv, WorkInv, Settled,
     Told, EntryUp, Same, Cleared, Created, Placed, Finishing, Finished
<1>6. ListenerInv'
  BY DEF TypeOK, LockInv, ListenerInv
<1> QED BY <1>1, <1>2, <1>3, <1>4, <1>5, <1>6

(* A return tells nothing new: the answer was fixed when the lock was      *)
(* released.                                                               *)
LEMMA ReturnPreserves ==
  ASSUME IInv, NEW c \in Calls, Return(c)
  PROVE  IInv'
<1> USE DEF IInv, Return, NoStatus, history, statuses, listening
<1>1. TypeOK'
  BY DEF TypeOK, StartInv, Places, CoreStates, Answers
<1>2. LockInv'
  BY DEF TypeOK, LockInv
<1>3. StartInv'
  BY DEF TypeOK, LockInv, StartInv
<1>4. FreeInv'
  BY DEF TypeOK, LockInv, StartInv, FreeInv, HeldInv, WorkInv, Settled,
     Told, EntryUp, Same, Cleared, Created, Placed, Finishing, Finished
<1>5. HeldInv'
  BY DEF TypeOK, LockInv, StartInv, FreeInv, HeldInv, WorkInv, Settled,
     Told, EntryUp, Same, Cleared, Created, Placed, Finishing, Finished
<1>6. ListenerInv'
  BY DEF TypeOK, LockInv, ListenerInv
<1> QED BY <1>1, <1>2, <1>3, <1>4, <1>5, <1>6

-----------------------------------------------------------------------------
(* The steps of StartService.                                            *)

(* A start that takes the lock finds the core settled.                     *)
LEMMA EnterPreserves ==
  ASSUME IInv, NEW c \in Calls, Enter(c)
  PROVE  IInv'
<1> USE DEF IInv, Enter, Step, StepWith, NoStatus, Acquire, statuses, listening
<1>1. TypeOK'
  BY DEF TypeOK, StartInv, Places, CoreStates, Answers
<1>2. LockInv'
  BY DEF TypeOK, LockInv
<1>3. StartInv'
  BY DEF TypeOK, LockInv, StartInv
<1>4. FreeInv'
  BY DEF TypeOK, LockInv, StartInv, FreeInv, HeldInv, WorkInv, Settled,
     Told, EntryUp, Same, Cleared, Created, Placed, Finishing, Finished
<1>5. HeldInv'
  BY DEF TypeOK, LockInv, StartInv, FreeInv, HeldInv, WorkInv, Settled,
     Told, EntryUp, Same, Cleared, Created, Placed, Finishing, Finished
<1>6. ListenerInv'
  BY DEF TypeOK, LockInv, ListenerInv
<1> QED BY <1>1, <1>2, <1>3, <1>4, <1>5, <1>6

(* Only the lock holder registers its cancel function.                     *)
LEMMA RegisterCancelPreserves ==
  ASSUME IInv, NEW c \in Calls, RegisterCancel(c)
  PROVE  IInv'
<1> USE DEF IInv, RegisterCancel, Step, NoStatus, history, statuses, listening
<1>1. TypeOK'
  BY DEF TypeOK, StartInv, Places, CoreStates, Answers
<1>2. LockInv'
  BY DEF TypeOK, LockInv
<1>3. StartInv'
  BY DEF TypeOK, LockInv, StartInv
<1>4. FreeInv'
  BY DEF TypeOK, LockInv, StartInv, FreeInv, HeldInv, WorkInv, Settled,
     Told, EntryUp, Same, Cleared, Created, Placed, Finishing, Finished
<1>5. HeldInv'
  BY DEF TypeOK, LockInv, StartInv, FreeInv, HeldInv, WorkInv, Settled,
     Told, EntryUp, Same, Cleared, Created, Placed, Finishing, Finished
<1>6. ListenerInv'
  BY DEF TypeOK, LockInv, ListenerInv
<1> QED BY <1>1, <1>2, <1>3, <1>4, <1>5, <1>6

(* The status changes under the lock only.                                 *)
LEMMA ReportStartingPreserves ==
  ASSUME IInv, NEW c \in Calls, ReportStarting(c)
  PROVE  IInv'
<1> USE DEF IInv, ReportStarting, Step, SetCoreStatus, history, listening
<1>1. TypeOK'
  BY DEF TypeOK, StartInv, Places, CoreStates, Answers
<1>2. LockInv'
  BY DEF TypeOK, LockInv
<1>3. StartInv'
  BY DEF TypeOK, LockInv, StartInv
<1>4. FreeInv'
  BY DEF TypeOK, LockInv, StartInv, FreeInv, HeldInv, WorkInv, Settled,
     Told, EntryUp, Same, Cleared, Created, Placed, Finishing, Finished
<1>5. HeldInv'
  BY DEF TypeOK, LockInv, StartInv, FreeInv, HeldInv, WorkInv, Settled,
     Told, EntryUp, Same, Cleared, Created, Placed, Finishing, Finished
<1>6. ListenerInv'
  BY DEF TypeOK, LockInv, ListenerInv
<1> QED BY <1>1, <1>2, <1>3, <1>4, <1>5, <1>6

(* A start that gives up here has changed nothing.                         *)
LEMMA BuildPreserves ==
  ASSUME IInv, NEW c \in Calls, Build(c)
  PROVE  IInv'
<1> USE DEF IInv, Build, Step, StepWith, NoStatus, history, statuses, listening
<1>1. TypeOK'
  BY DEF TypeOK, StartInv, Places, CoreStates, Answers
<1>2. LockInv'
  BY DEF TypeOK, LockInv
<1>3. StartInv'
  BY DEF TypeOK, LockInv, StartInv
<1>4. FreeInv'
  BY DEF TypeOK, LockInv, StartInv, FreeInv, HeldInv, WorkInv, Settled,
     Told, EntryUp, Same, Cleared, Created, Placed, Finishing, Finished
<1>5. HeldInv'
  BY DEF TypeOK, LockInv, StartInv, FreeInv, HeldInv, WorkInv, Settled,
     Told, EntryUp, Same, Cleared, Created, Placed, Finishing, Finished
<1>6. ListenerInv'
  BY DEF TypeOK, LockInv, ListenerInv
<1> QED BY <1>1, <1>2, <1>3, <1>4, <1>5, <1>6

(* Nor has one that gives up before it creates its instance.               *)
LEMMA TestBeforeCreatePreserves ==
  ASSUME IInv, NEW c \in Calls, TestBeforeCreate(c)
  PROVE  IInv'
<1> USE DEF IInv, TestBeforeCreate, Step, StepWith, NoStatus, history, statuses, listening
<1>1. TypeOK'
  BY DEF TypeOK, StartInv, Places, CoreStates, Answers
<1>2. LockInv'
  BY DEF TypeOK, LockInv
<1>3. StartInv'
  BY DEF TypeOK, LockInv, StartInv
<1>4. FreeInv'
  BY DEF TypeOK, LockInv, StartInv, FreeInv, HeldInv, WorkInv, Settled,
     Told, EntryUp, Same, Cleared, Created, Placed, Finishing, Finished
<1>5. HeldInv'
  BY DEF TypeOK, LockInv, StartInv, FreeInv, HeldInv, WorkInv, Settled,
     Told, EntryUp, Same, Cleared, Created, Placed, Finishing, Finished
<1>6. ListenerInv'
  BY DEF TypeOK, LockInv, ListenerInv
<1> QED BY <1>1, <1>2, <1>3, <1>4, <1>5, <1>6

(* The new instance is the only change.                                    *)
LEMMA CreatePreserves ==
  ASSUME IInv, NEW c \in Calls, Create(c)
  PROVE  IInv'
<1> USE DEF IInv, Create, Step, NoStatus, history, statuses, listening
<1>1. TypeOK'
  BY DEF TypeOK, StartInv, Places, CoreStates, Answers
<1>2. LockInv'
  BY DEF TypeOK, LockInv
<1>3. StartInv'
  BY DEF TypeOK, LockInv, StartInv
<1>4. FreeInv'
  BY DEF TypeOK, LockInv, StartInv, FreeInv, HeldInv, WorkInv, Settled,
     Told, EntryUp, Same, Cleared, Created, Placed, Finishing, Finished
<1>5. HeldInv'
  BY DEF TypeOK, LockInv, StartInv, FreeInv, HeldInv, WorkInv, Settled,
     Told, EntryUp, Same, Cleared, Created, Placed, Finishing, Finished
<1>6. ListenerInv'
  BY DEF TypeOK, LockInv, ListenerInv
<1> QED BY <1>1, <1>2, <1>3, <1>4, <1>5, <1>6

(* A start cancelled by now closes its instance; a later cancellation is   *)
(* late.                                                                   *)
LEMMA LastTestPreserves ==
  ASSUME IInv, NEW c \in Calls, LastTest(c)
  PROVE  IInv'
<1> USE DEF IInv, LastTest, Step, StepWith, NoStatus, history, statuses, listening
<1>1. TypeOK'
  BY DEF TypeOK, StartInv, Places, CoreStates, Answers
<1>2. LockInv'
  BY DEF TypeOK, LockInv
<1>3. StartInv'
  BY DEF TypeOK, LockInv, StartInv
<1>4. FreeInv'
  BY DEF TypeOK, LockInv, StartInv, FreeInv, HeldInv, WorkInv, Settled,
     Told, EntryUp, Same, Cleared, Created, Placed, Finishing, Finished
<1>5. HeldInv'
  <2>1. lock = c /\ Created(c) /\ c \notin entry.live
    BY DEF TypeOK, LockInv, HeldInv, WorkInv, Settled
  <2>2. CASE c \in cancelled
    <3>1. live' = entry.live
      BY <2>1, <2>2 DEF Created
    <3> QED
      BY <2>1, <2>2, <3>1 DEF TypeOK, LockInv, StartInv, HeldInv, WorkInv, Settled,
         Told, EntryUp, Same, Created, Finishing
  <2>3. CASE c \notin cancelled
    BY <2>1, <2>3 DEF TypeOK, LockInv, StartInv, HeldInv, WorkInv, Settled,
       Told, EntryUp, Same, Created, Finishing
  <2> QED BY <2>2, <2>3
<1>6. ListenerInv'
  BY DEF TypeOK, LockInv, ListenerInv
<1> QED BY <1>1, <1>2, <1>3, <1>4, <1>5, <1>6

(* The instance is in place and reported.                                  *)
LEMMA PlacePreserves ==
  ASSUME IInv, NEW c \in Calls, Place(c)
  PROVE  IInv'
<1> USE DEF IInv, Place, StepWith, SetCoreStatus, Step, history, listening
<1>1. TypeOK'
  BY DEF TypeOK, StartInv, Places, CoreStates, Answers
<1>2. LockInv'
  BY DEF TypeOK, LockInv
<1>3. StartInv'
  BY DEF TypeOK, LockInv, StartInv
<1>4. FreeInv'
  BY DEF TypeOK, LockInv, StartInv, FreeInv, HeldInv, WorkInv, Settled,
     Told, EntryUp, Same, Cleared, Created, Placed, Finishing, Finished
<1>5. HeldInv'
  BY DEF TypeOK, LockInv, StartInv, FreeInv, HeldInv, WorkInv, Settled,
     Told, EntryUp, Same, Cleared, Created, Placed, Finishing, Finished
<1>6. ListenerInv'
  BY DEF TypeOK, LockInv, ListenerInv
<1> QED BY <1>1, <1>2, <1>3, <1>4, <1>5, <1>6

(* No Stop can cancel the start any more.                                  *)
LEMMA UnregisterPreserves ==
  ASSUME IInv, NEW c \in Calls, Unregister(c)
  PROVE  IInv'
<1> USE DEF IInv, Unregister, Step, NoStatus, history, statuses, listening
<1>1. TypeOK'
  BY DEF TypeOK, StartInv, Places, CoreStates, Answers
<1>2. LockInv'
  BY DEF TypeOK, LockInv
<1>3. StartInv'
  BY DEF TypeOK, LockInv, StartInv
<1>4. FreeInv'
  BY DEF TypeOK, LockInv, StartInv, FreeInv, HeldInv, WorkInv, Settled,
     Told, EntryUp, Same, Cleared, Created, Placed, Finishing, Finished
<1>5. HeldInv'
  BY DEF TypeOK, LockInv, StartInv, FreeInv, HeldInv, WorkInv, Settled,
     Told, EntryUp, Same, Cleared, Created, Placed, Finishing, Finished
<1>6. ListenerInv'
  BY DEF TypeOK, LockInv, ListenerInv
<1> QED BY <1>1, <1>2, <1>3, <1>4, <1>5, <1>6

(* The deferred test decides the answer and the status.                    *)
LEMMA CancelTestPreserves ==
  ASSUME IInv, NEW c \in Calls, CancelTest(c)
  PROVE  IInv'
<1> USE DEF IInv, CancelTest, Step, StepWith, SetCoreStatus, NoStatus, history, listening, statuses
<1>1. TypeOK'
  BY DEF TypeOK, StartInv, Places, CoreStates, Answers
<1>2. LockInv'
  BY DEF TypeOK, LockInv
<1>3. StartInv'
  BY DEF TypeOK, LockInv, StartInv
<1>4. FreeInv'
  BY DEF TypeOK, LockInv, StartInv, FreeInv, HeldInv, WorkInv, Settled,
     Told, EntryUp, Same, Cleared, Created, Placed, Finishing, Finished
<1>5. HeldInv'
  BY DEF TypeOK, LockInv, StartInv, FreeInv, HeldInv, WorkInv, Settled,
     Told, EntryUp, Same, Cleared, Created, Placed, Finishing, Finished
<1>6. ListenerInv'
  BY DEF TypeOK, LockInv, ListenerInv
<1> QED BY <1>1, <1>2, <1>3, <1>4, <1>5, <1>6

(* What the start finished is what the next holder finds.                  *)
LEMMA UnlockPreserves ==
  ASSUME IInv, NEW c \in Calls, Unlock(c)
  PROVE  IInv'
<1> USE DEF IInv, Unlock, Step, NoStatus, history, statuses, listening
<1>1. TypeOK'
  BY DEF TypeOK, StartInv, Places, CoreStates, Answers
<1>2. LockInv'
  BY DEF TypeOK, LockInv
<1>3. StartInv'
  BY DEF TypeOK, LockInv, StartInv
<1>4. FreeInv'
  BY DEF TypeOK, LockInv, StartInv, FreeInv, HeldInv, WorkInv, Settled,
     Told, EntryUp, Same, Cleared, Created, Placed, Finishing, Finished
<1>5. HeldInv'
  BY DEF TypeOK, LockInv, StartInv, FreeInv, HeldInv, WorkInv, Settled,
     Told, EntryUp, Same, Cleared, Created, Placed, Finishing, Finished
<1>6. ListenerInv'
  BY DEF TypeOK, LockInv, ListenerInv
<1> QED BY <1>1, <1>2, <1>3, <1>4, <1>5, <1>6

-----------------------------------------------------------------------------
(* errorWrapper and the steps of Stop.                                   *)

(* An error leaves no instance behind.                                     *)
LEMMA StopAndAlertPreserves ==
  ASSUME IInv, NEW c \in Calls, StopAndAlert(c)
  PROVE  IInv'
<1> USE DEF IInv, StopAndAlert, Step, SetCoreStatus, history, listening
<1>1. TypeOK'
  BY DEF TypeOK, StartInv, Places, CoreStates, Answers
<1>2. LockInv'
  BY DEF TypeOK, LockInv
<1>3. StartInv'
  BY DEF TypeOK, LockInv, StartInv
<1>4. FreeInv'
  BY DEF TypeOK, LockInv, StartInv, FreeInv, HeldInv, WorkInv, Settled,
     Told, EntryUp, Same, Cleared, Created, Placed, Finishing, Finished
<1>5. HeldInv'
  BY DEF TypeOK, LockInv, StartInv, FreeInv, HeldInv, WorkInv, Settled,
     Told, EntryUp, Same, Cleared, Created, Placed, Finishing, Finished
<1>6. ListenerInv'
  BY DEF TypeOK, LockInv, ListenerInv
<1> QED BY <1>1, <1>2, <1>3, <1>4, <1>5, <1>6

(* It is answered as failed.                                               *)
LEMMA ErrorAnswerPreserves ==
  ASSUME IInv, NEW c \in Calls, ErrorAnswer(c)
  PROVE  IInv'
<1> USE DEF IInv, ErrorAnswer, StepWith, SetCoreStatus, Step, history, listening
<1>1. TypeOK'
  BY DEF TypeOK, StartInv, Places, CoreStates, Answers
<1>2. LockInv'
  BY DEF TypeOK, LockInv
<1>3. StartInv'
  BY DEF TypeOK, LockInv, StartInv
<1>4. FreeInv'
  BY DEF TypeOK, LockInv, StartInv, FreeInv, HeldInv, WorkInv, Settled,
     Told, EntryUp, Same, Cleared, Created, Placed, Finishing, Finished
<1>5. HeldInv'
  BY DEF TypeOK, LockInv, StartInv, FreeInv, HeldInv, WorkInv, Settled,
     Told, EntryUp, Same, Cleared, Created, Placed, Finishing, Finished
<1>6. ListenerInv'
  BY DEF TypeOK, LockInv, ListenerInv
<1> QED BY <1>1, <1>2, <1>3, <1>4, <1>5, <1>6

(* A Stop cancels the registered start, before or after its last test.     *)
LEMMA InvalidatePreserves ==
  ASSUME IInv, NEW c \in Calls, Invalidate(c)
  PROVE  IInv'
<1> USE DEF IInv, Invalidate, NoStatus, statuses, listening
<1>1. TypeOK'
  BY DEF TypeOK, StartInv, Places, CoreStates, Answers
<1>2. LockInv'
  BY DEF TypeOK, LockInv
<1>3. StartInv'
  BY DEF TypeOK, LockInv, StartInv
<1>4. FreeInv'
  BY DEF TypeOK, LockInv, StartInv, FreeInv, HeldInv, WorkInv, Settled,
     Told, EntryUp, Same, Cleared, Created, Placed, Finishing, Finished
<1>5. HeldInv'
  BY DEF TypeOK, LockInv, StartInv, FreeInv, HeldInv, WorkInv, Settled,
     Told, EntryUp, Same, Cleared, Created, Placed, Finishing, Finished
<1>6. ListenerInv'
  BY DEF TypeOK, LockInv, ListenerInv
<1> QED BY <1>1, <1>2, <1>3, <1>4, <1>5, <1>6

(* A stop that takes the lock finds the core settled.                      *)
LEMMA StopEnterPreserves ==
  ASSUME IInv, NEW c \in Calls, StopEnter(c)
  PROVE  IInv'
<1> USE DEF IInv, StopEnter, Step, NoStatus, Acquire, statuses, listening
<1>1. TypeOK'
  BY DEF TypeOK, StartInv, Places, CoreStates, Answers
<1>2. LockInv'
  BY DEF TypeOK, LockInv
<1>3. StartInv'
  BY DEF TypeOK, LockInv, StartInv
<1>4. FreeInv'
  BY DEF TypeOK, LockInv, StartInv, FreeInv, HeldInv, WorkInv, Settled,
     Told, EntryUp, Same, Cleared, Created, Placed, Finishing, Finished
<1>5. HeldInv'
  BY DEF TypeOK, LockInv, StartInv, FreeInv, HeldInv, WorkInv, Settled,
     Told, EntryUp, Same, Cleared, Created, Placed, Finishing, Finished
<1>6. ListenerInv'
  BY DEF TypeOK, LockInv, ListenerInv
<1> QED BY <1>1, <1>2, <1>3, <1>4, <1>5, <1>6

(* The status changes under the lock only.                                 *)
LEMMA ReportStoppingPreserves ==
  ASSUME IInv, NEW c \in Calls, ReportStopping(c)
  PROVE  IInv'
<1> USE DEF IInv, ReportStopping, Step, SetCoreStatus, history, listening
<1>1. TypeOK'
  BY DEF TypeOK, StartInv, Places, CoreStates, Answers
<1>2. LockInv'
  BY DEF TypeOK, LockInv
<1>3. StartInv'
  BY DEF TypeOK, LockInv, StartInv
<1>4. FreeInv'
  BY DEF TypeOK, LockInv, StartInv, FreeInv, HeldInv, WorkInv, Settled,
     Told, EntryUp, Same, Cleared, Created, Placed, Finishing, Finished
<1>5. HeldInv'
  BY DEF TypeOK, LockInv, StartInv, FreeInv, HeldInv, WorkInv, Settled,
     Told, EntryUp, Same, Cleared, Created, Placed, Finishing, Finished
<1>6. ListenerInv'
  BY DEF TypeOK, LockInv, ListenerInv
<1> QED BY <1>1, <1>2, <1>3, <1>4, <1>5, <1>6

(* Closing leaves no instance behind, error or not.                        *)
LEMMA CloseStartedPreserves ==
  ASSUME IInv, NEW c \in Calls, CloseStarted(c)
  PROVE  IInv'
<1> USE DEF IInv, CloseStarted, Step, StepWith, SetCoreStatus, NoStatus, history, listening, statuses
<1>1. TypeOK'
  BY DEF TypeOK, StartInv, Places, CoreStates, Answers
<1>2. LockInv'
  BY DEF TypeOK, LockInv
<1>3. StartInv'
  BY DEF TypeOK, LockInv, StartInv
<1>4. FreeInv'
  BY DEF TypeOK, LockInv, StartInv, FreeInv, HeldInv, WorkInv, Settled,
     Told, EntryUp, Same, Cleared, Created, Placed, Finishing, Finished
<1>5. HeldInv'
  BY DEF TypeOK, LockInv, StartInv, FreeInv, HeldInv, WorkInv, Settled,
     Told, EntryUp, Same, Cleared, Created, Placed, Finishing, Finished
<1>6. ListenerInv'
  BY DEF TypeOK, LockInv, ListenerInv
<1> QED BY <1>1, <1>2, <1>3, <1>4, <1>5, <1>6

(* The core is empty and STOPPED when the stop ends.                       *)
LEMMA StopUnlockPreserves ==
  ASSUME IInv, NEW c \in Calls, StopUnlock(c)
  PROVE  IInv'
<1> USE DEF IInv, StopUnlock, Step, NoStatus, history, statuses, listening
<1>1. TypeOK'
  BY DEF TypeOK, StartInv, Places, CoreStates, Answers
<1>2. LockInv'
  BY DEF TypeOK, LockInv
<1>3. StartInv'
  BY DEF TypeOK, LockInv, StartInv
<1>4. FreeInv'
  BY DEF TypeOK, LockInv, StartInv, FreeInv, HeldInv, WorkInv, Settled,
     Told, EntryUp, Same, Cleared, Created, Placed, Finishing, Finished
<1>5. HeldInv'
  BY DEF TypeOK, LockInv, StartInv, FreeInv, HeldInv, WorkInv, Settled,
     Told, EntryUp, Same, Cleared, Created, Placed, Finishing, Finished
<1>6. ListenerInv'
  BY DEF TypeOK, LockInv, ListenerInv
<1> QED BY <1>1, <1>2, <1>3, <1>4, <1>5, <1>6

-----------------------------------------------------------------------------
(* Publishing and listening change nothing but the listener's side.        *)
LEMMA ListeningPreserves ==
  ASSUME IInv, Publish \/ CoreInfoListener
  PROVE  IInv'
<1>1. UNCHANGED <<calls, CoreState, history>>
  BY DEF Publish, CoreInfoListener, Subscribe, SendCurrent, SendEvent, Unsubscribe,
     statuses
<1>2. LockInv' /\ StartInv'
  BY <1>1 DEF IInv, LockInv, StartInv, calls, history
<1>3. FreeInv' /\ HeldInv'
  BY <1>1 DEF IInv, calls, history, FreeInv, HeldInv, WorkInv, Settled, Told,
     EntryUp, Same, Cleared, Created, Placed, Finishing, Finished
<1>4. TypeOK' /\ ListenerInv'
  <2>1. buffer = <<>> \/ \E s \in CoreStates : buffer = <<s>>
    BY DEF IInv, TypeOK
  <2>2. CASE Publish
    <3>1. /\ unpublished = CoreState /\ unpublished' = "none"
          /\ listener' = listener /\ delivered' = delivered
          /\ missed' \in BOOLEAN
      BY <2>2 DEF IInv, TypeOK, ListenerInv, Publish
    <3>2. TypeOK'
      <4>1. buffer' \in {<<>>} \cup {<<s>> : s \in CoreStates}
        BY <2>1, <2>2, <3>1 DEF IInv, TypeOK, Publish
      <4> QED BY <1>1, <3>1, <4>1 DEF IInv, TypeOK, calls, history
    <3>3. ListenerInv'
      <4>1. CASE buffer = <<>> /\ listener # "off"
        BY <1>1, <2>2, <3>1, <4>1 DEF IInv, ListenerInv, Publish
      <4>2. CASE buffer # <<>> \/ listener = "off"
        BY <1>1, <2>2, <3>1, <4>2 DEF IInv, ListenerInv, Publish
      <4> QED BY <4>1, <4>2
    <3> QED BY <3>2, <3>3
  <2>3. CASE Subscribe
    BY <2>3 DEF IInv, TypeOK, ListenerInv, Subscribe, calls, history, statuses
  <2>4. CASE SendCurrent
    BY <2>4 DEF IInv, TypeOK, ListenerInv, SendCurrent, calls, history, statuses
  <2>5. CASE SendEvent
    BY <2>1, <2>5 DEF IInv, TypeOK, ListenerInv, SendEvent, calls, history, statuses
  <2>6. CASE Unsubscribe
    BY <2>6 DEF IInv, TypeOK, ListenerInv, Unsubscribe, calls, history, statuses
  <2> QED BY <2>2, <2>3, <2>4, <2>5, <2>6 DEF CoreInfoListener
<1> QED BY <1>2, <1>3, <1>4 DEF IInv

(* The initial state satisfies the invariant.                              *)
LEMMA InitIInv == Init => IInv
<1> SUFFICES ASSUME Init PROVE IInv
  OBVIOUS
<1>1. TypeOK
  BY DEF Init, TypeOK, Places, CoreStates, Answers
<1> QED
  BY <1>1 DEF Init, IInv, LockInv, StartInv, FreeInv, HeldInv, ListenerInv, Settled

(* Every step preserves the invariant.                                     *)
LEMMA NextIInv == IInv /\ [Next]_vars => IInv'
<1> SUFFICES ASSUME IInv, [Next]_vars PROVE IInv'
  OBVIOUS
<1>1. CASE UNCHANGED vars
  BY <1>1 DEF vars, IInv, TypeOK, LockInv, StartInv, ListenerInv,
     FreeInv, HeldInv, WorkInv, Settled, Told,
     EntryUp, Same, Cleared, Created, Placed, Finishing, Finished
<1>2. ASSUME NEW c \in Calls, Call(c) \/ CancelRPC(c) \/ Proceed(c)
      PROVE  IInv'
  <2>1. CASE Call(c) \/ CancelRPC(c) \/ Wait(c) \/ Return(c)
    BY <2>1, CallPreserves, CancelRPCPreserves, WaitPreserves, ReturnPreserves
  <2>2. CASE StartService(c)
    BY <2>2, EnterPreserves, RegisterCancelPreserves, ReportStartingPreserves,
       BuildPreserves, TestBeforeCreatePreserves, CreatePreserves,
       LastTestPreserves, PlacePreserves, UnregisterPreserves,
       CancelTestPreserves, UnlockPreserves DEF StartService
  <2>3. CASE errorWrapper(c)
    BY <2>3, StopAndAlertPreserves, ErrorAnswerPreserves DEF errorWrapper
  <2>4. CASE Stop(c)
    BY <2>4, InvalidatePreserves, StopEnterPreserves, ReportStoppingPreserves,
       CloseStartedPreserves, StopUnlockPreserves DEF Stop
  <2> QED BY <1>2, <2>1, <2>2, <2>3, <2>4 DEF Proceed
<1> QED BY <1>1, <1>2, ListeningPreserves DEF Next

(* The invariant holds in every reachable state.                           *)
THEOREM Invariance == Spec => []IInv
BY InitIInv, NextIInv, PTL DEF Spec

(* Every variable keeps its type.                                          *)
THEOREM TypesHold == Spec => []TypeOK
<1>1. IInv => TypeOK
  BY DEF IInv
<1> QED BY <1>1, Invariance, PTL

(* A start that a Stop cancelled answers that it was cancelled             *)
(* (stop.go:16), for any number of starts, stops and restarts.             *)
THEOREM StopPrevailsAlways == Spec => []StopPrevails
<1>1. IInv => StopPrevails
  BY DEF IInv, StartInv, StopPrevails
<1> QED BY <1>1, Invariance, PTL

(* With the lock free, an instance that runs is the reported one unless    *)
(* its start was cancelled late (start.go:112-123, 175-189).               *)
THEOREM RunningIsReportedAlways == Spec => []RunningIsReported
<1>1. IInv => RunningIsReported
  BY DEF IInv, FreeInv, Settled, RunningIsReported
<1> QED BY <1>1, Invariance, PTL

(* A listener that missed nothing was told the current status              *)
(* (coreinfo.go:28-51).                                                    *)
THEOREM ListenerIsCurrentAlways == Spec => []ListenerIsCurrent
<1>1. IInv => ListenerIsCurrent
  BY DEF IInv, ListenerInv, ListenerIsCurrent
<1> QED BY <1>1, Invariance, PTL

-----------------------------------------------------------------------------
(* The refinement: what a call did under the lock takes effect when it     *)
(* releases the lock; every other step is invisible.                       *)

Mapped == <<Stage, Answer, Core, Live>>

(* A step that moves one call within its stage and changes the core only   *)
(* behind the lock is invisible.                                           *)
LEMMA HeldStepsAreInvisible ==
  ASSUME NEW c \in Calls,
         \A i \in Calls \ {c} : pc'[i] = pc[i] /\ answer'[i] = answer[i],
         StageOf(pc'[c]) = StageOf(pc[c]), StageOf(pc[c]) \in {"start", "stop"},
         Core' = Core, Live' = Live
  PROVE  UNCHANGED Mapped
<1>1. Stage' = Stage
  BY DEF Stage
<1>2. Answer' = Answer
  <2>1. \A i \in Calls :
          /\ pc'[i] \in {"back", "done"} <=> pc[i] \in {"back", "done"}
          /\ pc[i] \in {"back", "done"} => answer'[i] = answer[i]
    BY DEF StageOf
  <2>2. \A i \in Calls :
          (IF pc'[i] \in {"back", "done"} THEN answer'[i] ELSE "none")
            = (IF pc[i] \in {"back", "done"} THEN answer[i] ELSE "none")
    BY <2>1
  <2> QED BY <2>2, Zenon DEF Answer
<1> QED BY <1>1, <1>2 DEF Mapped

(* The steps of a start before it releases the lock.                       *)
LEMMA StartStepsAreInvisible ==
  ASSUME IInv, NEW c \in Calls, StartService(c), ~Unlock(c)
  PROVE  UNCHANGED Mapped
<1>1. pc \in [Calls -> Places] /\ answer \in [Calls -> Answers] /\ LockInv
  BY DEF IInv, TypeOK, Answers
<1>2. CASE RegisterCancel(c)
  <2>1. /\ pc'[c] \in (StartHeld \cup {"enter"}) /\ pc[c] \in (StartHeld \cup {"enter"})
        /\ \A i \in Calls \ {c} : pc'[i] = pc[i] /\ answer'[i] = answer[i]
    BY <1>1, <1>2 DEF RegisterCancel, Step, StepWith
  <2>2. StageOf(pc'[c]) = StageOf(pc[c]) /\ StageOf(pc[c]) \in {"start", "stop"}
    BY <2>1 DEF StageOf
  <2>3. Core' = Core /\ Live' = Live
    BY <1>1, <1>2 DEF RegisterCancel, Step, StepWith, LockInv, history, Core, Live
  <2> QED BY <2>1, <2>2, <2>3, HeldStepsAreInvisible
<1>3. CASE ReportStarting(c)
  <2>1. /\ pc'[c] \in (StartHeld \cup {"enter"}) /\ pc[c] \in (StartHeld \cup {"enter"})
        /\ \A i \in Calls \ {c} : pc'[i] = pc[i] /\ answer'[i] = answer[i]
    BY <1>1, <1>3 DEF ReportStarting, Step, StepWith
  <2>2. StageOf(pc'[c]) = StageOf(pc[c]) /\ StageOf(pc[c]) \in {"start", "stop"}
    BY <2>1 DEF StageOf
  <2>3. Core' = Core /\ Live' = Live
    BY <1>1, <1>3 DEF ReportStarting, Step, StepWith, LockInv, history, Core, Live
  <2> QED BY <2>1, <2>2, <2>3, HeldStepsAreInvisible
<1>4. CASE Build(c)
  <2>1. /\ pc'[c] \in (StartHeld \cup {"enter"}) /\ pc[c] \in (StartHeld \cup {"enter"})
        /\ \A i \in Calls \ {c} : pc'[i] = pc[i] /\ answer'[i] = answer[i]
    BY <1>1, <1>4 DEF Build, Step, StepWith
  <2>2. StageOf(pc'[c]) = StageOf(pc[c]) /\ StageOf(pc[c]) \in {"start", "stop"}
    BY <2>1 DEF StageOf
  <2>3. Core' = Core /\ Live' = Live
    BY <1>1, <1>4 DEF Build, Step, StepWith, LockInv, history, Core, Live
  <2> QED BY <2>1, <2>2, <2>3, HeldStepsAreInvisible
<1>5. CASE TestBeforeCreate(c)
  <2>1. /\ pc'[c] \in (StartHeld \cup {"enter"}) /\ pc[c] \in (StartHeld \cup {"enter"})
        /\ \A i \in Calls \ {c} : pc'[i] = pc[i] /\ answer'[i] = answer[i]
    BY <1>1, <1>5 DEF TestBeforeCreate, Step, StepWith
  <2>2. StageOf(pc'[c]) = StageOf(pc[c]) /\ StageOf(pc[c]) \in {"start", "stop"}
    BY <2>1 DEF StageOf
  <2>3. Core' = Core /\ Live' = Live
    BY <1>1, <1>5 DEF TestBeforeCreate, Step, StepWith, LockInv, history, Core, Live
  <2> QED BY <2>1, <2>2, <2>3, HeldStepsAreInvisible
<1>6. CASE Create(c)
  <2>1. /\ pc'[c] \in (StartHeld \cup {"enter"}) /\ pc[c] \in (StartHeld \cup {"enter"})
        /\ \A i \in Calls \ {c} : pc'[i] = pc[i] /\ answer'[i] = answer[i]
    BY <1>1, <1>6 DEF Create, Step, StepWith
  <2>2. StageOf(pc'[c]) = StageOf(pc[c]) /\ StageOf(pc[c]) \in {"start", "stop"}
    BY <2>1 DEF StageOf
  <2>3. Core' = Core /\ Live' = Live
    BY <1>1, <1>6 DEF Create, Step, StepWith, LockInv, history, Core, Live
  <2> QED BY <2>1, <2>2, <2>3, HeldStepsAreInvisible
<1>7. CASE LastTest(c)
  <2>1. /\ pc'[c] \in (StartHeld \cup {"enter"}) /\ pc[c] \in (StartHeld \cup {"enter"})
        /\ \A i \in Calls \ {c} : pc'[i] = pc[i] /\ answer'[i] = answer[i]
    BY <1>1, <1>7 DEF LastTest, Step, StepWith
  <2>2. StageOf(pc'[c]) = StageOf(pc[c]) /\ StageOf(pc[c]) \in {"start", "stop"}
    BY <2>1 DEF StageOf
  <2>3. Core' = Core /\ Live' = Live
    BY <1>1, <1>7 DEF LastTest, Step, StepWith, LockInv, history, Core, Live
  <2> QED BY <2>1, <2>2, <2>3, HeldStepsAreInvisible
<1>8. CASE Place(c)
  <2>1. /\ pc'[c] \in (StartHeld \cup {"enter"}) /\ pc[c] \in (StartHeld \cup {"enter"})
        /\ \A i \in Calls \ {c} : pc'[i] = pc[i] /\ answer'[i] = answer[i]
    BY <1>1, <1>8 DEF Place, Step, StepWith
  <2>2. StageOf(pc'[c]) = StageOf(pc[c]) /\ StageOf(pc[c]) \in {"start", "stop"}
    BY <2>1 DEF StageOf
  <2>3. Core' = Core /\ Live' = Live
    BY <1>1, <1>8 DEF Place, Step, StepWith, LockInv, history, Core, Live
  <2> QED BY <2>1, <2>2, <2>3, HeldStepsAreInvisible
<1>9. CASE Unregister(c)
  <2>1. /\ pc'[c] \in (StartHeld \cup {"enter"}) /\ pc[c] \in (StartHeld \cup {"enter"})
        /\ \A i \in Calls \ {c} : pc'[i] = pc[i] /\ answer'[i] = answer[i]
    BY <1>1, <1>9 DEF Unregister, Step, StepWith
  <2>2. StageOf(pc'[c]) = StageOf(pc[c]) /\ StageOf(pc[c]) \in {"start", "stop"}
    BY <2>1 DEF StageOf
  <2>3. Core' = Core /\ Live' = Live
    BY <1>1, <1>9 DEF Unregister, Step, StepWith, LockInv, history, Core, Live
  <2> QED BY <2>1, <2>2, <2>3, HeldStepsAreInvisible
<1>10. CASE CancelTest(c)
  <2>1. /\ pc'[c] \in (StartHeld \cup {"enter"}) /\ pc[c] \in (StartHeld \cup {"enter"})
        /\ \A i \in Calls \ {c} : pc'[i] = pc[i] /\ answer'[i] = answer[i]
    BY <1>1, <1>10 DEF CancelTest, Step, StepWith
  <2>2. StageOf(pc'[c]) = StageOf(pc[c]) /\ StageOf(pc[c]) \in {"start", "stop"}
    BY <2>1 DEF StageOf
  <2>3. Core' = Core /\ Live' = Live
    BY <1>1, <1>10 DEF CancelTest, Step, StepWith, LockInv, history, Core, Live
  <2> QED BY <2>1, <2>2, <2>3, HeldStepsAreInvisible
<1>11. CASE Enter(c)
  <2>1. /\ pc'[c] \in (StartHeld \cup {"enter"}) /\ pc[c] \in (StartHeld \cup {"enter"})
        /\ \A i \in Calls \ {c} : pc'[i] = pc[i] /\ answer'[i] = answer[i]
    BY <1>1, <1>11 DEF Enter, Step, StepWith
  <2>2. StageOf(pc'[c]) = StageOf(pc[c]) /\ StageOf(pc[c]) \in {"start", "stop"}
    BY <2>1 DEF StageOf
  <2>3. Core' = Core /\ Live' = Live
    BY <1>1, <1>11 DEF Enter, Acquire, Core, Live
  <2> QED BY <2>1, <2>2, <2>3, HeldStepsAreInvisible
<1> QED BY <1>2, <1>3, <1>4, <1>5, <1>6, <1>7, <1>8, <1>9, <1>10, <1>11 DEF StartService

(* errorWrapper, and the steps of a stop before it releases the lock.      *)
LEMMA StopStepsAreInvisible ==
  ASSUME IInv, NEW c \in Calls, errorWrapper(c) \/ Stop(c), ~StopUnlock(c)
  PROVE  UNCHANGED Mapped
<1>1. pc \in [Calls -> Places] /\ answer \in [Calls -> Answers] /\ LockInv
  BY DEF IInv, TypeOK, Answers
<1>2. CASE StopAndAlert(c)
  <2>1. /\ \/ pc'[c] \in StartHeld /\ pc[c] \in StartHeld
           \/ pc'[c] \in StopHeld /\ pc[c] \in StopHeld
        /\ \A i \in Calls \ {c} : pc'[i] = pc[i] /\ answer'[i] = answer[i]
    BY <1>1, <1>2 DEF StopAndAlert, Step, StepWith
  <2>2. StageOf(pc'[c]) = StageOf(pc[c]) /\ StageOf(pc[c]) \in {"start", "stop"}
    BY <2>1 DEF StageOf
  <2>3. Core' = Core /\ Live' = Live
    BY <1>1, <1>2 DEF StopAndAlert, Step, StepWith, LockInv, history, Core, Live
  <2> QED BY <2>1, <2>2, <2>3, HeldStepsAreInvisible
<1>3. CASE ErrorAnswer(c)
  <2>1. /\ \/ pc'[c] \in StartHeld /\ pc[c] \in StartHeld
           \/ pc'[c] \in StopHeld /\ pc[c] \in StopHeld
        /\ \A i \in Calls \ {c} : pc'[i] = pc[i] /\ answer'[i] = answer[i]
    BY <1>1, <1>3 DEF ErrorAnswer, Step, StepWith
  <2>2. StageOf(pc'[c]) = StageOf(pc[c]) /\ StageOf(pc[c]) \in {"start", "stop"}
    BY <2>1 DEF StageOf
  <2>3. Core' = Core /\ Live' = Live
    BY <1>1, <1>3 DEF ErrorAnswer, Step, StepWith, LockInv, history, Core, Live
  <2> QED BY <2>1, <2>2, <2>3, HeldStepsAreInvisible
<1>4. CASE Invalidate(c)
  <2>1. /\ pc'[c] \in (StopHeld \cup {"invalidate", "stopEnter"}) /\ pc[c] \in (StopHeld \cup {"invalidate", "stopEnter"})
        /\ \A i \in Calls \ {c} : pc'[i] = pc[i] /\ answer'[i] = answer[i]
    BY <1>1, <1>4 DEF Invalidate, Step, StepWith
  <2>2. StageOf(pc'[c]) = StageOf(pc[c]) /\ StageOf(pc[c]) \in {"start", "stop"}
    BY <2>1 DEF StageOf
  <2>3. Core' = Core /\ Live' = Live
    BY <1>1, <1>4 DEF Invalidate, history, Core, Live
  <2> QED BY <2>1, <2>2, <2>3, HeldStepsAreInvisible
<1>5. CASE StopEnter(c)
  <2>1. /\ pc'[c] \in (StopHeld \cup {"invalidate", "stopEnter"}) /\ pc[c] \in (StopHeld \cup {"invalidate", "stopEnter"})
        /\ \A i \in Calls \ {c} : pc'[i] = pc[i] /\ answer'[i] = answer[i]
    BY <1>1, <1>5 DEF StopEnter, Step, StepWith
  <2>2. StageOf(pc'[c]) = StageOf(pc[c]) /\ StageOf(pc[c]) \in {"start", "stop"}
    BY <2>1 DEF StageOf
  <2>3. Core' = Core /\ Live' = Live
    BY <1>1, <1>5 DEF StopEnter, Acquire, Core, Live
  <2> QED BY <2>1, <2>2, <2>3, HeldStepsAreInvisible
<1>6. CASE ReportStopping(c)
  <2>1. /\ pc'[c] \in (StopHeld \cup {"invalidate", "stopEnter"}) /\ pc[c] \in (StopHeld \cup {"invalidate", "stopEnter"})
        /\ \A i \in Calls \ {c} : pc'[i] = pc[i] /\ answer'[i] = answer[i]
    BY <1>1, <1>6 DEF ReportStopping, Step, StepWith
  <2>2. StageOf(pc'[c]) = StageOf(pc[c]) /\ StageOf(pc[c]) \in {"start", "stop"}
    BY <2>1 DEF StageOf
  <2>3. Core' = Core /\ Live' = Live
    BY <1>1, <1>6 DEF ReportStopping, Step, StepWith, LockInv, history, Core, Live
  <2> QED BY <2>1, <2>2, <2>3, HeldStepsAreInvisible
<1>7. CASE CloseStarted(c)
  <2>1. /\ pc'[c] \in (StopHeld \cup {"invalidate", "stopEnter"}) /\ pc[c] \in (StopHeld \cup {"invalidate", "stopEnter"})
        /\ \A i \in Calls \ {c} : pc'[i] = pc[i] /\ answer'[i] = answer[i]
    BY <1>1, <1>7 DEF CloseStarted, Step, StepWith
  <2>2. StageOf(pc'[c]) = StageOf(pc[c]) /\ StageOf(pc[c]) \in {"start", "stop"}
    BY <2>1 DEF StageOf
  <2>3. Core' = Core /\ Live' = Live
    BY <1>1, <1>7 DEF CloseStarted, Step, StepWith, LockInv, history, Core, Live
  <2> QED BY <2>1, <2>2, <2>3, HeldStepsAreInvisible
<1> QED BY <1>2, <1>3, <1>4, <1>5, <1>6, <1>7 DEF errorWrapper, Stop

(* Cancelling, waiting, returning and listening show nothing either.       *)
LEMMA OtherStepsAreInvisible ==
  ASSUME IInv, NEW c \in Calls,
         CancelRPC(c) \/ Wait(c) \/ Return(c) \/ Publish \/ CoreInfoListener
  PROVE  UNCHANGED Mapped
<1>1. CASE Wait(c)
  <2>1. /\ pc[c] = "wait" /\ pc'[c] = "enter"
        /\ \A i \in Calls \ {c} : pc'[i] = pc[i] /\ answer'[i] = answer[i]
    BY <1>1 DEF Wait, IInv, TypeOK
  <2>2. StageOf(pc'[c]) = StageOf(pc[c]) /\ StageOf(pc[c]) \in {"start", "stop"}
    BY <2>1 DEF StageOf
  <2>3. Core' = Core /\ Live' = Live
    BY <1>1 DEF Wait, history, Core, Live
  <2> QED BY <2>1, <2>2, <2>3, HeldStepsAreInvisible
<1>2. CASE Return(c)
  <2>1. \A i \in Calls :
          /\ StageOf(pc'[i]) = StageOf(pc[i])
          /\ pc'[i] \in {"back", "done"} <=> pc[i] \in {"back", "done"}
    BY <1>2 DEF Return, StageOf, IInv, TypeOK
  <2> QED BY <1>2, <2>1 DEF Return, history, Mapped, Stage, Answer, Core, Live
<1>3. CASE CancelRPC(c) \/ Publish \/ CoreInfoListener
  BY <1>3 DEF CancelRPC, Publish, CoreInfoListener, Subscribe, SendCurrent, SendEvent,
     Unsubscribe, calls, history, Mapped, Stage, Answer, Core, Live
<1> QED BY <1>1, <1>2, <1>3

(* A call is visible as a call.                                            *)
LEMMA CallIsCall ==
  ASSUME IInv, NEW c \in Calls, Call(c)
  PROVE  Promised!Call(c)
<1>1. pc[c] = "idle" /\ Stage[c] = "idle"
  BY DEF Call, Stage, StageOf
<1>2. Stage' = [Stage EXCEPT ![c] = IF c \in Starts THEN "start" ELSE "stop"]
  BY DEF Call, Stage, StageOf, IInv, TypeOK
<1>3. Answer' = Answer
  <2>1. \A i \in Calls : pc'[i] \in {"back", "done"} <=> pc[i] \in {"back", "done"}
    BY DEF Call, IInv, TypeOK
  <2> QED BY <2>1 DEF Call, Answer
<1>4. Core' = Core /\ Live' = Live
  BY DEF Call, history, Core, Live
<1> QED BY <1>1, <1>2, <1>3, <1>4 DEF Promised!Call

(* Releasing the lock ends the held part of a call: what the callers see   *)
(* of the core goes from what it was when the lock was taken to what the   *)
(* holder made of it.                                                      *)
LEMMA ReleaseShows ==
  ASSUME IInv, NEW c \in Calls, lock = c, lock' = None, NEW to \in Places,
         pc' = [pc EXCEPT ![c] = to], pc[c] \in Held, answer' = answer,
         to \in {"back", "wait"},
         StartedService' = StartedService, live' = live, entry' = entry
  PROVE  /\ Core = entry.service /\ Core' = StartedService
         /\ Live = entry.live /\ Live' = live
         /\ Stage' = [Stage EXCEPT ![c] = StageOf(to)]
         /\ to = "back" => Answer' = [Answer EXCEPT ![c] = answer[c]]
         /\ to = "wait" => Answer' = Answer
<1>1. Core = entry.service /\ Core' = StartedService /\ Live = entry.live /\ Live' = live
  BY DEF Core, Live
<1>2. Stage' = [Stage EXCEPT ![c] = StageOf(to)]
  BY DEF Stage, IInv, TypeOK
<1>3. to = "back" => Answer' = [Answer EXCEPT ![c] = answer[c]]
  BY DEF Answer, IInv, TypeOK
<1>4. to = "wait" => Answer' = Answer
  <2> SUFFICES ASSUME to = "wait" PROVE Answer' = Answer
    OBVIOUS
  <2>1. \A i \in Calls : pc'[i] \in {"back", "done"} <=> pc[i] \in {"back", "done"}
    BY DEF IInv, TypeOK
  <2> QED BY <2>1 DEF Answer
<1> QED BY <1>1, <1>2, <1>3, <1>4

(* A start that releases the lock takes effect, with the answer that fits. *)
LEMMA UnlockTakesEffect ==
  ASSUME IInv, NEW c \in Calls, Unlock(c)
  PROVE  Promised!TakesEffect(c)
<1>1. lock = c /\ pc[c] = "unlock" /\ Finished(c)
  BY DEF Unlock, Step, IInv, TypeOK, LockInv, HeldInv, WorkInv
<1>2. /\ Core = entry.service /\ Core' = StartedService
      /\ Live = entry.live /\ Live' = live
      /\ Stage' = [Stage EXCEPT ![c] = "over"]
      /\ Answer' = [Answer EXCEPT ![c] = answer[c]]
  BY <1>1, ReleaseShows DEF Unlock, Step, history, Places, StageOf
<1>3. Stage[c] = "start"
  BY <1>1 DEF Stage, StageOf
<1>4. Promised!Up <=> EntryUp
  BY <1>2 DEF Promised!Up, EntryUp, Told, Answer, IInv, TypeOK
<1>5. Promised!Finish(c, answer[c])
  BY <1>2 DEF Promised!Finish
<1>6. CASE Same /\ answer[c] = "already" /\ EntryUp
  BY <1>2, <1>3, <1>4, <1>5, <1>6 DEF Same, Promised!TakesEffect, Promised!AlreadyStarted
<1>7. CASE Same /\ answer[c] = "cancelled"
  BY <1>2, <1>3, <1>5, <1>7 DEF Same, Promised!TakesEffect, Promised!StartCancelled
<1>8. CASE ~EntryUp /\ Placed(c) /\ answer[c] = "started"
  BY <1>2, <1>3, <1>4, <1>5, <1>8 DEF Placed, Promised!TakesEffect, Promised!Started
<1>9. CASE ~EntryUp /\ Placed(c) /\ answer[c] = "cancelled"
  BY <1>2, <1>3, <1>4, <1>5, <1>9 DEF Placed, Promised!TakesEffect, Promised!StartCancelled
<1>10. CASE ~EntryUp /\ Cleared /\ answer[c] = "failed"
  BY <1>2, <1>3, <1>4, <1>5, <1>10 DEF Cleared, Promised!TakesEffect, Promised!StartFailed
<1>11. CASE ~EntryUp /\ Cleared /\ answer[c] = "cancelled"
  BY <1>2, <1>3, <1>4, <1>5, <1>11 DEF Cleared, Promised!TakesEffect, Promised!StartCancelled
<1> QED BY <1>1, <1>6, <1>7, <1>8, <1>9, <1>10, <1>11 DEF Finished

(* So does a stop; a restart whose stop succeeded goes on to its start.    *)
LEMMA StopUnlockTakesEffect ==
  ASSUME IInv, NEW c \in Calls, StopUnlock(c)
  PROVE  Promised!TakesEffect(c)
<1>1. /\ lock = c /\ pc[c] = "stopUnlock" /\ Cleared
      /\ answer[c] \in {"stopped", "failed"}
  BY DEF StopUnlock, Step, IInv, TypeOK, LockInv, HeldInv, WorkInv
<1>2. Stage[c] = "stop"
  BY <1>1 DEF Stage, StageOf
<1>3. CASE c \in Restarts /\ answer[c] = "stopped" /\ Step(c, "stopUnlock", "wait")
  <2>1. /\ Core = entry.service /\ Core' = StartedService
        /\ Live = entry.live /\ Live' = live
        /\ Stage' = [Stage EXCEPT ![c] = "start"]
        /\ Answer' = Answer
    <3>1. /\ lock' = None /\ pc' = [pc EXCEPT ![c] = "wait"] /\ answer' = answer
          /\ StartedService' = StartedService /\ live' = live /\ entry' = entry
      BY <1>3 DEF StopUnlock, Step, history
    <3>2. "wait" \in Places /\ StageOf("wait") = "start" /\ pc[c] \in Held
      BY <1>1 DEF Places, StageOf
    <3>3. /\ Core = entry.service /\ Core' = StartedService
          /\ Live = entry.live /\ Live' = live
          /\ Stage' = [Stage EXCEPT ![c] = StageOf("wait")]
          /\ Answer' = Answer
      BY <1>1, <3>1, <3>2, ReleaseShows
    <3> QED BY <3>2, <3>3
  <2> QED
    BY <1>1, <1>2, <1>3, <2>1 DEF Cleared, Promised!TakesEffect, Promised!StopTakesEffect
<1>4. CASE (c \in Stops \/ answer[c] = "failed") /\ Step(c, "stopUnlock", "back")
  <2>1. /\ Core = entry.service /\ Core' = StartedService
        /\ Live = entry.live /\ Live' = live
        /\ Stage' = [Stage EXCEPT ![c] = "over"]
        /\ Answer' = [Answer EXCEPT ![c] = answer[c]]
    BY <1>1, <1>4, ReleaseShows DEF StopUnlock, Step, history, Places, StageOf
  <2> QED
    BY <1>1, <1>2, <1>4, <2>1 DEF Cleared, Promised!TakesEffect,
       Promised!StopTakesEffect, Promised!Finish
<1> QED BY <1>3, <1>4 DEF StopUnlock

(* Start, Stop and Restart take effect at one moment each, with the answer *)
(* that fits: the safety part of ImplementsCoreCalls, for any sets of      *)
(* calls.                                                                  *)
THEOREM ImplementsCoreCallsSafely == Spec => Promised!Safety
<1>1. Init => Promised!Init
  BY DEF Init, Promised!Init, Stage, StageOf, Answer, Core, Live, Promised!Calls
<1>2. IInv /\ [Next]_vars => [Promised!Next]_(Promised!vars)
  <2> SUFFICES ASSUME IInv, [Next]_vars
               PROVE  Promised!Next \/ UNCHANGED Mapped
    BY DEF Promised!vars, Mapped
  <2>1. CASE UNCHANGED vars
    BY <2>1 DEF vars, Mapped, Stage, Answer, Core, Live
  <2>2. ASSUME NEW c \in Calls, Call(c) \/ CancelRPC(c) \/ Proceed(c)
        PROVE  Promised!Next \/ UNCHANGED Mapped
    <3>1. CASE Call(c)
      BY <3>1, CallIsCall DEF Promised!Next, Promised!Calls
    <3>2. CASE Unlock(c)
      BY <3>2, UnlockTakesEffect DEF Promised!Next, Promised!Calls
    <3>3. CASE StopUnlock(c)
      BY <3>3, StopUnlockTakesEffect DEF Promised!Next, Promised!Calls
    <3>4. CASE StartService(c) /\ ~Unlock(c)
      BY <3>4, StartStepsAreInvisible
    <3>5. CASE (errorWrapper(c) \/ Stop(c)) /\ ~StopUnlock(c)
      BY <3>5, StopStepsAreInvisible
    <3>6. CASE CancelRPC(c) \/ Wait(c) \/ Return(c)
      BY <3>6, OtherStepsAreInvisible
    <3> QED BY <2>2, <3>1, <3>2, <3>3, <3>4, <3>5, <3>6 DEF Proceed
  <2>3. CASE (Publish \/ CoreInfoListener) /\ Calls # {}
    BY <2>3, OtherStepsAreInvisible
  <2>4. CASE Calls = {} /\ (Publish \/ CoreInfoListener)
    BY <2>4 DEF Publish, CoreInfoListener, Subscribe, SendCurrent, SendEvent,
       Unsubscribe, calls, history, Mapped, Stage, Answer, Core, Live
  <2> QED BY <2>1, <2>2, <2>3, <2>4 DEF Next
<1> QED BY <1>1, <1>2, Invariance, PTL DEF Spec, Promised!Safety

=============================================================================
