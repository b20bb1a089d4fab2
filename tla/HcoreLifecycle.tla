--------------------------- MODULE HcoreLifecycle ---------------------------
(***************************************************************************)
(* The life of the Go core (hiddify-core/v2/hcore): StartService, Stop and *)
(* Restart, which serialise on static.lock, the cancellation of a start    *)
(* that is under way (by a Stop, through static.startupCancel, or by the   *)
(* caller of the RPC), the status they publish and the listener of that    *)
(* status.  The methods of Android's binding reach the same functions as   *)
(* the RPCs do.                                                            *)
(*                                                                         *)
(* A call is made at most once and an instance of the core is named after  *)
(* the call that created it.  cancelledByStop, late, entry and missed are  *)
(* history: no step of the code depends on them.                           *)
(***************************************************************************)
EXTENDS FiniteSets, Sequences

CONSTANTS Starts, Stops, Restarts, None

ASSUME HcoreAssumption ==
    /\ Starts \cap Stops = {}
    /\ Starts \cap Restarts = {}
    /\ Stops \cap Restarts = {}
    /\ None \notin Starts \cup Stops \cup Restarts

Calls == Starts \cup Stops \cup Restarts
Creators == Starts \cup Restarts

VARIABLES
    pc,             \* where each call is
    lock,           \* static.lock: the call that holds it, or None
    startupCancel,  \* static.startupCancel: the start it would cancel
    cancelled,      \* the starts whose context is cancelled
    CoreState,      \* static.CoreState
    StartedService, \* static.StartedService
    live,           \* the instances that were created and not closed
    answer,         \* what each call returns
    unpublished,    \* a status that is set and not yet published
    listener,       \* "off", "subscribed" or "listening"
    buffer,         \* the listener's channel
    delivered,      \* the last status sent to the listener
    cancelledByStop,
    late,           \* the starts cancelled after their last test
    entry,          \* StartedService and live when the lock was taken
    missed          \* whether the last status was dropped

calls == <<pc, lock, startupCancel, cancelled, StartedService, live, answer>>
statuses == <<CoreState, unpublished>>
listening == <<listener, buffer, delivered, missed>>
history == <<cancelledByStop, late, entry>>
vars == <<pc, lock, startupCancel, cancelled, CoreState, StartedService, live,
          answer, unpublished, listener, buffer, delivered, cancelledByStop,
          late, entry, missed>>

CoreStates == {"STOPPED", "STARTING", "STARTED", "STOPPING"}

(* Places of a start, in the order of StartService. *)
StartHeld == {"register", "starting", "build", "test", "create", "lastTest",
              "place", "startError", "startErrorEnd", "unregister",
              "cancelTest", "unlock"}
AfterLastTest == {"place", "unregister", "cancelTest", "unlock", "back"}
StopHeld == {"stopping", "close", "stopError", "stopErrorEnd", "stopUnlock"}
Places == StartHeld \cup StopHeld
          \cup {"idle", "enter", "invalidate", "stopEnter", "wait", "back", "done"}

Answers == {"none", "started", "already", "cancelled", "failed", "stopped"}

Init ==
    /\ pc = [c \in Calls |-> "idle"]
    /\ lock = None
    /\ startupCancel = None
    /\ cancelled = {}
    /\ CoreState = "STOPPED"
    /\ StartedService = None
    /\ live = {}
    /\ answer = [c \in Calls |-> "none"]
    /\ unpublished = "none"
    /\ listener = "off"
    /\ buffer = <<>>
    /\ delivered = "none"
    /\ cancelledByStop = {}
    /\ late = {}
    /\ entry = [service |-> None, live |-> {}]
    /\ missed = FALSE

-----------------------------------------------------------------------------
(* A call goes from one place to the next; a status that was set is        *)
(* published before the call goes on.                                      *)
Step(c, from, to) ==
    /\ pc[c] = from
    /\ unpublished = "none"
    /\ pc' = [pc EXCEPT ![c] = to]

StepWith(c, from, to, what) ==
    /\ Step(c, from, to)
    /\ answer' = [answer EXCEPT ![c] = what]

SetCoreStatus(state) ==
    /\ CoreState' = state
    /\ unpublished' = state
    /\ UNCHANGED listening

NoStatus == UNCHANGED <<statuses, listening>>

(* Mutant of Publish: it waits for a slow listener's buffer to grow.       *)
PublishQueues ==
    /\ unpublished # "none"
    /\ unpublished' = "none"
    /\ buffer' = IF listener = "off" THEN buffer ELSE Append(buffer, unpublished)
    /\ UNCHANGED <<calls, CoreState, listener, delivered, missed, history>>

(* The second half of SetCoreStatus: an event for a listener whose channel *)
(* is full is dropped.                                                     *)
Publish ==
    /\ unpublished # "none"
    /\ unpublished' = "none"
    /\ \/ /\ listener # "off" /\ buffer = <<>>
          /\ buffer' = <<unpublished>>
          /\ missed' = FALSE
       \/ /\ listener # "off" /\ buffer # <<>>
          /\ missed' = TRUE
          /\ UNCHANGED buffer
       \/ /\ listener = "off"
          /\ UNCHANGED <<buffer, missed>>
    /\ UNCHANGED <<calls, CoreState, listener, delivered, history>>

(* A listener subscribes before it reads the status it sends first. *)
Subscribe ==
    /\ listener = "off"
    /\ listener' = "subscribed"
    /\ UNCHANGED <<calls, statuses, buffer, delivered, missed, history>>

(* Mutant of SendCurrent: a listener is only sent events. *)
SendCurrentOmitted ==
    /\ listener = "subscribed"
    /\ listener' = "listening"
    /\ UNCHANGED <<calls, statuses, buffer, delivered, missed, history>>

SendCurrent ==
    /\ listener = "subscribed"
    /\ listener' = "listening"
    /\ delivered' = CoreState
    /\ UNCHANGED <<calls, statuses, buffer, missed, history>>

SendEvent ==
    /\ listener = "listening"
    /\ buffer # <<>>
    /\ delivered' = Head(buffer)
    /\ buffer' = Tail(buffer)
    /\ UNCHANGED <<calls, statuses, listener, missed, history>>

Unsubscribe ==
    /\ listener = "listening"
    /\ listener' = "off"
    /\ buffer' = <<>>
    /\ delivered' = "none"
    /\ missed' = FALSE
    /\ UNCHANGED <<calls, statuses, history>>

CoreInfoListener == Subscribe \/ SendCurrent \/ SendEvent \/ Unsubscribe

-----------------------------------------------------------------------------
(* A call of the RPC or of the Android binding. *)
Call(c) ==
    /\ pc[c] = "idle"
    /\ pc' = [pc EXCEPT ![c] = IF c \in Starts THEN "enter" ELSE "invalidate"]
    /\ UNCHANGED <<lock, startupCancel, cancelled, StartedService, live, answer,
                   statuses, listening, history>>

(* The caller gives up while Start has not detached it from the startup    *)
(* context.  A restart runs under the base context, which nobody cancels.  *)
CancelRPC(c) ==
    /\ c \in Starts
    /\ pc[c] \notin {"idle", "done"}
    /\ c \notin cancelled
    /\ cancelled' = cancelled \cup {c}
    /\ late' = IF pc[c] \in AfterLastTest THEN late \cup {c} ELSE late
    /\ UNCHANGED <<pc, lock, startupCancel, StartedService, live, answer,
                   statuses, listening, cancelledByStop, entry>>

(* The lock is free and c takes it. *)
Acquire(c) ==
    /\ lock = None
    /\ lock' = c
    /\ entry' = [service |-> StartedService, live |-> live]
    /\ UNCHANGED <<cancelledByStop, late>>

(* Mutant of Enter: the status is not tested. *)
EnterUntested(c) ==
    /\ Acquire(c)
    /\ \/ c \in cancelled /\ StepWith(c, "enter", "unlock", "cancelled")
       \/ c \notin cancelled /\ Step(c, "enter", "register") /\ UNCHANGED answer
    /\ UNCHANGED <<startupCancel, cancelled, StartedService, live>>
    /\ NoStatus

Enter(c) ==
    /\ Acquire(c)
    /\ \/ /\ c \in cancelled
          /\ StepWith(c, "enter", "unlock", "cancelled")
       \/ /\ c \notin cancelled
          /\ CoreState # "STOPPED"
          /\ StepWith(c, "enter", "unlock", "already")
       \/ /\ c \notin cancelled
          /\ CoreState = "STOPPED"
          /\ Step(c, "enter", "register")
          /\ UNCHANGED answer
    /\ UNCHANGED <<startupCancel, cancelled, StartedService, live>>
    /\ NoStatus

RegisterCancel(c) ==
    /\ Step(c, "register", "starting")
    /\ startupCancel' = c
    /\ UNCHANGED <<lock, cancelled, StartedService, live, answer, history>>
    /\ NoStatus

ReportStarting(c) ==
    /\ Step(c, "starting", "build")
    /\ SetCoreStatus("STARTING")
    /\ UNCHANGED <<lock, startupCancel, cancelled, StartedService, live, answer,
                   history>>

(* Building the configuration may fail, whether the start is cancelled or  *)
(* not; a cancelled one gives up here, and again before it creates         *)
(* anything.                                                               *)
Build(c) ==
    /\ \/ /\ Step(c, "build", "startError")
          /\ UNCHANGED answer
       \/ /\ c \in cancelled
          /\ StepWith(c, "build", "unregister", "cancelled")
       \/ /\ c \notin cancelled
          /\ Step(c, "build", "test")
          /\ UNCHANGED answer
    /\ UNCHANGED <<lock, startupCancel, cancelled, StartedService, live, history>>
    /\ NoStatus

(* The hooks that run before the start may fail. *)
TestBeforeCreate(c) ==
    /\ \/ Step(c, "test", "startError") /\ UNCHANGED answer
       \/ /\ c \in cancelled
          /\ StepWith(c, "test", "unregister", "cancelled")
       \/ /\ c \notin cancelled
          /\ Step(c, "test", "create")
          /\ UNCHANGED answer
    /\ UNCHANGED <<lock, startupCancel, cancelled, StartedService, live, history>>
    /\ NoStatus

(* Mutant of LastTest: a cancelled start returns without closing.          *)
LastTestLeaves(c) ==
    /\ \/ c \in cancelled /\ StepWith(c, "lastTest", "unregister", "cancelled")
       \/ c \notin cancelled /\ Step(c, "lastTest", "place") /\ UNCHANGED answer
    /\ UNCHANGED <<lock, startupCancel, cancelled, StartedService, live, history>>
    /\ NoStatus

(* NewService closes what it made when it fails. *)
Create(c) ==
    /\ \/ /\ Step(c, "create", "startError")
          /\ UNCHANGED live
       \/ /\ Step(c, "create", "lastTest")
          /\ live' = live \cup {c}
    /\ UNCHANGED <<lock, startupCancel, cancelled, StartedService, answer, history>>
    /\ NoStatus

LastTest(c) ==
    /\ \/ /\ c \in cancelled
          /\ StepWith(c, "lastTest", "unregister", "cancelled")
          /\ live' = live \ {c}
       \/ /\ c \notin cancelled
          /\ Step(c, "lastTest", "place")
          /\ UNCHANGED <<live, answer>>
    /\ UNCHANGED <<lock, startupCancel, cancelled, StartedService, history>>
    /\ NoStatus

Place(c) ==
    /\ StepWith(c, "place", "unregister", "started")
    /\ StartedService' = c
    /\ SetCoreStatus("STARTED")
    /\ UNCHANGED <<lock, startupCancel, cancelled, live, history>>

(* Mutant of CancelTest: the deferred function only unregisters.           *)
CancelTestOmitted(c) ==
    /\ Step(c, "cancelTest", "unlock")
    /\ UNCHANGED <<lock, startupCancel, cancelled, StartedService, live, answer,
                   history>>
    /\ NoStatus

(* The deferred function of StartService: the cancellation is tested once  *)
(* more, and when it came after LastTest the instance stays in place.      *)
Unregister(c) ==
    /\ Step(c, "unregister", "cancelTest")
    /\ startupCancel' = None
    /\ UNCHANGED <<lock, cancelled, StartedService, live, answer, history>>
    /\ NoStatus

CancelTest(c) ==
    /\ \/ /\ c \in cancelled
          /\ StepWith(c, "cancelTest", "unlock", "cancelled")
          /\ SetCoreStatus("STOPPED")
       \/ /\ c \notin cancelled
          /\ Step(c, "cancelTest", "unlock")
          /\ UNCHANGED answer
          /\ NoStatus
    /\ UNCHANGED <<lock, startupCancel, cancelled, StartedService, live, history>>

Unlock(c) ==
    /\ Step(c, "unlock", "back")
    /\ lock' = None
    /\ UNCHANGED <<startupCancel, cancelled, StartedService, live, answer, history>>
    /\ NoStatus

-----------------------------------------------------------------------------
(* errorWrapper, entered by a start or a stop: report STOPPED, close what  *)
(* StartedService still refers to, and report STOPPED with the error.      *)
StopAndAlert(c) ==
    /\ \/ Step(c, "startError", "startErrorEnd")
       \/ Step(c, "stopError", "stopErrorEnd")
    /\ SetCoreStatus("STOPPED")
    /\ live' = live \ {StartedService}
    /\ StartedService' = None
    /\ UNCHANGED <<lock, startupCancel, cancelled, answer, history>>

ErrorAnswer(c) ==
    /\ \/ StepWith(c, "startErrorEnd", "unregister", "failed")
       \/ StepWith(c, "stopErrorEnd", "stopUnlock", "failed")
    /\ SetCoreStatus("STOPPED")
    /\ UNCHANGED <<lock, startupCancel, cancelled, StartedService, live, history>>

-----------------------------------------------------------------------------
(* Stop cancels the start that has registered itself, without the lock,    *)
(* and only then waits for the lock.                                       *)
Invalidate(c) ==
    /\ pc[c] = "invalidate"
    /\ pc' = [pc EXCEPT ![c] = "stopEnter"]
    /\ startupCancel' = None
    /\ cancelled' = cancelled \cup ({startupCancel} \ {None})
    /\ cancelledByStop' = cancelledByStop \cup ({startupCancel} \ {None})
    /\ late' = IF startupCancel # None /\ startupCancel \notin cancelled
                     /\ pc[startupCancel] \in AfterLastTest
               THEN late \cup {startupCancel} ELSE late
    /\ UNCHANGED <<lock, StartedService, live, answer, entry>>
    /\ NoStatus

StopEnter(c) ==
    /\ Acquire(c)
    /\ Step(c, "stopEnter", "stopping")
    /\ UNCHANGED <<startupCancel, cancelled, StartedService, live, answer>>
    /\ NoStatus

ReportStopping(c) ==
    /\ Step(c, "stopping", "close")
    /\ SetCoreStatus("STOPPING")
    /\ UNCHANGED <<lock, startupCancel, cancelled, StartedService, live, answer,
                   history>>

(* closeStartedService may report an error; nothing is kept of the         *)
(* instance either way.                                                    *)
CloseStarted(c) ==
    /\ \/ /\ StepWith(c, "close", "stopUnlock", "stopped")
          /\ SetCoreStatus("STOPPED")
       \/ /\ StartedService # None
          /\ Step(c, "close", "stopError")
          /\ UNCHANGED answer
          /\ NoStatus
    /\ StartedService' = None
    /\ live' = live \ {StartedService}
    /\ UNCHANGED <<lock, startupCancel, cancelled, history>>

(* A restart whose stop succeeded waits with the lock released; one whose  *)
(* stop failed returns its error.                                          *)
StopUnlock(c) ==
    /\ \/ c \in Restarts /\ answer[c] = "stopped" /\ Step(c, "stopUnlock", "wait")
       \/ (c \in Stops \/ answer[c] = "failed") /\ Step(c, "stopUnlock", "back")
    /\ lock' = None
    /\ UNCHANGED <<startupCancel, cancelled, StartedService, live, answer, history>>
    /\ NoStatus

Wait(c) ==
    /\ pc[c] = "wait"
    /\ pc' = [pc EXCEPT ![c] = "enter"]
    /\ UNCHANGED <<lock, startupCancel, cancelled, StartedService, live, answer,
                   history>>
    /\ NoStatus

(* The caller has its answer, and the RPC is detached from the startup     *)
(* context.                                                                *)
Return(c) ==
    /\ pc[c] = "back"
    /\ pc' = [pc EXCEPT ![c] = "done"]
    /\ UNCHANGED <<lock, startupCancel, cancelled, StartedService, live, answer,
                   history>>
    /\ NoStatus

-----------------------------------------------------------------------------
StartService(c) ==
    \/ Enter(c) \/ RegisterCancel(c) \/ ReportStarting(c) \/ Build(c)
    \/ TestBeforeCreate(c) \/ Create(c) \/ LastTest(c) \/ Place(c)
    \/ Unregister(c) \/ CancelTest(c) \/ Unlock(c)

errorWrapper(c) == StopAndAlert(c) \/ ErrorAnswer(c)

Stop(c) ==
    \/ Invalidate(c) \/ StopEnter(c) \/ ReportStopping(c) \/ CloseStarted(c)
    \/ StopUnlock(c)

Proceed(c) == StartService(c) \/ errorWrapper(c) \/ Stop(c) \/ Wait(c) \/ Return(c)

Next ==
    \/ \E c \in Calls : Call(c) \/ CancelRPC(c) \/ Proceed(c)
    \/ Publish
    \/ CoreInfoListener

(* A call that is running goes on, and a status that is set is published:  *)
(* nothing in the code makes a goroutine wait but the lock.                *)
Fairness == WF_vars(Publish) /\ \A c \in Calls : WF_vars(Proceed(c))

Spec == Init /\ [][Next]_vars /\ Fairness

-----------------------------------------------------------------------------
(* Type invariant of the variables. *)
TypeOK ==
    /\ pc \in [Calls -> Places]
    /\ lock \in Calls \cup {None}
    /\ startupCancel \in Creators \cup {None}
    /\ cancelled \subseteq Creators
    /\ CoreState \in CoreStates
    /\ StartedService \in Creators \cup {None}
    /\ live \subseteq Creators
    /\ answer \in [Calls -> Answers]
    /\ unpublished \in CoreStates \cup {"none"}
    /\ listener \in {"off", "subscribed", "listening"}
    /\ buffer \in {<<>>} \cup {<<s>> : s \in CoreStates}
    /\ delivered \in CoreStates \cup {"none"}
    /\ cancelledByStop \subseteq Creators
    /\ late \subseteq Creators
    /\ entry \in [service : Creators \cup {None}, live : SUBSET Creators]
    /\ missed \in BOOLEAN

(* A start that a Stop cancelled never answers that it started the core,   *)
(* however late in the start the Stop came (stop.go:16: "so it cannot      *)
(* activate resources late").                                              *)
StopPrevails ==
    \A c \in cancelledByStop :
        pc[c] \in {"back", "done"} => answer[c] = "cancelled"

(* While no call is under way in the core, an instance that runs is the    *)
(* one StartedService refers to and the status says STARTED, except for    *)
(* the instance of a start that was cancelled after its last test of the   *)
(* context: the deferred function reports STOPPED and leaves it in place,  *)
(* and the next start overwrites the reference.                            *)
RunningIsReported ==
    lock = None =>
        /\ \A i \in live \ late : i = StartedService /\ CoreState = "STARTED"
        /\ StartedService # None => StartedService \in live
        /\ CoreState \in {"STOPPED", "STARTED"}
        /\ CoreState = "STARTED" => StartedService # None

(* What a listener was told last is the current status, or the event that  *)
(* says so is on its way, or it was dropped because an older one still     *)
(* filled the channel: subscribing before the status is read loses         *)
(* nothing.                                                                *)
ListenerIsCurrent ==
    listener = "listening" /\ buffer = <<>> /\ unpublished = "none" /\ ~missed
        => delivered = CoreState

(* The calls as their callers see them: what a call did under the lock     *)
(* shows when it releases the lock.                                        *)
StageOf(place) ==
    IF place = "idle" THEN "idle"
    ELSE IF place \in {"back", "done"} THEN "over"
    ELSE IF place \in StopHeld \cup {"invalidate", "stopEnter"} THEN "stop"
    ELSE "start"
Stage == [c \in Calls |-> StageOf(pc[c])]
Answer == [c \in Calls |-> IF pc[c] \in {"back", "done"} THEN answer[c] ELSE "none"]
Core == IF lock = None THEN StartedService ELSE entry.service
Live == IF lock = None THEN live ELSE entry.live

Promised == INSTANCE CoreCalls
    WITH stage <- Stage, answer <- Answer, core <- Core, live <- Live

(* Start, Stop and Restart behave as CoreCalls promises: each takes effect *)
(* at one moment between call and answer, with the answer that fits, and   *)
(* every call is answered.                                                 *)
ImplementsCoreCalls == Promised!Promise
=============================================================================
