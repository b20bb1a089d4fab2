----------------------------- MODULE CoreCalls -----------------------------
(***************************************************************************)
(* What the callers of the core are promised: Start, Stop and Restart      *)
(* behave as if each happened at one moment between its call and its       *)
(* answer, and the answer says what happened at that moment.  The code     *)
(* takes many steps for each of them; HcoreLifecycle shows that it still   *)
(* implements this module.                                                 *)
(*                                                                         *)
(* A core instance is named after the call that created it.                *)
(***************************************************************************)
CONSTANTS Starts, Stops, Restarts, \* the calls, each made at most once
          None

Calls == Starts \cup Stops \cup Restarts
Creators == Starts \cup Restarts

VARIABLES
    stage,  \* what is left of each call
    answer, \* what each call was told
    core,   \* the instance the core refers to
    live    \* the instances that were created and not closed

vars == <<stage, answer, core, live>>

Init ==
    /\ stage = [c \in Calls |-> "idle"]
    /\ answer = [c \in Calls |-> "none"]
    /\ core = None
    /\ live = {}

(* The core is up when it refers to an instance whose start was reported. *)
Up == core # None /\ answer[core] = "started"

Call(c) ==
    /\ stage[c] = "idle"
    /\ stage' = [stage EXCEPT ![c] = IF c \in Starts THEN "start" ELSE "stop"]
    /\ UNCHANGED <<answer, core, live>>

Finish(c, what) ==
    /\ stage' = [stage EXCEPT ![c] = "over"]
    /\ answer' = [answer EXCEPT ![c] = what]

(* A stop leaves no instance behind, whether closing it reported an error  *)
(* or not; the first half of a restart goes on to its second half.         *)
StopTakesEffect(c) ==
    /\ stage[c] = "stop"
    /\ core' = None
    /\ live' = live \ {core}
    /\ \/ c \in Stops /\ Finish(c, "stopped")
       \/ Finish(c, "failed")
       \/ /\ c \in Restarts
          /\ stage' = [stage EXCEPT ![c] = "start"]
          /\ UNCHANGED answer

AlreadyStarted(c) ==
    /\ stage[c] = "start"
    /\ Up
    /\ Finish(c, "already")
    /\ UNCHANGED <<core, live>>

Started(c) ==
    /\ stage[c] = "start"
    /\ ~Up
    /\ core' = c
    /\ live' = live \cup {c}
    /\ Finish(c, "started")

StartFailed(c) ==
    /\ stage[c] = "start"
    /\ ~Up
    /\ core' = None
    /\ live' = live \ {core}
    /\ Finish(c, "failed")

(* A cancelled start changes nothing, unless the cancellation came after   *)
(* the start had already put its instance in place, or after it had failed *)
(* and closed what an earlier one of those left.                           *)
StartCancelled(c) ==
    /\ stage[c] = "start"
    /\ Finish(c, "cancelled")
    /\ \/ UNCHANGED <<core, live>>
       \/ ~Up /\ core' = c /\ live' = live \cup {c}
       \/ ~Up /\ core' = None /\ live' = live \ {core}

TakesEffect(c) ==
    \/ StopTakesEffect(c)
    \/ AlreadyStarted(c)
    \/ Started(c)
    \/ StartFailed(c)
    \/ StartCancelled(c)

Next == \E c \in Calls : Call(c) \/ TakesEffect(c)

Safety == Init /\ [][Next]_vars

(* Every call that was made is answered: each is made at most once, so it  *)
(* is enough that again and again no call is under way.                    *)
Answered == []<>(\A c \in Calls : stage[c] \in {"idle", "over"})

Promise == Safety /\ Answered
=============================================================================
