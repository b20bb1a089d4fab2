----------------------------- MODULE SmartActive -----------------------------
(***************************************************************************)
(* The Smart Active balancer (protocol/group/balancer) on top of the       *)
(* monitoring of its servers: the worker that takes the group's events and *)
(* decides which server is active.                                         *)
(*                                                                         *)
(* The worker reads the servers one by one while cycles and manual         *)
(* refreshes go on.  Which of the eligible servers is best, or good enough *)
(* to switch to, depends on scores, delays, streaks of evidence, ages and  *)
(* avoidance: a success is eligible, and the choice is left open.          *)
(***************************************************************************)
EXTENDS OutboundMonitoring

VARIABLES
    worker,         \* where the worker is: pc, and the mode and the batch
                    \* generation of the event it handles
    lastHandled,    \* lastHandledBatchGeneration and -Number
    snapshot,       \* what the worker has read of the servers so far
    selectionGeneration,
    lastFull,       \* lastFullGeneration and lastFullHistory
    active,         \* the selected server, or None
    bootstrap,
    failedActiveRefreshPending

selectionVars == <<selectionGeneration, lastFull, active, bootstrap,
                   failedActiveRefreshPending>>
balancerVars == <<worker, lastHandled, snapshot, selectionVars>>
vars == <<monitoringVars, balancerVars>>

(* The ranking view of a server (getURLTest): every result is of a full     *)
(* cycle or a manual refresh, so nothing of it is masked.                   *)
Ranking(r) == [gen |-> r.gen, status |-> r.status, ready |-> r.ready]
Unread == [s \in Servers |-> None]
IdleWorker == [pc |-> "idle", mode |-> "plain", batch |-> 0]

Init ==
    /\ MonitoringInit
    /\ worker = [IdleWorker EXCEPT !.pc = "start"]
    /\ lastHandled = NoEvent
    /\ snapshot = Unread
    /\ selectionGeneration = 0
    /\ lastFull = [gen |-> 0, history |-> Unread]
    /\ active = None
    /\ bootstrap = TRUE
    /\ failedActiveRefreshPending = FALSE

-----------------------------------------------------------------------------
(* What the selection reads in a history.                                   *)

currentGeneration(h) ==
    CHOOSE g \in {h[s].gen : s \in Servers} : \A s \in Servers : h[s].gen <= g

generationCoversAll(h, g) == g > 0 /\ \A s \in Servers : h[s].gen = g

Terminal(v) == v.ready /\ v.status \in Results

generationSettled(h, g) == g > 0 /\ \A s \in Servers : h[s].gen = g /\ Terminal(h[s])

bootstrapGenerationSettled(h, g) ==
    g > 0 /\ \A s \in Servers : h[s].gen >= g /\ Terminal(h[s])

(* The servers whose candidateStatus is ok.                                 *)
Eligible(h, g) ==
    {s \in Servers : g > 0 /\ h[s].gen = g /\ h[s].ready /\ h[s].status = "success"}

currentCheckInProgress(v) == v.gen > 0 /\ v.status = "checking" /\ ~v.ready

(* A newer settled cohort replaces the saved one; of the same cohort only   *)
(* failures are taken over.                                                 *)
rememberFullGeneration(h, g) ==
    IF ~generationSettled(h, g) \/ g < lastFull.gen THEN lastFull
    ELSE IF g > lastFull.gen THEN [gen |-> g, history |-> h]
    ELSE [lastFull EXCEPT !.history = [s \in Servers |->
             IF h[s].status = "failed" THEN h[s] ELSE lastFull.history[s]]]

(* Mutant: a running check vetoes nothing.                                  *)
VetoesOnFailure(latest, saved) ==
    latest.gen >= saved.gen /\ latest.status = "failed"

(* A newer failure or check vetoes a saved server, a newer success promotes *)
(* none.                                                                    *)
Vetoes(latest, saved) ==
    latest.gen >= saved.gen /\ (latest.status \in {"failed", "checking"} \/ ~latest.ready)

fullGenerationDecisionHistory(h, full) ==
    [s \in Servers |-> IF Vetoes(h[s], full.history[s]) THEN h[s] ELSE full.history[s]]

-----------------------------------------------------------------------------
(* The worker: it subscribes and, since the channel has no replay, looks    *)
(* once; then it handles one event after the other.                         *)

(* Mutant: the worker does not look once after it has subscribed.           *)
SubscribeOnly ==
    /\ worker.pc = "start"
    /\ worker' = IdleWorker
    /\ observer' = [observer EXCEPT !.open = TRUE]
    /\ UNCHANGED <<srv, cycleVars, manualVars, notified, completed, lastHandled, snapshot,
                   selectionVars>>

SubscribeGroup ==
    /\ worker.pc = "start"
    /\ worker' = [worker EXCEPT !.pc = "update"]
    /\ observer' = [observer EXCEPT !.open = TRUE]
    /\ UNCHANGED <<srv, cycleVars, manualVars, notified, completed, lastHandled, snapshot,
                   selectionVars>>

(* ConsumeRecentManualRefresh and consumeCompletedBatch.                    *)
Receive ==
    \E event \in observer.events :
        LET fresh == event.gen > 0 /\ Later(event, lastHandled) IN
        /\ worker.pc = "idle"
        /\ "worker" \notin asking
        /\ observer' = [observer EXCEPT !.events = {}]
        /\ manualRefreshAt' = FALSE
        /\ lastHandled' = IF fresh THEN event ELSE lastHandled
        /\ worker' = [pc |-> "update",
                      mode |-> CASE manualRefreshAt -> "manual"
                                 [] ~manualRefreshAt /\ fresh -> "batch"
                                 [] OTHER -> "plain",
                      batch |-> IF fresh /\ ~manualRefreshAt THEN event.gen ELSE 0]
        /\ UNCHANGED <<srv, cycleVars, man, notified, completed, snapshot, selectionVars>>

Has(s) == [snapshot EXCEPT ![s] = Ranking(srv[s])]
Unreads == {s \in Servers : snapshot[s] = None}

OutboundsRankingHistory ==
    \E s \in Unreads :
        /\ worker.pc = "update"
        /\ Unreads # {s}
        /\ snapshot' = Has(s)
        /\ UNCHANGED <<monitoringVars, worker, lastHandled, selectionVars>>

Keep == [active |-> active, bootstrap |-> bootstrap]

(* The startup: a server is chosen from the batches of the first cohort that*)
(* covers the group, and the startup ends when that cohort is settled.      *)
StartupDecisions(h, g) ==
    IF \/ g = 0
       \/ worker.mode = "batch" /\ worker.batch # g
       \/ worker.mode = "plain" /\ ~bootstrapGenerationSettled(h, g)
       \/ Eligible(h, g) = {}
    THEN {Keep}
    ELSE {[active |-> c, bootstrap |-> ~bootstrapGenerationSettled(h, g)] :
            c \in Eligible(h, g)}

(* Afterwards: h is what was read and d what is decided from.               *)
ConfirmedDecisions(h, d, g, full) ==
    IF \/ worker.mode = "batch" /\ worker.batch # g
       \/ worker.mode = "plain" /\ ~generationSettled(h, g) /\ g # full.gen
    THEN {Keep}
    ELSE {Keep} \cup {[Keep EXCEPT !.active = c] : c \in Eligible(d, g)}

(* requestFailedActiveRefresh: a failed active server asks once for a full  *)
(* cycle, until it is eligible again.                                       *)
Pending(d, g, selected) ==
    CASE selected = None -> failedActiveRefreshPending
      [] selected \in Eligible(d, g) -> FALSE
      [] OTHER -> failedActiveRefreshPending \/ ~currentCheckInProgress(d[selected])

(* The last read, and the decision.                                         *)
updateOutboundsInfo ==
    \E s \in Unreads :
    LET h == Has(s)
        observed == currentGeneration(h)
        g == IF observed > selectionGeneration /\ generationCoversAll(h, observed)
             THEN observed ELSE selectionGeneration
        full == rememberFullGeneration(h, g)
        d == IF ~bootstrap /\ g > 0 /\ g = full.gen
             THEN fullGenerationDecisionHistory(h, full) ELSE h
    IN
    /\ worker.pc = "update"
    /\ Unreads = {s}
    /\ worker' = IdleWorker
    /\ snapshot' = Unread
    /\ selectionGeneration' = g
    /\ lastFull' = full
    /\ \E decision \in IF bootstrap THEN StartupDecisions(h, g)
                       ELSE ConfirmedDecisions(h, d, g, full) :
         LET pending == Pending(d, g, decision.active) IN
         /\ active' = decision.active
         /\ bootstrap' = decision.bootstrap
         /\ failedActiveRefreshPending' = pending
         /\ IF pending /\ ~failedActiveRefreshPending THEN Request("worker")
            ELSE UNCHANGED <<fullCycleRequested, asking>>
    /\ UNCHANGED <<srv, cycleSeq, cycleRunning, loop, cyc, tests, manualVars, eventVars,
                   lastHandled>>

-----------------------------------------------------------------------------
BalancerStep ==
    SubscribeGroup \/ Receive \/ OutboundsRankingHistory \/ updateOutboundsInfo

Next ==
    \/ MonitoringStep /\ UNCHANGED balancerVars
    \/ BalancerStep

Spec == Init /\ [][Next]_vars

-----------------------------------------------------------------------------
(* Every variable stays within its type; at most one goroutine of           *)
(* startCycleOnce runs a cycle, and cycleRunning is set exactly then.       *)
TypeOK ==
    /\ srv \in [Servers -> ServerStates]
    /\ cycleSeq \in Generations
    /\ fullCycleRequested \in BOOLEAN
    /\ loop \in [Loops -> Running \cup {"off", "retest", "reacquire"}]
    /\ cycleRunning = (\E l \in Loops : loop[l] \in Running)
    /\ \A l, k \in Loops : loop[l] \in Running /\ loop[k] \in Running => l = k
    /\ asking \subseteq Requesters
    /\ tests \subseteq Tasks
    /\ manualRefreshAt \in BOOLEAN
    /\ observer.events # {} => observer.open
    /\ selectionGeneration \in Generations
    /\ lastFull.gen \in 0..selectionGeneration
    /\ active \in Servers \cup {None}
    /\ bootstrap \/ active # None

(* A requested full cycle is not lost: whoever asked is about to try to     *)
(* start a cycle, or a cycle has yet to take the request, or the one that   *)
(* ends has yet to look again (startCycleOnce's loop).                      *)
RequestNotLost ==
    fullCycleRequested =>
        \/ asking # {}
        \/ \E l \in Loops : loop[l] \in Running \cup {"retest", "reacquire"}

Quiet ==
    /\ \A l \in Loops : loop[l] = "off"
    /\ asking = {} /\ tests = {}
    /\ man.pc = "off" /\ ~notified
    /\ observer.events = {}
    /\ worker.pc = "idle"

(* When nothing is left to be done, a settled cohort whose last batch was   *)
(* published has been ranked and, if a server of it works, one is selected: *)
(* no event that was dropped, no late subscription and no result that came  *)
(* while the worker was reading hides it.  Two cohorts are left aside: one  *)
(* that is older than the selection's, which a late cycle can leave behind, *)
(* and one whose events were all dropped for an unread event of an older    *)
(* cohort, which is ranked but waits for the next event to be selected from.*)
QuietMeansRanked ==
    LET h == [s \in Servers |-> Ranking(srv[s])]
        g == currentGeneration(h)
    IN  /\ Quiet
        /\ generationSettled(h, g)
        /\ completed.gen = g /\ completed.batch * Workers >= Cardinality(Servers)
        /\ lastHandled.gen \in {0, g}
        /\ g >= selectionGeneration
        => /\ lastFull.gen = g
           /\ Eligible(h, g) # {} => active # None /\ ~bootstrap

(* A server becomes active only on a success that was just read, of the     *)
(* generation the selection is at, or on one of the last settled cohort     *)
(* that what was just read does not contradict.                             *)
Promotes(v, g) == v.status = "success" /\ v.ready /\ v.gen = g
Ranked(s) == IF snapshot[s] = None THEN Ranking(srv[s]) ELSE snapshot[s]
SwitchIsVerified ==
    [][active' # active =>
         \/ Promotes(Ranked(active'), selectionGeneration')
         \/ /\ lastFull'.gen > 0
            /\ Promotes(lastFull'.history[active'], lastFull'.gen)
            /\ \/ Ranked(active').status = "success"
               \/ Ranked(active').gen < lastFull'.gen
      ]_vars
=============================================================================
