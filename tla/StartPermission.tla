-------------------------- MODULE StartPermission ---------------------------
(***************************************************************************)
(* The permission dialogs before a VPN start: StartPermissionRequest-      *)
(* Coordinator and the part of MainActivity that feeds it, executes the    *)
(* dialog it asks for and launches the service on a grant.                 *)
(*                                                                         *)
(* One activity's lifetime.  All of this code runs on the main looper; the *)
(* generation counter and the operating system's permissions change at any *)
(* moment, also between the coordinator's answer and the dialog's launch,  *)
(* and between the test and the use of a generation.                       *)
(***************************************************************************)
EXTENDS Integers, Sequences

CONSTANTS MaxRequests,      \* bound on calls of PrepareVpn and Start
          MaxGeneration,    \* bound on generations
          MaxRevocations    \* bound on permissions withdrawn by the user or another VPN app

ASSUME PermissionBoundAssumption ==
  MaxRequests \in Nat /\ MaxGeneration \in Nat /\ MaxRevocations \in Nat

VARIABLES
  sequence,                 \* VpnSessionCoordinator.sequence
  request,                  \* request[r]: its generation (0: not made), startAfterGrant, progress
  pending,                  \* the requests the dialog on the screen answers, or NoPending
  queued,                   \* the newer request that waits for that dialog, or NoRequest
  action,                   \* the dialog executePermissionAction is about to launch
  launcher,                 \* the begin call that launches it, NoRequest for a result callback
  dialogs,                  \* dialogs[s]: dialogs of stage s on the screen
  osNotification, osVpn,    \* what the operating system grants at this moment
  revocations,              \* permissions withdrawn so far
  launch,                   \* startServiceAfterPermissions: how far it is, and for which generation
  serviceLaunchGeneration,  \* MainActivity.serviceLaunchGeneration
  launches,                 \* history: launches[g] counts service launches for g
  lifted,                   \* history: generations launched by a request of an older one
  answers,                  \* history: answers[r]: outcomes delivered to r's callback
  launchFailed,             \* history: launching a dialog has thrown
  alive                     \* FALSE after onDestroy

vars == <<sequence, request, pending, queued, action, launcher, dialogs, osNotification, osVpn,
          revocations, launch, serviceLaunchGeneration, launches, lifted, answers, launchFailed,
          alive>>
osVars == <<osNotification, osVpn, revocations>>
launchVars == <<serviceLaunchGeneration, launches, lifted>>

Request == 1 .. MaxRequests   \* numbered in the order in which they are made
NoRequest == 0
Gen == 1 .. MaxGeneration
Stage == {"Notification", "Vpn"}
Outcome == {"Granted", "NotificationDenied", "VpnDenied", "Stale", "NotNeeded"}
Progress == {"unused", "posted", "begun"}

NoPending == [requests |-> {}, stage |-> "none", staleDelivered |-> FALSE]
NoLaunch == [stage |-> "none", generation |-> 0]
Unused == [generation |-> 0, startAfterGrant |-> FALSE, progress |-> "unused"]

(* The one type invariant of this module.                                  *)
TypeOK ==
  /\ sequence \in 0 .. MaxGeneration
  /\ request \in [Request -> [generation : 0 .. MaxGeneration, startAfterGrant : BOOLEAN,
                              progress : Progress]]
  /\ pending \in [requests : SUBSET Request, stage : Stage \cup {"none"}, staleDelivered : BOOLEAN]
  /\ queued \in Request \cup {NoRequest}
  /\ action \in Stage \cup {"none"}
  /\ launcher \in Request \cup {NoRequest}
  /\ dialogs \in [Stage -> Nat]
  /\ osNotification \in BOOLEAN /\ osVpn \in BOOLEAN
  /\ revocations \in 0 .. MaxRevocations
  /\ launch \in [stage : {"none", "granted", "remembered"}, generation : 0 .. MaxGeneration]
  /\ serviceLaunchGeneration \in 0 .. MaxGeneration
  /\ launches \in [Gen -> Nat]
  /\ lifted \subseteq Gen
  /\ \A r \in Request : \A i \in DOMAIN answers[r] : answers[r][i] \in Outcome
  /\ launchFailed \in BOOLEAN /\ alive \in BOOLEAN

Init ==
  /\ sequence = 0
  /\ request = [r \in Request |-> Unused]
  /\ pending = NoPending
  /\ queued = NoRequest
  /\ action = "none"
  /\ launcher = NoRequest
  /\ dialogs = [s \in Stage |-> 0]
  /\ osNotification \in BOOLEAN /\ osVpn \in BOOLEAN
  /\ revocations = 0
  /\ launch = NoLaunch
  /\ serviceLaunchGeneration = 0
  /\ launches = [g \in Gen |-> 0] /\ lifted = {}
  /\ answers = [r \in Request |-> <<>>]
  /\ launchFailed = FALSE /\ alive = TRUE

\* The next request to be made.
isNext(r) == request[r] = Unused /\ \A q \in 1 .. r - 1 : request[q] # Unused

MainLooperFree == alive /\ action = "none" /\ launch = NoLaunch

generationOf(rs) == request[CHOOSE r \in rs : TRUE].generation

-----------------------------------------------------------------------------
(* Callbacks *)

Reply(rs, outcome) == [r \in rs |-> outcome]

\* A call that invokes callbacks twice: first these, then those.
Then(these, those) ==
  [r \in DOMAIN these \cup DOMAIN those |->
     IF r \in DOMAIN these THEN these[r] ELSE those[r]]

\* Invoke the callbacks of the requests in DOMAIN replies.
Answer(replies) ==
  answers' = [r \in Request |-> IF r \in DOMAIN replies THEN Append(answers[r], replies[r])
                                ELSE answers[r]]

\* The Granted callbacks of Start requests go on to startServiceAfterPermissions.
GrantLaunch(rs, g) ==
  launch' = IF \E r \in rs : request'[r].startAfterGrant
            THEN [stage |-> "granted", generation |-> g] ELSE NoLaunch

-----------------------------------------------------------------------------
(* StartPermissionRequestCoordinator *)

missingStage ==
  IF ~osNotification THEN "Notification" ELSE IF ~osVpn THEN "Vpn" ELSE "none"

\* Ask for the first missing permission, or grant; `earlier` are the callbacks
\* this call has already made.
activate(rs, g, by, earlier) ==
  /\ action' = missingStage
  /\ launcher' = by
  /\ \/ /\ missingStage # "none"
        /\ pending' = [requests |-> rs, stage |-> missingStage, staleDelivered |-> FALSE]
        /\ Answer(earlier)
        /\ UNCHANGED launch
     \/ /\ missingStage = "none"
        /\ pending' = NoPending
        /\ Answer(Then(earlier, Reply(rs, "Granted")))
        /\ GrantLaunch(rs, g)

activateQueuedNever(earlier) ==   \* mutant: the queue is not served
  /\ pending' = NoPending
  /\ Answer(earlier)
  /\ UNCHANGED launch
  /\ action' = "none" /\ launcher' = NoRequest
  /\ UNCHANGED queued

\* After a dialog that no longer answers anybody: the queued request, if it is
\* still the current one, is evaluated against the permissions of this moment.
activateQueued(earlier) ==
  /\ queued' = NoRequest
  /\ \/ /\ queued # NoRequest
        /\ request[queued].generation = sequence
        /\ activate({queued}, sequence, NoRequest, earlier)
     \/ /\ queued # NoRequest => request[queued].generation # sequence
        /\ pending' = NoPending
        /\ Answer(Then(earlier, Reply({queued} \ {NoRequest}, "Stale")))
        /\ UNCHANGED launch
        /\ action' = "none" /\ launcher' = NoRequest

unnotifiedTwice == pending.requests   \* mutant: staleDelivered is not tested

\* The callbacks a superseded dialog owner still has to get.
unnotified == IF pending.staleDelivered THEN {} ELSE pending.requests

mergeReplaces(first, r) == {r}   \* mutant: the first callback is dropped

\* A duplicate request of the same generation: both callbacks are kept.
merge(first, r) == first \cup {r}

\* begin, given the request as it was recorded in this step.
begin(r, g) ==
  \/ /\ g # sequence'
     /\ Answer(Reply({r}, "Stale"))
     /\ UNCHANGED launch
     /\ UNCHANGED <<pending, queued, action, launcher>>
  \/ /\ g = sequence' /\ pending # NoPending /\ generationOf(pending.requests) = g
     /\ pending' = [pending EXCEPT !.requests = merge(@, r)]
     /\ Answer(<<>>)
     /\ UNCHANGED launch
     /\ UNCHANGED <<queued, action, launcher>>
  \/ /\ g = sequence' /\ pending # NoPending /\ generationOf(pending.requests) # g
     /\ pending' = [pending EXCEPT !.staleDelivered = TRUE]
     /\ queued' = r
     /\ Answer(Reply(unnotified \cup ({queued} \ {NoRequest}), "Stale"))
     /\ UNCHANGED launch
     /\ UNCHANGED <<action, launcher>>
  \/ /\ g = sequence' /\ pending = NoPending
     /\ activate({r}, g, r, <<>>)
     /\ UNCHANGED queued

supersededKnown == pending.staleDelivered   \* mutant: the generation is not tested

superseded == pending.staleDelivered \/ generationOf(pending.requests) # sequence

complete(stage, resultGranted) ==
  LET owners == pending.requests
      denial == IF stage = "Notification" THEN "NotificationDenied" ELSE "VpnDenied"
  IN  \/ /\ pending.stage # stage
         /\ Answer(<<>>)
         /\ UNCHANGED launch
         /\ action' = "none" /\ launcher' = NoRequest
         /\ UNCHANGED <<pending, queued>>
      \/ /\ pending.stage = stage /\ superseded
         /\ activateQueued(Reply(unnotified, "Stale"))
      \/ /\ pending.stage = stage /\ ~superseded /\ ~resultGranted
         /\ activateQueued(Reply(owners, denial))
      \/ /\ pending.stage = stage /\ ~superseded /\ resultGranted
         /\ activate(owners, sequence, NoRequest, <<>>)
         /\ UNCHANGED queued

\* cancelAll from onDestroy; the activity's dialogs and coroutines go with it.
cancelAll ==
  /\ MainLooperFree
  /\ alive' = FALSE
  /\ Answer(Reply(unnotified \cup ({queued} \ {NoRequest}), "Stale"))
  /\ pending' = NoPending
  /\ queued' = NoRequest
  /\ dialogs' = [s \in Stage |-> 0]
  /\ UNCHANGED <<sequence, request, action, launcher, osVars, launch, launchVars, launchFailed>>

-----------------------------------------------------------------------------
(* MainActivity and the PrepareVpn handler *)

\* PrepareVpn: only a request whose generation is not behind the counter is
\* posted to the activity; the others get an error reply.
PrepareVpn(r, g) ==
  /\ MainLooperFree
  /\ isNext(r)
  /\ g >= sequence
  /\ sequence' = g
  /\ request' = [request EXCEPT ![r] = [generation |-> g, startAfterGrant |-> FALSE,
                                        progress |-> "posted"]]
  /\ UNCHANGED <<pending, queued, action, launcher, dialogs, osVars, launch, launchVars, answers,
                 launchFailed, alive>>

\* The coroutine PrepareVpn posted.  Outside VPN mode it answers at once.
prepareVpn(r) ==
  /\ MainLooperFree
  /\ request[r].progress = "posted"
  /\ request' = [request EXCEPT ![r].progress = "begun"]
  /\ UNCHANGED sequence
  /\ \/ begin(r, request[r].generation)
     \/ /\ Answer(Reply({r}, "NotNeeded"))
        /\ UNCHANGED launch
        /\ UNCHANGED <<pending, queued, action, launcher>>
  /\ UNCHANGED <<dialogs, osVars, launchVars, launchFailed, alive>>

\* startService accepts a generation (0: allocate one) and begins at once.
startService(r, g) ==
  LET accepted == IF g = 0 THEN sequence + 1 ELSE IF g > sequence THEN g ELSE sequence
  IN  /\ MainLooperFree
      /\ isNext(r)
      /\ accepted <= MaxGeneration
      /\ sequence' = accepted
      /\ request' = [request EXCEPT ![r] = [generation |-> accepted, startAfterGrant |-> TRUE,
                                            progress |-> "begun"]]
      /\ begin(r, accepted)
      /\ UNCHANGED <<dialogs, osVars, launchVars, launchFailed, alive>>

executeWithoutInlineResult ==   \* mutant: consent found in between is not reported
  /\ alive
  /\ action # "none"
  /\ dialogs' = IF action = "Vpn" /\ osVpn THEN dialogs ELSE [dialogs EXCEPT ![action] = @ + 1]
  /\ action' = "none" /\ launcher' = NoRequest
  /\ UNCHANGED <<sequence, request, pending, queued, osVars, launch, launchVars, answers,
                 launchFailed, alive>>

\* executePermissionAction: VPN consent may have arrived since it was tested.
executePermissionAction ==
  /\ alive
  /\ action # "none"
  /\ UNCHANGED <<sequence, request, osVars, launchVars, launchFailed, alive>>
  /\ \/ /\ action = "Vpn" /\ osVpn
        /\ complete("Vpn", TRUE)
        /\ UNCHANGED dialogs
     \/ /\ action = "Vpn" => ~osVpn
        /\ dialogs' = [dialogs EXCEPT ![action] = @ + 1]
        /\ action' = "none" /\ launcher' = NoRequest
        /\ Answer(<<>>)
        /\ UNCHANGED launch
        /\ UNCHANGED <<pending, queued>>

\* The launch throws.  requestStartPermissions catches it and answers its own
\* caller; the coordinator is not told.
launchFails ==
  /\ alive
  /\ action # "none" /\ (action = "Vpn" => ~osVpn)
  /\ launcher # NoRequest
  /\ Answer(Reply({r \in {launcher} : ~request[r].startAfterGrant},
                  IF request[launcher].generation = sequence THEN "VpnDenied" ELSE "Stale"))
  /\ action' = "none" /\ launcher' = NoRequest
  /\ launchFailed' = TRUE
  /\ UNCHANGED <<sequence, request, pending, queued, dialogs, osVars, launch, launchVars, alive>>

resultAnyTime(stage) == TRUE   \* mutant: results are accepted without a dialog

resultDue(stage) == dialogs[stage] > 0

\* The system delivers the result of a dialog.  A positive result is reported
\* only while the permission is really there.
DialogResult(stage) ==
  LET granted == IF stage = "Notification" THEN osNotification ELSE osVpn
  IN  /\ MainLooperFree
      /\ resultDue(stage)
      /\ dialogs' = [dialogs EXCEPT ![stage] = @ - 1]
      /\ UNCHANGED <<sequence, request, osVars, launchVars, launchFailed, alive>>
      /\ \E resultGranted \in {FALSE, granted} : complete(stage, resultGranted)

mayLaunchAgain(g) == g = sequence   \* mutant: the last launched generation is not tested

mayLaunch(g) == g = sequence /\ serviceLaunchGeneration # g

\* The Granted callback of a Start request: once per generation, and only for
\* the generation that is still current.
startServiceAfterPermissions ==
  /\ alive
  /\ launch.stage = "granted"
  /\ \/ /\ mayLaunch(launch.generation)
        /\ serviceLaunchGeneration' = launch.generation
        /\ launch' = [launch EXCEPT !.stage = "remembered"]
     \/ /\ ~mayLaunch(launch.generation)
        /\ launch' = NoLaunch
        /\ UNCHANGED serviceLaunchGeneration
  /\ UNCHANGED <<sequence, request, pending, queued, action, launcher, dialogs, osVars, launches,
                 lifted, answers, launchFailed, alive>>

\* The service is launched for the generation the counter accepts: a newer one,
\* when the counter has moved on since the test.
acceptLaunch ==
  /\ alive
  /\ launch.stage = "remembered"
  /\ launches' = [launches EXCEPT ![sequence] = @ + 1]
  /\ lifted' = lifted \cup ({sequence} \ {launch.generation})
  /\ launch' = NoLaunch
  /\ UNCHANGED <<sequence, request, pending, queued, action, launcher, dialogs, osVars,
                 serviceLaunchGeneration, answers, launchFailed, alive>>

-----------------------------------------------------------------------------
(* The environment *)

\* A Stop, also one of another thread, a generation update from Flutter: the
\* counter moves on.
Supersede ==
  /\ alive
  /\ sequence < MaxGeneration
  /\ sequence' = sequence + 1
  /\ UNCHANGED <<request, pending, queued, action, launcher, dialogs, osVars,
                 launch, launchVars, answers, launchFailed, alive>>

\* The user grants a permission, in the dialog or in the system's settings.
GrantPermission ==
  /\ alive
  /\ \/ ~osNotification /\ osNotification' = TRUE /\ UNCHANGED osVpn
     \/ ~osVpn /\ osVpn' = TRUE /\ UNCHANGED osNotification
  /\ UNCHANGED <<sequence, request, pending, queued, action, launcher, dialogs, revocations,
                 launch, launchVars, answers, launchFailed, alive>>

\* The user withdraws one, or another VPN application takes the consent over.
RevokePermission ==
  /\ alive
  /\ revocations < MaxRevocations
  /\ revocations' = revocations + 1
  /\ \/ osNotification /\ osNotification' = FALSE /\ UNCHANGED osVpn
     \/ osVpn /\ osVpn' = FALSE /\ UNCHANGED osNotification
  /\ UNCHANGED <<sequence, request, pending, queued, action, launcher, dialogs,
                 launch, launchVars, answers, launchFailed, alive>>

Next ==
  \/ \E r \in Request :
       \/ prepareVpn(r)
       \/ \E g \in Gen : PrepareVpn(r, g)
       \/ \E g \in 0 .. MaxGeneration : startService(r, g)
  \/ executePermissionAction
  \/ launchFails
  \/ startServiceAfterPermissions
  \/ acceptLaunch
  \/ \E s \in Stage : DialogResult(s)
  \/ cancelAll
  \/ Supersede
  \/ GrantPermission
  \/ RevokePermission

\* Posted work runs, and the system delivers one result per dialog it shows (a
\* dismissed dialog is a negative result).
Fairness ==
  /\ \A r \in Request : WF_vars(prepareVpn(r))
  /\ WF_vars(executePermissionAction)
  /\ WF_vars(startServiceAfterPermissions \/ acceptLaunch)
  /\ \A s \in Stage : WF_vars(DialogResult(s))

Spec == Init /\ [][Next]_vars /\ Fairness

-----------------------------------------------------------------------------
(* Properties *)

\* No callback is invoked twice, through merged duplicates, the replaced owner
\* of a dialog, the queue and onDestroy: each one completes a Flutter method
\* call, which may be completed only once.
AnsweredOnce == \A r \in Request : Len(answers[r]) <= 1

\* The same as long as launching a dialog does not throw.
LaunchedAnsweredOnce == ~launchFailed => AnsweredOnce

\* No callback is dropped: a request that reached the coordinator and has no
\* answer is still held by the dialog on the screen or by the queue.
NoCallbackLost ==
  \A r \in Request :
    request[r].progress = "begun" /\ answers[r] = <<>> =>
      r = queued \/ (r \in pending.requests /\ ~pending.staleDelivered)

\* The coordinator waits for exactly the dialog that is on the screen: never for
\* one that was not shown, unless its launch has thrown, and never with two of
\* them up.
OneDialogOwned ==
  alive /\ action = "none" /\ ~launchFailed =>
    \A s \in Stage : dialogs[s] = IF pending.stage = s THEN 1 ELSE 0

\* The service is launched at most once per generation by that generation's own
\* requests, although the activity only remembers the last generation it took a
\* request of, and at most once more by an older request, whose launch the counter
\* has lifted to it.
LaunchedOnce == \A g \in Gen : launches[g] <= IF g \in lifted THEN 2 ELSE 1

\* The result of a dialog reaches only requests of the generation that is
\* current when it arrives; everybody else is told Stale.
ResultsAreCurrent ==
  [][\A r \in Request :
       answers'[r] # answers[r] /\ answers'[r][Len(answers'[r])] \notin {"Stale", "NotNeeded"}
         => request'[r].generation = sequence']_vars

\* Every request that reached the coordinator is answered, or the activity goes
\* away: no request stays queued behind a dialog that was already answered.  A
\* dialog whose launch has thrown is never answered.
EveryRequestAnswered ==
  \A r \in Request :
    (request[r].progress = "begun") ~> (answers[r] # <<>> \/ ~alive \/ launchFailed)
=============================================================================
