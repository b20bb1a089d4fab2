# ZEON: a TLA+ verification of the VPN session lifecycle

ZEON is a VPN and proxy client: a Flutter application (`src/lib`), Android and desktop
shells around it, and a Go core (`src/hiddify-core`) built on a fork of sing-box. This
directory keeps TLA+ models of the code that decides *when a VPN session exists, who owns
its resources, and which server it uses*, the TLC runs that check them, and TLAPS proofs.

Contents: [inventory](#inventory), [modules](#the-modules), [runs](#the-runs),
[fairness](#fairness), [proofs](#the-proofs), [findings](#findings),
[what is left out](#what-is-not-modelled), [plan](#plan).

## Inventory

| Part | State it keeps | Operations | Talks to | Hard behaviour | Correct when |
|---|---|---|---|---|---|
| Generations and lifecycle intents (`bg/VpnSessionCoordinator.kt`, `bg/VpnLifecycleIntentCoordinator.kt`) | a process-wide counter; Stop fence, pending reload, same-generation cleanup under one lock | accept, next, nextAfter; reserve/commit of Stop, Start, reload; destroyOwner | everybody | the counter moves without the lock; two critical sections of a reload run off the main looper | a Stop is terminal; a destroyed service gets no session; a reload never beats a Connect |
| VPN service (`bg/BoxService.kt`, `bg/ActiveSession.kt`, `bg/VpnSessionSnapshot.kt`) | active session, LiveData status, published snapshot, receiver, terminal Stop | onStartCommand, startService, confirmCoreStarted, stopService, stopAndAlert, onDestroy, probes | binder, method channel, Go core | coroutines of three scopes and the main looper; posts, broadcasts and probes in flight; a service destroyed half way | DISCONNECTED and CONNECTED are true; every Stop ends |
| TUN ownership (`bg/TunDescriptorOwner.kt`, `bg/TunCallbackOwnership.kt`) | descriptor per service, process-wide identity set | open, close, awaitSettled | `VPNService.openTun`, called by the core | native callback against a bounded close | one descriptor at a time, and it has a closer |
| Core ownership (`bg/CoreProcessOwnerCoordinator.kt`, `bg/CoreShutdownDispatcher.kt`, `bg/CoreStartupGate.kt`, `bg/CoreNativeOperationCoordinator.kt`) | owner, close job, mutex | tryAcquire, close, release, awaitReady | Go core, Flutter's Setup | a close that outlives its limit; waiting under a mutex | a core is never set up over another one |
| Start permissions (`bg/StartPermissionRequestCoordinator.kt`, `MainActivity.kt`) | pending and queued request | begin, complete, cancelAll | system dialogs, Flutter | superseded dialogs, merged callbacks, permissions that change | each callback is answered once |
| Binder and event stream (`bg/ServiceBinder.kt`, `bg/ServiceConnection.kt`, `EventHandler.kt`) | callbacks, LiveData observers | register, broadcast, reconnect | activity, Flutter | coalesced values | no value under another generation |
| Default network monitor (`bg/DefaultNetworkMonitor.kt`, `bg/DefaultNetworkListener.kt`) | actor of listeners | start, stop, clearListener | core | late callbacks | no callback after stop |
| Smart Active balancer (`protocol/group/balancer`) | selected server, evidence per server, probe schedule | full update, active probe, switch | monitoring, connections | two evidence streams; results after a switch | no switch on stale evidence |
| Outbound monitoring (`common/monitoring`) | check generation, task queue, histories | cycle, manual refresh, probe, publish | balancer | results of old generations; slow subscribers | old results never overwrite new ones |
| hcore (`v2/hcore`) | core state, started service, two locks | Start, Stop, Restart | gRPC, box | Stop against a running start | STOPPED means nothing runs |
| Flutter bridge (`lib/zeoncore`, `lib/features/connection`) | Dart generation, last snapshot, operation queue | connect, disconnect, retry | method channel, gRPC | retries and timeouts across an asynchronous channel | the screen follows the newest snapshot |

Everything else (user interface, configuration builder, profile parsing, other platforms,
vendored code) is listed in `PROJECT.json` with the reason it is not modelled; the hazards of
the code are listed there too, each at its line, with the properties that cover it.

How the parts interact: Flutter, the tile, the notification or the boot receiver asks for a
generation; the permission coordinator lets a start intent through; `BoxService` commits a
session under the lifecycle lock and runs `startService` in that session's scope, which takes
the core and lets the core call `openTun`; `MarkCoreStarted` confirms. A Stop reserves a
generation above every other, is dispatched directly and by broadcast, closes the session step
by step, and `DISCONNECTED` is published once nobody owns a session, a TUN or the core. The
generation is the name of a session in every module.

## The modules

| Module | Models |
|---|---|
| `VpnLifecycleIntent` (+ `MC_VpnLifecycleIntent`) | the generation counter and the lifecycle lock, for several services |
| `VpnLifecycleIntentProofs` | its theorems |
| `SessionResource` | what a resource of the process promises to sessions that take turns with it: claim, use, order |
| `TunOwnership` | descriptor ownership, the openTun callback, the bounded session close |
| `TunOwnershipProofs` | its theorems |
| `CoreOwnership` | core ownership, native mutex, close job, start pipeline as far as the core, Setup |
| `CoreOwnershipProofs` | its theorems |
| `StartPermission` | permission coordinator with its callers |
| `StartPermissionProofs` | its theorems |
| `SessionTermination` | one service from start intent to terminal state, snapshot, status, Stop, failures, destruction |
| `SessionTerminationProofs` | its theorems |
| `CoreCalls` | what the callers of the Go core are promised: Start, Stop and Restart each happen at one moment |
| `HcoreLifecycle` | the Go core's StartService, Stop and Restart step by step, the status and its listener; implements `CoreCalls` |
| `HcoreProofs` | its theorems, the refinement included |
| `OutboundMonitoring` | the scheduler of server checks: requests, cycles, batches, tests, manual refreshes, events |
| `SmartActive` (+ `MC_SmartActive`) | the balancer's worker and its decisions, on top of `OutboundMonitoring` |
| `SmartActiveProofs`, `RankingProofs` | the theorems of both; `RankingProofs` has `QuietMeansRanked` |

Conventions. An action or operator has the name of the function it translates, and the map in
`PROJECT.json` gives its lines; capitalised names are steps of a longer function or helpers. An
operator whose comment says *mutant* is a deliberately wrong version of the definition that
follows it and is used by no specification: replacing the definition by it must make the named
property fail.

What is one step. Code on Android's main looper runs to completion: the method handler's
scope, `stopService`, `onStartCommand`, `commitStart`, `onDestroy` and every posted runnable
are single steps. Off the main looper, tests and effects that are not under one lock are steps
of their own: `serviceReload0`, `startServiceAfterPermissions`, `startService`, `stopAndAlert`, `closeSession`, the core's callbacks,
`confirmCoreStarted`. Where a module merges such a test with its effect all the same, the paragraph on the module or the list
of [what is left out](#what-is-not-modelled) says so and why no property depends on it.

**VpnLifecycleIntent.** `sequence` is `VpnSessionCoordinator.sequence`;
`latestStopGeneration`, `pendingReload`, `replacementCleanup` are the fields under the lock;
`activeSession`, `closing`, `ownerDestroyed` belong to each service. A reload is five stages:
requested (its stale `reloadAllowed`), checked (inside the lock), reserved, committing (inside
the lock), idle. `AcceptGeneration` is every call of `accept` outside the lock.
`acknowledgedStop` is a history variable. A refused request (REJECTED, ALREADY_ACCEPTED, a
stale Stop) changes nothing and is a stuttering step.

**TunOwnership.** A session runs through committed, running, the core, TUN and network steps
of its close; a callback through the check before `establish`, the descriptor, the repeated
check, the protect self-check, and `open` under the lock. Every close step may exceed its limit;
`overdue` is a history variable that says one did. `Mobile.close` waits for the core's running start, and so for the
callback it is in: that is how `closeCoreStep` is external. The string identity is the
generation: the two are in one-to-one correspondence as long as `OneTunPerGeneration` holds.

**CoreOwnership.** `start[g]` and `close[g]` are the program counters of `startService` and
`closeSession`; `core` is what the native process runs. A wait with a time limit may give up
whenever it has to wait. A session is begun when no service has one, which is what
`closeForProcessReplacement` and the replacement path of `startAcceptedGeneration` wait for.

**StartPermission.** `pending`, `queued`, `staleDelivered` as in the coordinator;
`dialogs` counts dialogs on the screen; `answers` and `launches` are history. The operating
system's permissions and the generation change at any moment. Launching a dialog may throw, and
`launchFailed` remembers that it did; on the path of a dialog *result* nothing catches the
exception and the process ends, so only the path through `requestStartPermissions` is modelled.
`begin` and the callbacks it invokes are one step. The answer outside VPN mode is the separate
outcome `NotNeeded`, because it is given without asking for the generation. `startServiceAfterPermissions`
runs off the main looper in three steps: the granted callback's test of the generation (`launch.stage = "granted"`), the
assignment of `serviceLaunchGeneration` (`"remembered"`), and the launch, which is for the generation
`VpnSessionCoordinator.accept` returns: the current one, a newer one if the counter has moved since the test.
`lifted` is the history of generations that were launched that way, by a request of an older one and without being
remembered. `LaunchedOnce` therefore says: once by its own requests, and once more only if it was lifted to.

**SessionTermination.** VPN mode (`tunnelRequired`). One service at a time; one that was
destroyed and is still closing its session stays in `destroyJobs`. `held` merges the registers
of TunOwnership and CoreOwnership. `startService`, `stopAndAlert` and `confirmCoreStarted` have a state between every test
and the effect that follows it: the session test and the status, the status and STARTING_CORE, the test
after the waits and `tryAcquire`, the endpoint's answer and the phase it is published with, the test of `stopAndAlert`, its FAILED, and the
close of *whatever session is active by then*. `late` are the generations that took the core when their session's
close had begun, `leaked` those of them that came after the close's test of ownership, which nobody releases;
`struck` is the history of sessions closed by the failure of an older one. Four merges remain: `publishStatus` tests and posts in one step (what
a posted status changes is tested again or overwritten by every Stop); `openTun` tests, opens and publishes in one step (the core
stays owned while the callback runs, so no DISCONNECTED can come between); the phase is read when the native mutex is left; and
`confirmCoreStarted`'s evaluation of the evidence is one step with the first test of the failure that follows a rejection. The snapshot keeps generation, phase, whether the
requested action is Stop, and which evidence is there. The deadline of the fallback probe is nondeterministic, but the looper's
order is kept: `fallbackDelay` waits for what was posted before the Stop. What Flutter sends is
restricted to what `core_interface_mobile.dart` sends, not by the Kotlin code: it confirms a generation it has not
stopped (`g > latestStopGeneration`), and its repeated Stop (`stopSameGeneration`) comes after the earlier broadcast was
delivered. Replacement Stops are in VpnLifecycleIntent.

**SessionResource.** The descriptor and the core are guarded by different code (a process-wide set
under a lock; an owner, a mutex and a close job), but promise the same, which this module says in four
actions: `Claim`, `Take`, `Close`, `Release`. One session uses the resource at a time; the claim names it
and outlasts the use, so that whoever finds nothing claimed finds nothing in use; and the resource goes to ever newer
generations, to each once. TunOwnership implements it with the process-wide set as `claimed`, the adopted descriptors
as `using` and the generations with an adoption as `served`; CoreOwnership with the recorded owner, the core's generation and the
history variable `setups`. A descriptor is claimed and taken in one step, the core is claimed first. The
order is what neither code tests in one place: the descriptor rests on the generation being tested under the
owner's lock, the core on its being tested again inside the mutex. That the resource is given back is not promised:
`tun_leak` and `core_leak` show otherwise. `OneTunPerGeneration` and `SetupAfterClose` are part of this promise; the
runs check the refinement in their place, and the proof modules state them as theorems of their own.

**CoreCalls and HcoreLifecycle.** `CoreCalls` has one step per call for its effect: a stop
leaves no instance behind, a start starts, fails, finds the core up or is cancelled. In
`HcoreLifecycle` `pc` is the place of each call in `start.go`, `stop.go`, `restart.go` and
`custom.go`; `lock` is `static.lock`, `startupCancel` the field of that name with `startupAccess`
around it (one step each), `cancelled` the contexts. `SetCoreStatus` is two steps, the
assignment and `Broadcaster.Publish`, because the listener may subscribe or read in between. Building the
configuration, the hooks and `NewService` may fail; a listener's channel holds one event.
A call is made once, so the instance it creates has its name. The refinement mapping lets the
abstract call happen when the code releases `static.lock`: until then `entry`, the core as it was
when the lock was taken, is what callers see. It is valid although a caller could read `CoreState` in
between, because an answer is only given after the release.

**OutboundMonitoring and SmartActive.** Every check carries a generation, allocated by
`cycleSeq`. A cycle collects its targets, resets them one by one, queues a batch, waits for it,
publishes it; a manual refresh does the same in goroutines of its own and may time out. `srv`
has, for each server, `CheckGeneration`, `URLTestStatus`, `CombinedReady` and the generation
queued. A result of another generation is ignored. The group's channel holds one event and drops
the next; the debounced notification repeats the last completed batch. The worker reads one server per
step, so resets and results come between its reads, and decides at the last one. Which
*eligible* server is best is left open: scores, delays, streaks of evidence, avoidance times and
the policy penalties choose among them in the code, and only a server whose `candidateStatus` is ok is ever chosen.
`lastFull` is the remembered cohort, from which confirmed decisions are made.

## The runs

All bounds are the constants of the `.cfg` files: `MaxGeneration` bounds allocated generations (in
SessionTermination a repeated Stop of the same generation counts as one; `MaxConnect` and `MaxStop` say how many of those are left to a
Connect and to the user's Stops), `MaxRevocations`
withdrawn permissions.

| Run | Configuration | Distinct states | Shows |
|---|---|---|---|
| `lifecycle` | 2 services, 5 generations, symmetry | about 100,000 | `IInv`, `StopIsTerminal`, `CleanupBeforeStart`, `ReloadBeyondStop`, `DestroyedOwnersHoldNothing`, `ReloadYieldsToConnect` |
| `tun` | 2 services, 3 generations | 250,704 | `ClosedInTime`, `ExclusiveTun`, `SettledMeansClosed`, the refinement `ImplementsSessionResource`, `CloseSettles` |
| `tun_leak` | the same | violation | see findings |
| `permission` | 3 requests, 3 generations, 1 revocation | about 455,000 | `LaunchedAnsweredOnce`, `NoCallbackLost`, `OneDialogOwned`, `LaunchedOnce`, `ResultsAreCurrent`, `EveryRequestAnswered` |
| `permission_twice` | the same | violation | see findings |
| `core` | 3 generations | 1.23 million | `CloseHitsOwnCore`, `CoreIsOwned`, `NoCloseDuringStart`, the refinement `ImplementsSessionResource`, `CloseJobEnds`, no deadlock |
| `core_leak` | 2 generations | violation | see findings |
| `termination` | 3 generations or repeated Stops, Connects and the user's Stops among the first 2 | 1,921,746 | `DisconnectedIsSettled`, `ConnectedHasSession`, `DisconnectedIsTerminal` |
| `termination_live` | 2 generations or repeated Stops, 1 Connect | 74,816 | `StopSettles` |
| `failed_start` | 1 generation | violation | see findings |
| `hcore` | a start, a stop, a restart, a listener | 334,429 | `StopPrevails`, `RunningIsReported`, `ListenerIsCurrent`, the refinement `ImplementsCoreCalls` with its liveness, no deadlock |
| `smart_active` | 2 servers, 2 goroutines, 2 generations, batches of 2, symmetry | 1.35 million | `RequestNotLost`, `QuietMeansRanked`, `SwitchIsVerified` |

`TunOwnership` numbers services in the order of their first sessions and `StartPermission` numbers
requests in the order in which they are made: that leaves out behaviours which differ only in names,
and unlike a symmetry set it is sound for liveness. A `.cfg` is run against the module itself, except
`lifecycle` and `smart_active`, whose MC modules add the symmetry sets. In `onDestroy` of
SessionTermination the fields of the destroyed service are cleared, because nothing reads them
afterwards.

Why the bounds are enough to be interesting: a reload needs a session (1), its own number (2),
a Connect that takes the same number or a Stop above it (3), and something after that (4, 5);
two services are enough for a descriptor or a session to pass from one to the other. Three
generations give an old, a middle and a new session in CoreOwnership and TunOwnership: one that is closing,
one that is overtaken, one that starts. In SessionTermination two generations give a session and its Stop, the Stop of the same
generation, or a session that replaces another, and the third is left to the Stop of a replacement that timed out
and to a destruction. With every test apart from its effect, three for everybody are tens
of millions of states; three with one Connect hold as well. The theorems are for every bound. Three permission requests are a dialog's owner, a queued one and one that replaces the queued one.
In `hcore` one call of each kind is
enough for every pair to overlap: a stop against a running start, either half of a restart
against both. `smart_active` has two generations, one older than the other: two cycles, or a
cycle and a manual refresh, which overlap and whose resets and results mix. Two goroutines are as many as can
compete for `cycleRunning`: one that is about to look at the request again, and one that was
started meanwhile. With batches of two a cohort is one batch; batches of one, where a cohort is
published in two parts, give 4.6 million states and also pass, but take longer than the
project's runs should.

Deadlock is checked in `core` and `hcore`. In the other runs the behaviour ends when the
generations, requests or the activity are used up, so a state without successor is not an
error.

## Fairness

*TunOwnership*: weak fairness of the close steps and of a callback that was entered. The close
runs in `NonCancellable` on a dispatcher of its own, and native calls return. Nothing makes a core
call `openTun`. *CoreOwnership*: weak fairness of the starts, of Setup and of the close
job. That is enough for the mutex: each start takes it once, and Setup cannot take it again while a
close job is running. *StartPermission*: posted coroutines run, and the system
delivers one result per dialog (a dismissed dialog is a negative result). *SessionTermination*:
posted work is run, a bounded close ends, a fallback probe runs until its deadline; strong
fairness of `fallbackDelay`, because a delayed post is run in its turn even though other work keeps
being posted. The native close is *not* fair there: `release` need not happen, and `StopSettles` holds
without it because the probe's deadline publishes FAILED. A direct dispatch of a Stop is fair of its
own, since each posted coroutine is run however many others are posted.
*HcoreLifecycle*: weak fairness of each call and of the publication. Nothing in a call waits but for
the lock, and every call takes it at most twice, so the others let go of it for good. The listener and the caller
that cancels owe nothing. *SmartActive* states no liveness: `QuietMeansRanked` says what must be true
whenever nothing is left to be done, which needs no fairness.

## The proofs

`VpnLifecycleIntentProofs` proves, for every set of services and every bound, with the two
assumptions `NoOwner \notin Owner` and `MaxGeneration \in Nat`:

- `Invariance`: the inductive invariant `IInv` (and from it `TypeCorrect`, `DestroyedOwners`,
  `ReloadYields`);
- `StopTerminal`, `CleanupFirst`, `ReloadAfterStop`: the three action properties.

None of the properties is inductive alone. `StopIsTerminal` needs, for a reload that commits after
its tests, that the fence did not move in between: `LockedReload` says a reload in a locked
stage holds the lock and is beyond the fence. `ReloadYieldsToConnect` must exclude a Connect
that got the reload's number: `ReservationsAreLive` and `BelowSequence` say a surviving
reservation is the newest thing the coordinator knows, so the commit of a Start of that number
has dropped it. `CleanupBeforeStart` on the reload path, which does not test the cleanup, follows
from the cleanup's generation being below the reservation's. `DestroyedOwnersHoldNothing` needs
that a committing reload still owns its reservation, which destruction withdraws.

Layout: lemmas about the allocators and `FenceAt`; one lemma per group of actions
(`AcceptPreserves`, `StopPreserves`, `ClosePreserves`, `CleanupPreserves`, `StartPreserves`,
`ReloadReservePreserves`, `ReloadCommitPreserves`, `DestroyPreserves`), each with one step per
conjunct the action can disturb; `NextIInv` joins them; `InstallingSteps` says that only
`commitStart` and `commitReload` install a session.

`HcoreProofs` proves, for any sets of starts, stops and restarts that do not share calls and do not contain
`None`: `TypesHold`, `StopPrevailsAlways`, `RunningIsReportedAlways`,
`ListenerIsCurrentAlways`, and `ImplementsCoreCallsSafely`, the safety half of the refinement. The
invariant speaks of the core at two moments. With the lock free, `StartedService`, `live` and the
status agree; with the lock held, `entry` did, and the holder's place tells what it has changed
since. It says, for instance, that at `place` the holder's own instance is live and not referred to yet. `StopPrevails` needs that
`startupCancel` names a start between its registration and its deferred function, and that
a start cancelled by a Stop has the deferred test still before it. One lemma per action preserves the
invariant; for the refinement, the steps under the lock are invisible, `UnlockTakesEffect`
and `StopUnlockTakesEffect` map the release to the abstract effect.

`SmartActiveProofs` proves, for any servers, goroutines, batch size and bound on generations (`Workers`
positive, `None` not a server): `TypesHold`, `RequestNotLostAlways` and
`SwitchIsVerifiedAlways`. `RequestNotLost` is inductive together with `OneCycle`, the mutual
exclusion of `cycleRunning`: whoever finds it set leaves the request to a goroutine that runs a cycle, and
that one either takes the request or looks again after it has cleared the flag. `SwitchIsVerified` needs the types and
that a server is ready only with a result; then a server that is chosen from the remembered
cohort is not vetoed by what was read, so what was read is a success or older.

`RankingProofs` proves `QuietMeansRankedAlways`, for any finite set of servers, any goroutines, batch size and bound. Its premise
joins two histories that do not wait for each other: the results of the servers and the batches that were published. One half of
the invariant (`CycleShape`, `ManualShape`, `Numbering`) counts batches: tests of a generation are
outstanding only while one of its batches is still to be published, so a cohort becomes settled *and* completely published only by a
publication, never by a late result, a reset, a queued test or a refresh that gives up. The other half (`RankedOrWillBe`) says that from
then on somebody will look: the worker has not subscribed, an event is unread, or the worker is reading and
has read nothing that has changed since; or it has looked. What the worker has read may be stale only while an event is unread.
That the group is finite is an assumption of `OutboundMonitoring`, which the batches need.

`CoreOwnershipProofs` proves, for any bound on generations: `TypesHold`, `CoreIsOwnedAlways`,
`NoCloseDuringStartAlways`, `SetupAfterCloseAlways`, `CloseHitsOwnCoreAlways`. A start tests the owner
long before it sets the core up, and a close tests it long before its job runs, so neither test says anything
by itself when it is used. `Exclusive` says who is inside the native mutex; `OwnerKept` that an owner whose session is
not cancelled keeps the core, since it can lose it only to the job of its own close; `JobBound` that a job belongs to
a session past its core step, which owns the core until that job releases it. With these the setup
finds no core but its own, and a job closes only its own. `CoreImplementsSessionResource` adds `Turns`: every session
that has had the core is at most the current one and never returns to the mutex, so a start that is
found current inside it is newer than all of them, and stays so until its setup because it holds the mutex.

`TunOwnershipProofs` proves, for any number of services and generations: `TypesHold`, `ExclusiveTunAlways`,
`SettledMeansClosedAlways`, `OneTunAlways`, `ClosedInTimeAlways`. The invariant `OneIdentity` is the argument:
a descriptor is adopted only while the process-wide set is empty, and the set names it until the last line of its
close. `HeldByItsOwner` excludes that an owner holds what is being closed; `OpenedOnce` needs that
`lastOpenedGeneration` of the owner has reached every adopted generation; `ClosedInTime` needs that a callback of a
close that keeps its limits is inside `openTun` only before the core step has ended (`CallbackInTime`).
`TunImplementsSessionResource` needs no more than that: with the set naming one generation at most, detaching is invisible,
closing the descriptor ends the use, and removing the identity releases the claim.

`StartPermissionProofs` proves, for any number of requests, generations and withdrawn permissions: `TypesHold`,
`LaunchedAnsweredOnceAlways`, `NoCallbackLostAlways`, `OneDialogOwnedAlways`, `LaunchedOnceAlways` and the action
property `ResultsAreCurrentAlways`. One statement about all operations of the coordinator, `Settles`, carries the
first two: what an operation answers is what the coordinator held or has just taken over, and holds no longer.
`OwnersShape` says that the owners of a dialog are of one generation and, once they were told Stale, of a past one, which
is why a result that arrives with the generation unchanged belongs to them. `LaunchedOnceAlways` covers the launch stages: what is
between its test and its launch is remembered or older than what is, and a launch for another generation than its own is in `lifted`.

`SessionTerminationProofs` proves, for any bound: `TypesHold`, `DisconnectedIsSettledAlways`,
`ConnectedHasSessionAlways` and the action property `DisconnectedIsTerminalAlways`. The tests before a publication are
made in other coroutines than those that change what they test, so nothing that was tested may be used later: the
invariant says what is still true at each place between a test and its effect. `Numbered`: the snapshot has reached every generation that ever had
a session, so that no old session is revived under a newer DISCONNECTED. `StartsOnce`: a start to come has not begun.
`SessionShape`: only the service's own session is open. `StopsFenced`: a generation of which a Stop is under way anywhere (reserved,
dispatched, broadcast, posted, probed, shown) is behind the Stop fence. `ConfirmShape`: a confirmation of the
current generation is `Backed`: its session is open, its start has been answered and it is beyond the fence, or it was struck.
`DisconnectedShape` and `ConnectedShape` are the two properties, of a snapshot of any generation.
Each of `QuietPreserves`, `ShowsPreserves`, `StopPreserves`, `AlertClosePreserves`, `ClosePreserves` and `BeginPreserves` treats
all actions of one kind; destruction stops a session that may have been stopped already, and has a proof of its own.

What the three say. `DisconnectedIsSettled`: under DISCONNECTED of the current generation there is no session, no TUN, and
no core except a `late` one; that exception is the race of finding 2.
`ConnectedHasSession`: under CONNECTED the session exists and accepts operations, unless it was `struck` (see the observations).
`DisconnectedIsTerminal`: a DISCONNECTED is taken back by a newer generation, by a repeated Stop, or by the one
write its own start had decided on before (`pendingWrites`), and no start decides on another one afterwards. So the overwriting
described under the observations happens at most once for each of those places, and never begins after the
DISCONNECTED.

These invariants were checked by TLC on the instances of the runs before they were proved. The bounds are assumed to be natural numbers, nothing else.

Every invariant, every action property and both `ImplementsSessionResource` of the runs are proved. Only model-checked: all liveness (`CloseSettles`, `CloseJobEnds`, `EveryRequestAnswered`,
`StopSettles`, the liveness half of `ImplementsCoreCalls`), because fairness and ENABLED are beyond
the proof system.

## Findings

1. `tun_leak`: `TunDescriptorOwner.open` does not ask whether the session is closing. When
   the core step of the close times out while the core is in `openTun`, the TUN step finds
   nothing and the callback then adopts a descriptor that nobody will close.
2. `core_leak`: `startService` tests its session and then calls `tryAcquire`; `closeSession`
   tests ownership in between and skips the only `release`. Later starts fail, and DISCONNECTED, if the close has not
   published it by then, cannot be published any more. A close that joins another's job drops its own in the same way.
3. `permission_twice`: when launching a dialog throws, the caller is answered while the
   coordinator still holds the request, which is answered again later.
4. `failed_start`: `stopAndAlert` called from `startService` cancels its own coroutine by
   closing the session, so the receiver, the alert, the status and `stopSelf` are never handled.

Three more disagreements have no run of their own. The properties name each as their exception, by a history variable,
and TLC shows it when the exception is denied, as an invariant of the configuration given:

- `late = {}` under DISCONNECTED (`termination`, 12 states): the Stop between the test (`BoxService.kt:553`) and
  `tryAcquire` (561) finds no owner, clears the session and publishes DISCONNECTED; the start then takes the core. DISCONNECTED of
  the current generation is shown with the core owned, although `VpnSessionSnapshotInstrumentedTest.kt:163-165` expects both to
  agree. This is finding 2, seen from the screen.
- `struck = {}` (`termination`, 11 states): `stopAndAlert` tests the generation (880), and closes whatever session is active (896). A Start that
  replaces the session in between has its own session closed by the failure of the old one, although the stabilization notes
  (`ZEON_VPN_STAGE2_1_LIFECYCLE_FIX_2026-07-29.md:81`) say `stopAndAlert()` does not do that.
- `lifted = {}` (`permission`, 5 states): `startServiceAfterPermissions` tests that its generation is current (`MainActivity.kt:90`) and launches the
  one `accept` returns (107). When the counter moves in between, a callback of the old generation starts a session under a newer one,
  a Stop's included, and that generation may be launched again by its own request, because it was not remembered. The same notes
  (line 149) say a stale permission callback does not continue the start.

Observations. The Stop of a start's own generation makes
`startService` report its cancellation as a failed start (`startFails`), so FAILED may appear between STOPPING
and DISCONNECTED. It may also appear after it: the session is tested at 880 and FAILED published at 890, without a lock, and `closeSession`
does not wait for the session's scope, so a Stop may be over in between. STARTING_CORE (526 to 531) and
WAITING_TUN (the endpoint's answer to 635) overwrite DISCONNECTED of their generation in the same way; `pendingWrites` names these places. An
endpoint probe that answers late can post CoreReady after that Stop, so that a repeated Stop goes from DISCONNECTED to STOPPING and back.

Observations in the Go core:

- A start that is cancelled after its last test (`start.go:175`) has its instance in place already; the
  deferred function (`start.go:116`) reports STOPPED and leaves it running, referred to by
  `StartedService`. A Stop goes on to close it; a caller that gave up does not, and the next Start
  overwrites the reference. `RunningIsReported` and `CoreCalls` name exactly this exception (`late`).
- A start that is cancelled *and* fails answers that it was cancelled, after it has closed an
  instance an earlier late cancellation left.
- The listener of the status is not told again of a status whose event was dropped; it stays behind
  until the next one (`missed`).
- An unread event of an older generation fills the group's channel, so that the last batch event
  of the new cohort and the debounced snapshot that is its backstop (`outbound_monitoring.go:2005`) are both
  dropped. The cohort is remembered when it is read, but a startup selects nothing from it until
  the next event.
- A manual refresh that times out after its last result leaves a settled cohort nobody is
  notified of (`outbound_monitoring.go:781`).
- `resetOutboundCheckState` does not compare generations: an older cycle that is still resetting
  takes servers back from a newer manual refresh (`outbound_monitoring.go:599`), whose results are then
  ignored, and the selection waits for a third generation.
- A full cycle skips a server whose test is queued or runs (`outbound_monitoring.go:2657`), although
  `RequestFullCycle` says it includes every leaf outbound.

The premise of `QuietMeansRanked` leaves the unread event, the refresh that timed out and the
older cycle aside; in every other case it holds.

## What is not modelled

Time (limits are nondeterministic), log events, notification contents, settings such as
`startedByUser`, stop sources other than replacement, proxy-only mode, the service's own start
of the core (`startCoreAfterStartingService`), re-ping and idle mode; two live services in
SessionTermination; reload in SessionTermination. In the Go core: panics turned into errors,
pausing, Setup and the gRPC server; the ticker's partial cycles, targeted retests of one server, a second
test address, runtime, UDP and IPv6 evidence, the cached history, several groups; the prober of the active server
with its overlay of results, what a switch does to open connections, and the arithmetic of scores. Route, DNS and package lists of the TUN
builder are data for the operating system.

Smaller abstractions of single definitions, none of which a property depends on:

- `CoreOwnership.Setup` (a start's setup) does not happen in a cancelled scope. The code may still call `Mobile.setup` after its test in a scope cancelled
  since, because `awaitSettled` returns without suspending when no close is active; the mutex is held all the time.
- `CoreOwnership.beginExplicitSession` waits until no session is attached; the code goes on after the join limit of 11.5 seconds.
- `VpnLifecycleIntent.BeginReload` takes one snapshot of session and generation, which the code reads at lines 721 and 730; a reload that
  closes another session than the one it tested is missing. What the properties say is decided in the locked stages.
- `TunOwnership.open` is one step although `accept` does not take the owner's lock, between `isCurrent` (68) and the adoption: core
  ownership keeps a newer session from coming that far meanwhile.
- `StartPermission.DialogResult` never combines a positive result with a permission that is missing at that moment.
- SessionTermination leaves out the receiver of `SERVICE_CORE_STARTED` (417-421), the other caller of `confirmCoreStarted`. The second
  `stopAndAlert` of a cancelled start (`startAlertCloses`) may repeat more often than in the code.
- `OutboundMonitoring.Collect` takes every free server. A cycle that `startCycleOnce` runs after its request was taken collects
  only stale ones, and one whose worker has not cleared `testing` yet is skipped. The path of a full queue is left out.
- `SmartActive.Eligible` is `candidateStatus` for a success; scores, policy and address family, which can reject one, are data here, so
  `QuietMeansRanked` is about servers whose `candidateStatus` is ok. `Receive` drops the expiry (30 s) of the manual-refresh mark.

The parts of the inventory that have no module
yet are in the plan.

## Plan

1. *Done*: VpnLifecycleIntent with proofs, TunOwnership, CoreOwnership, StartPermission,
   SessionTermination; CoreCalls and HcoreLifecycle with proofs and the refinement;
   OutboundMonitoring and SmartActive with proofs.
2. The prober of the active server (`active_monitor.go`, `smart_active_probe.go`, `active_probe.go`) on top of
   `SmartActive`: no switch on a probe of another selection, revision or session, at most one switch per confirmed
   failure; then targeted retests and the ticker's partial cycles in `OutboundMonitoring`.
3. `SessionBridge`: Dart generations, snapshot ordering and retries against an abstract Android side;
   `StatusDelivery`: binder and event stream.
4. Abstract specifications: *done* for the resources (SessionResource); left is a session lifecycle (idle, starting,
   connected, stopping, settled, with a terminal Stop) that SessionTermination implements.
5. Proofs: every invariant and action property of the runs is proved; the refinements are, too, up to liveness; what is left is the one of 4.
