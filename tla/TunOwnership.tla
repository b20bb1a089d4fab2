---------------------------- MODULE TunOwnership ----------------------------
(***************************************************************************)
(* The TUN descriptor: TunDescriptorOwner (one per service instance, with  *)
(* a process-wide set of owned identities), the native openTun callback    *)
(* that hands a descriptor over, and ActiveSession.close that takes it     *)
(* away.                                                                   *)
(*                                                                         *)
(* A session is named by its generation.  Its close runs bounded steps in  *)
(* a fixed order; a step that exceeds its bound keeps running while the    *)
(* close goes on to the next one (overdue).                                *)
(***************************************************************************)
EXTENDS Integers, FiniteSets

CONSTANTS MaxOwners,        \* bound on BoxService instances
          MaxGeneration     \* bound on generations

ASSUME BoundAssumption == MaxOwners \in Nat /\ MaxGeneration \in Nat

VARIABLES
  sequence,              \* VpnSessionCoordinator.sequence
  ownerOf,               \* ownerOf[g]: the service that session g belongs to
  active,                \* active[o]: generation of o's activeSession, 0 for null
  session,               \* session[g]: how far session g's start or close is
  owned,                 \* owned[o]: generation of the descriptor o owns, 0 for null
  closingGeneration,     \* closingGeneration[o]
  lastOpenedGeneration,  \* lastOpenedGeneration[o]
  processOwned,          \* processOwnedIdentities, named by their generation
  callback,              \* callback[g]: the openTun callback of session g's core
  tunClose,              \* tunClose[g]: the tun step of session g's close
  adoptions,             \* history: adoptions[g] counts descriptors adopted for g
  overdue                \* history: a close step has exceeded its time limit

vars == <<sequence, ownerOf, active, session, owned, closingGeneration,
          lastOpenedGeneration, processOwned, callback, tunClose, adoptions, overdue>>
tunVars == <<owned, closingGeneration, lastOpenedGeneration, processOwned, adoptions>>

Gen == 1 .. MaxGeneration

\* The services, one TunDescriptorOwner each, numbered in the order of their
\* first sessions.
Owner == 1 .. MaxOwners
NoOwner == 0

SessionStage == {"none", "committed", "running", "closeCore", "closeTun", "closeNetwork", "closed"}
CallbackStage == {"idle", "required", "established", "accepted", "validated"}
TunCloseStage == {"idle", "detached", "descriptorClosed", "cleared"}

(* Every stage, owner and generation keeps its type.                       *)
TypeOK ==
  /\ sequence \in 0 .. MaxGeneration
  /\ ownerOf \in [Gen -> Owner \cup {NoOwner}]
  /\ active \in [Owner -> 0 .. MaxGeneration]
  /\ session \in [Gen -> SessionStage]
  /\ owned \in [Owner -> 0 .. MaxGeneration]
  /\ closingGeneration \in [Owner -> 0 .. MaxGeneration]
  /\ lastOpenedGeneration \in [Owner -> 0 .. MaxGeneration]
  /\ processOwned \subseteq Gen
  /\ callback \in [Gen -> CallbackStage]
  /\ tunClose \in [Gen -> TunCloseStage]
  /\ adoptions \in [Gen -> Nat]
  /\ overdue \in BOOLEAN

Init ==
  /\ sequence = 0
  /\ ownerOf = [g \in Gen |-> NoOwner]
  /\ active = [o \in Owner |-> 0]
  /\ session = [g \in Gen |-> "none"]
  /\ owned = [o \in Owner |-> 0]
  /\ closingGeneration = [o \in Owner |-> 0]
  /\ lastOpenedGeneration = [o \in Owner |-> 0]
  /\ processOwned = {}
  /\ callback = [g \in Gen |-> "idle"]
  /\ tunClose = [g \in Gen |-> "idle"]
  /\ adoptions = [g \in Gen |-> 0]
  /\ overdue = FALSE

isCurrent(g) == g > 0 /\ g = sequence

acceptsOperations(g) == session[g] \in {"committed", "running"}

hasOwnership(o) == owned[o] # 0 \/ closingGeneration[o] # 0

hasOtherOwnership == Cardinality(processOwned) > 1   \* mutant: off by one

hasProcessWideOwnership == processOwned # {}

identityBeforeIncrement(g) == g - 1   \* mutant: getAndIncrement for incrementAndGet

\* The process-wide name of the descriptor opened for generation g.
identity(g) == g

-----------------------------------------------------------------------------
(* Sessions *)

\* A generation is allocated: a Connect that will start a session, or a Stop, a
\* permission request that is later denied, a generation update from Flutter.
accept ==
  /\ sequence < MaxGeneration
  /\ sequence' = sequence + 1
  /\ UNCHANGED <<ownerOf, active, session, tunVars, callback, tunClose, overdue>>

commitSession(o) ==
  /\ sequence > 0
  /\ session[sequence] = "none"
  /\ ~hasOwnership(o)
  /\ ownerOf' = [ownerOf EXCEPT ![sequence] = o]
  /\ active' = [active EXCEPT ![o] = sequence]
  /\ session' = [session EXCEPT ![sequence] = "committed"]
  /\ UNCHANGED <<sequence, tunVars, callback, tunClose>>

\* startAcceptedGeneration: the owner has no session and its own TUN settled.
beginExplicitSession(o) ==
  /\ active[o] = 0
  /\ \A p \in 1 .. o - 1 : \E g \in Gen : ownerOf[g] = p
  /\ commitSession(o)
  /\ UNCHANGED overdue

\* serviceReload0 installs the new session once the close of the previous one
\* returned, which it does even if its network step has yet to clear it.
commitReload(o) ==
  /\ overdue' = TRUE
  /\ active[o] # 0
  /\ session[active[o]] = "closeNetwork"
  /\ commitSession(o)

\* startService: the core is set up only after awaitProcessSettled, and only
\* for the current generation; otherwise the session is closed (StopAndAlert).
startCore(g) ==
  /\ session[g] = "committed"
  /\ isCurrent(g)
  /\ ~hasProcessWideOwnership
  /\ session' = [session EXCEPT ![g] = "running"]
  /\ UNCHANGED <<sequence, ownerOf, active, tunVars, callback, tunClose, overdue>>

\* ActiveSession.close, first CAS: a stop, a failed start, a superseding start.
closeSession(g) ==
  /\ acceptsOperations(g)
  /\ session' = [session EXCEPT ![g] = "closeCore"]
  /\ UNCHANGED <<sequence, ownerOf, active, tunVars, callback, tunClose, overdue>>

closeCoreWithoutWait(g) ==   \* mutant: the core's callback is not waited for
  /\ session[g] = "closeCore"
  /\ session' = [session EXCEPT ![g] = "closeTun"]
  /\ UNCHANGED <<sequence, ownerOf, active, tunVars, callback, tunClose, overdue>>

\* The core step: Mobile.close waits for the core's running start, and with it
\* for the callback the core is in, unless the step's time limit passes first.
closeCoreStep(g) ==
  /\ session[g] = "closeCore"
  /\ overdue' = (overdue \/ callback[g] # "idle")
  /\ session' = [session EXCEPT ![g] = "closeTun"]
  /\ UNCHANGED <<sequence, ownerOf, active, tunVars, callback, tunClose>>

\* The tun step, TunDescriptorOwner.close up to the end of its first critical
\* section; nothing to do when this generation owns no descriptor.
closeTunStep(g) ==
  LET o == ownerOf[g] IN
  /\ session[g] = "closeTun"
  /\ session' = [session EXCEPT ![g] = "closeNetwork"]
  /\ \/ /\ owned[o] = g
        /\ owned' = [owned EXCEPT ![o] = 0]
        /\ closingGeneration' = [closingGeneration EXCEPT ![o] = g]
        /\ tunClose' = [tunClose EXCEPT ![g] = "detached"]
     \/ /\ owned[o] # g
        /\ UNCHANGED <<owned, closingGeneration, tunClose>>
  /\ UNCHANGED <<sequence, ownerOf, active, lastOpenedGeneration, processOwned, adoptions, callback, overdue>>

CloseForgottenDescriptor(g) ==   \* mutant: the identity goes before the descriptor is closed
  /\ tunClose[g] = "detached"
  /\ processOwned' = processOwned \ {identity(g)}
  /\ tunClose' = tunClose
  /\ UNCHANGED <<sequence, ownerOf, active, session, owned, closingGeneration,
                 lastOpenedGeneration, adoptions, callback, overdue>>

\* The rest of TunDescriptorOwner.close: the descriptor is closed outside the
\* lock, then the owner's fence is lifted, then the process-wide identity goes.
CloseDescriptor(g) ==
  /\ tunClose[g] = "detached"
  /\ tunClose' = [tunClose EXCEPT ![g] = "descriptorClosed"]
  /\ UNCHANGED <<sequence, ownerOf, active, session, tunVars, callback, overdue>>

ClearClosing(g) ==
  LET o == ownerOf[g] IN
  /\ tunClose[g] = "descriptorClosed"
  /\ tunClose' = [tunClose EXCEPT ![g] = "cleared"]
  /\ closingGeneration' = [closingGeneration EXCEPT ![o] = IF @ = g THEN 0 ELSE @]
  /\ UNCHANGED <<sequence, ownerOf, active, session, owned, lastOpenedGeneration,
                 processOwned, adoptions, callback, overdue>>

KeepIdentity(g) ==   \* mutant: the identity is never removed
  /\ tunClose[g] = "cleared"
  /\ tunClose' = [tunClose EXCEPT ![g] = "idle"]
  /\ UNCHANGED <<sequence, ownerOf, active, session, tunVars, callback, overdue>>

RemoveIdentity(g) ==
  /\ tunClose[g] = "cleared"
  /\ tunClose' = [tunClose EXCEPT ![g] = "idle"]
  /\ processOwned' = processOwned \ {identity(g)}
  /\ UNCHANGED <<sequence, ownerOf, active, session, owned, closingGeneration,
                 lastOpenedGeneration, adoptions, callback, overdue>>

\* The network step clears the owner's reference to exactly this session.
clearNetwork(g) ==
  LET o == ownerOf[g] IN
  /\ session[g] = "closeNetwork"
  /\ overdue' = (overdue \/ tunClose[g] # "idle")
  /\ session' = [session EXCEPT ![g] = "closed"]
  /\ active' = [active EXCEPT ![o] = IF @ = g THEN 0 ELSE @]
  /\ UNCHANGED <<sequence, ownerOf, tunVars, callback, tunClose>>

-----------------------------------------------------------------------------
(* The openTun callback of session g's core, on a native thread *)

\* TunCallbackOwnership.classify = ACCEPT
callbackAccepted(g) ==
  /\ g = sequence
  /\ active[ownerOf[g]] = g
  /\ acceptsOperations(g)

\* VPNService.openTun's own check, before Builder.establish.
openTun(g) ==
  /\ session[g] = "running"
  /\ callback[g] = "idle"
  /\ callbackAccepted(g)
  /\ callback' = [callback EXCEPT ![g] = "required"]
  /\ UNCHANGED <<sequence, ownerOf, active, session, tunVars, tunClose, overdue>>

\* Builder.establish returns a descriptor, or the permission is missing.
establish(g) ==
  /\ callback[g] = "required"
  /\ \E stage \in {"established", "idle"} : callback' = [callback EXCEPT ![g] = stage]
  /\ UNCHANGED <<sequence, ownerOf, active, session, tunVars, tunClose, overdue>>

\* BoxService.openTun repeats the check; a rejected descriptor is closed.
requireTunCallbackSession(g) ==
  /\ callback[g] = "established"
  /\ callback' = [callback EXCEPT ![g] = IF callbackAccepted(g) THEN "accepted" ELSE "idle"]
  /\ UNCHANGED <<sequence, ownerOf, active, session, tunVars, tunClose, overdue>>

\* TunDescriptorOwner.open: validate runs before the lock; a descriptor that
\* fails the protect self-check is closed.
validate(g) ==
  /\ callback[g] = "accepted"
  /\ \E stage \in {"validated", "idle"} : callback' = [callback EXCEPT ![g] = stage]
  /\ UNCHANGED <<sequence, ownerOf, active, session, tunVars, tunClose, overdue>>

mayAdoptStale(o, g) ==   \* mutant: the generation is not tested under the lock
  ~hasOwnership(o) /\ lastOpenedGeneration[o] # g /\ ~hasProcessWideOwnership

mayAdopt(o, g) ==
  /\ isCurrent(g)
  /\ ~hasOwnership(o)
  /\ lastOpenedGeneration[o] # g
  /\ ~hasProcessWideOwnership

\* TunDescriptorOwner.open under the lock: adopt the descriptor, or close it.
open(g) ==
  LET o == ownerOf[g] IN
  /\ callback[g] = "validated"
  /\ callback' = [callback EXCEPT ![g] = "idle"]
  /\ \/ /\ mayAdopt(o, g)
        /\ owned' = [owned EXCEPT ![o] = g]
        /\ lastOpenedGeneration' = [lastOpenedGeneration EXCEPT ![o] = g]
        /\ processOwned' = processOwned \cup {identity(g)}
        /\ adoptions' = [adoptions EXCEPT ![g] = @ + 1]
     \/ /\ ~mayAdopt(o, g)
        /\ UNCHANGED <<owned, lastOpenedGeneration, processOwned, adoptions>>
  /\ UNCHANGED <<sequence, ownerOf, active, session, closingGeneration, tunClose, overdue>>

-----------------------------------------------------------------------------
SessionStep(g) ==
  \/ startCore(g) \/ closeSession(g) \/ closeCoreStep(g) \/ closeTunStep(g) \/ clearNetwork(g)

TunCloseStep(g) == CloseDescriptor(g) \/ ClearClosing(g) \/ RemoveIdentity(g)

CallbackStep(g) ==
  establish(g) \/ requireTunCallbackSession(g) \/ validate(g) \/ open(g)

Next ==
  \/ accept
  \/ \E o \in Owner : beginExplicitSession(o) \/ commitReload(o)
  \/ \E g \in Gen : SessionStep(g) \/ TunCloseStep(g) \/ openTun(g) \/ CallbackStep(g)

\* The close coroutine is NonCancellable and runs on its own dispatcher, and a
\* native callback that was entered returns.
Fairness ==
  \A g \in Gen :
    /\ WF_vars(closeCoreStep(g)) /\ WF_vars(closeTunStep(g)) /\ WF_vars(clearNetwork(g))
    /\ WF_vars(TunCloseStep(g))
    /\ WF_vars(CallbackStep(g))

Spec == Init /\ [][Next]_vars /\ Fairness

-----------------------------------------------------------------------------
(* Properties *)

\* The descriptors the Android side has adopted and not closed yet.
Adopted == {g \in Gen : tunClose[g] = "detached" \/ \E o \in Owner : owned[o] = g}

\* Two service instances never hold adopted descriptors at the same time, across
\* the instant at which one owner's fence is lifted and its identity is not yet
\* removed from the process-wide set.
ExclusiveTun == Cardinality(Adopted) <= 1

\* When the process-wide set is empty (which is what publishes DISCONNECTED and
\* what lets the next core start), every adopted descriptor has been closed.
SettledMeansClosed == ~hasProcessWideOwnership => Adopted = {}

\* A generation gets at most one descriptor, also when its core calls openTun
\* again while the session is being closed.
OneTunPerGeneration == \A g \in Gen : adoptions[g] <= 1

\* A descriptor never outlives the session that must close it: what an owner
\* holds belongs to a session whose tun step is still to come.
DescriptorHasCloser ==
  \A o \in Owner : owned[o] # 0 =>
    /\ ownerOf[owned[o]] = o
    /\ session[owned[o]] \in {"running", "closeCore", "closeTun"}

\* While every close step keeps its time limit, no descriptor outlives the
\* session that must close it.
ClosedInTime == ~overdue => DescriptorHasCloser

\* Closing a session eventually takes its generation out of the process-wide
\* set, so the next session's awaitProcessSettled cannot wait for ever, unless a
\* close step exceeds its time limit.
CloseSettles ==
  \A g \in Gen : (session[g] = "closeCore") ~> (overdue \/ [](g \notin processOwned))

\* The process-wide set as the claim of a resource the sessions take turns with.
Resource == INSTANCE SessionResource
  WITH Sessions <- Gen, claimed <- processOwned, using <- Adopted,
       served <- {g \in Gen : adoptions[g] > 0}

\* The descriptor is handed from session to session in the order of their
\* generations: an openTun callback that returns late never brings an older
\* session's descriptor back, with any owner and in any state of the closes.
ImplementsSessionResource == Resource!Spec
=============================================================================
