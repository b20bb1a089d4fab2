------------------------- MODULE TunOwnershipProofs -------------------------
(***************************************************************************)
(* The ownership of the TUN descriptor, for any number of service          *)
(* instances and any bound on the generations.                             *)
(*                                                                         *)
(* The process-wide set is the backbone: a descriptor is adopted only      *)
(* while it is empty, so it never names two generations, and it names a    *)
(* generation for as long as some owner holds that generation's descriptor *)
(* or the close of it has not come to its last line.  Exclusive use and    *)
(* the meaning of "settled" follow from that alone.                        *)
(***************************************************************************)
EXTENDS TunOwnership, FiniteSetTheorems, TLAPS

USE BoundAssumption

(* A session has an owner from its commit on, and what the native side or  *)
(* the close does for a generation is done for a committed session.        *)
SessionsOwned ==
  \A g \in Gen :
    /\ session[g] # "none" <=> ownerOf[g] # NoOwner
    /\ session[g] # "none" => g <= sequence
    /\ callback[g] # "idle" \/ tunClose[g] # "idle" \/ adoptions[g] > 0 => session[g] # "none"

(* What an owner holds is its own session's, and is not being closed.      *)
HeldByItsOwner ==
  \A o \in Owner : owned[o] # 0 =>
    /\ ownerOf[owned[o]] = o
    /\ tunClose[owned[o]] = "idle"

(* The process-wide set names every descriptor that is not closed, and one  *)
(* at most.                                                                *)
OneIdentity ==
  /\ \A g, h \in processOwned : g = h
  /\ \A o \in Owner : owned[o] # 0 => owned[o] \in processOwned
  /\ \A g \in Gen : tunClose[g] # "idle" => g \in processOwned

(* lastOpenedGeneration of the owner has reached every generation a         *)
(* descriptor was adopted for.                                             *)
OpenedOnce ==
  /\ \A o \in Owner : lastOpenedGeneration[o] <= sequence
  /\ \A g \in Gen : adoptions[g] > 0 => g <= lastOpenedGeneration[ownerOf[g]]
  /\ OneTunPerGeneration

(* While the close steps keep their limits, a callback is inside openTun    *)
(* only before its session's core step has ended.                          *)
CallbackInTime ==
  ~overdue => \A g \in Gen : callback[g] # "idle" => session[g] \in {"running", "closeCore"}

IInv ==
  /\ TypeOK
  /\ SessionsOwned
  /\ HeldByItsOwner
  /\ OneIdentity
  /\ OpenedOnce
  /\ CallbackInTime
  /\ ClosedInTime

(* The initial state satisfies the invariant.                               *)
LEMMA InitIInv == Init => IInv
<1> SUFFICES ASSUME Init PROVE IInv
  OBVIOUS
<1>1. TypeOK
  <2>1. 0 \in 0 .. MaxGeneration
    OBVIOUS
  <2> QED
    BY <2>1 DEF Init, TypeOK, NoOwner, SessionStage, CallbackStage, TunCloseStage
<1> QED
  BY <1>1 DEF Init, IInv, SessionsOwned, HeldByItsOwner, OneIdentity, OpenedOnce,
     OneTunPerGeneration, CallbackInTime, ClosedInTime, DescriptorHasCloser

(* What an owner holds is a generation, and what the close of a generation  *)
(* looks up is an owner.                                                    *)
LEMMA Lookups ==
  ASSUME IInv
  PROVE  /\ \A o \in Owner : owned[o] # 0 => owned[o] \in Gen
         /\ \A o \in Owner : owned[o] \in 0 .. MaxGeneration /\ closingGeneration[o] \in 0 .. MaxGeneration
         /\ \A g \in Gen : session[g] # "none" => ownerOf[g] \in Owner
         /\ \A g \in Gen : callback[g] # "idle" \/ tunClose[g] # "idle" => ownerOf[g] \in Owner
         /\ sequence \in Nat /\ sequence <= MaxGeneration
  BY DEF IInv, TypeOK, Gen, Owner, SessionsOwned, NoOwner

(* A generation is allocated.                                               *)
LEMMA AcceptPreserves ==
  ASSUME IInv, accept
  PROVE  IInv'
<1>1. sequence' \in 0 .. MaxGeneration /\ sequence' > sequence
  BY DEF IInv, TypeOK, accept
<1>2. TypeOK'
  BY <1>1 DEF IInv, TypeOK, accept, tunVars
<1>3. SessionsOwned' /\ OpenedOnce'
  <2>1. \A g \in Gen : g <= sequence => g <= sequence'
    BY <1>1, Lookups DEF Gen
  <2>2. \A o \in Owner : lastOpenedGeneration'[o] <= sequence'
    BY <1>1, Lookups DEF IInv, TypeOK, OpenedOnce, accept, tunVars
  <2> QED
    BY <2>1, <2>2 DEF IInv, SessionsOwned, OpenedOnce, OneTunPerGeneration, accept, tunVars
<1> QED
  BY <1>2, <1>3 DEF IInv, HeldByItsOwner, OneIdentity, CallbackInTime, ClosedInTime,
     DescriptorHasCloser, accept, tunVars

(* A session is committed for the counter's generation by a Start or a      *)
(* reload, which found no descriptor with its owner.                        *)
LEMMA CommitPreserves ==
  ASSUME IInv, NEW o \in Owner, commitSession(o), overdue' \in {overdue, TRUE}
  PROVE  IInv'
<1> USE DEF commitSession
<1>1. sequence \in Gen /\ session[sequence] = "none" /\ UNCHANGED <<sequence, callback, tunClose>>
  BY Lookups DEF Gen
<1>2. UNCHANGED <<owned, closingGeneration, lastOpenedGeneration, processOwned, adoptions>>
  BY DEF tunVars
<1>3. ownerOf \in [Gen -> Owner \cup {NoOwner}] /\ session \in [Gen -> SessionStage]
  BY DEF IInv, TypeOK
<1>4. /\ \A g \in Gen \ {sequence} : session'[g] = session[g] /\ ownerOf'[g] = ownerOf[g]
      /\ session'[sequence] = "committed" /\ ownerOf'[sequence] = o
  BY <1>1, <1>3
<1>5. TypeOK'
  <2>1. active' \in [Owner -> 0 .. MaxGeneration]
    BY <1>1 DEF IInv, TypeOK, Gen
  <2>2. ownerOf' \in [Gen -> Owner \cup {NoOwner}] /\ session' \in [Gen -> SessionStage]
    BY <1>1, <1>3 DEF SessionStage
  <2> QED
    BY <1>1, <1>2, <2>1, <2>2 DEF IInv, TypeOK
<1>6. SessionsOwned'
  BY <1>1, <1>2, <1>4 DEF IInv, SessionsOwned, Owner, NoOwner, Gen
<1>7. \A p \in Owner : owned[p] # 0 => owned[p] \in Gen \ {sequence}
  BY <1>1, Lookups DEF IInv, HeldByItsOwner, SessionsOwned, Owner, NoOwner
<1>8. HeldByItsOwner'
  BY <1>1, <1>2, <1>4, <1>7 DEF IInv, HeldByItsOwner
<1>9. \A g \in Gen : adoptions[g] > 0 => g # sequence
  BY <1>1 DEF IInv, SessionsOwned
<1>10. OpenedOnce'
  BY <1>1, <1>2, <1>4, <1>9 DEF IInv, OpenedOnce, OneTunPerGeneration
<1>11. CallbackInTime'
  BY <1>1, <1>4 DEF IInv, CallbackInTime, SessionsOwned
<1>12. ClosedInTime'
  <2>1. ~overdue' => DescriptorHasCloser
    BY DEF IInv, ClosedInTime
  <2>2. DescriptorHasCloser => DescriptorHasCloser'
    BY <1>1, <1>2, <1>4, <1>7 DEF DescriptorHasCloser
  <2> QED
    BY <2>1, <2>2 DEF ClosedInTime
<1> QED
  BY <1>1, <1>2, <1>5, <1>6, <1>8, <1>10, <1>11, <1>12 DEF IInv, OneIdentity

(* A session goes on to a later stage of its own, and nothing else moves:   *)
(* its start, its close, the core step and the network step.                *)
LEMMA StagePreserves ==
  ASSUME IInv, NEW g \in Gen, NEW stage \in SessionStage \ {"none"},
         session[g] # "none", session' = [session EXCEPT ![g] = stage],
         active' \in [Owner -> 0 .. MaxGeneration], overdue' \in {overdue, TRUE},
         ~overdue' /\ callback[g] # "idle" /\ session[g] \in {"running", "closeCore"}
           => stage \in {"running", "closeCore"},
         ~overdue' /\ session[g] \in {"running", "closeCore", "closeTun"} /\ owned[ownerOf[g]] = g
           => stage \in {"running", "closeCore", "closeTun"},
         UNCHANGED <<sequence, ownerOf, tunVars, callback, tunClose>>
  PROVE  IInv'
<1>1. session \in [Gen -> SessionStage]
  BY DEF IInv, TypeOK
<1>2. \A h \in Gen : session'[h] = (IF h = g THEN stage ELSE session[h])
  BY <1>1
<1>3. UNCHANGED <<owned, closingGeneration, lastOpenedGeneration, processOwned, adoptions>>
  BY DEF tunVars
<1>4. TypeOK'
  BY <1>1, <1>3 DEF IInv, TypeOK
<1>5. SessionsOwned'
  BY <1>2, <1>3 DEF IInv, SessionsOwned
<1>6. CallbackInTime'
  BY <1>2 DEF IInv, CallbackInTime
<1>7. ClosedInTime'
  <2> SUFFICES ASSUME ~overdue', NEW o \in Owner, owned[o] # 0
               PROVE  /\ ownerOf[owned[o]] = o
                      /\ session'[owned[o]] \in {"running", "closeCore", "closeTun"}
    BY <1>3 DEF ClosedInTime, DescriptorHasCloser
  <2>1. ownerOf[owned[o]] = o /\ session[owned[o]] \in {"running", "closeCore", "closeTun"}
    BY DEF IInv, ClosedInTime, DescriptorHasCloser
  <2> QED
    BY <1>2, <2>1, Lookups
<1> QED
  BY <1>3, <1>4, <1>5, <1>6, <1>7 DEF IInv, HeldByItsOwner, OneIdentity, OpenedOnce,
     OneTunPerGeneration

(* The steps of a session that leave the descriptor alone.                  *)
LEMMA SessionPreserves ==
  ASSUME IInv, NEW g \in Gen,
         startCore(g) \/ closeSession(g) \/ closeCoreStep(g) \/ clearNetwork(g)
  PROVE  IInv'
<1>1. active \in [Owner -> 0 .. MaxGeneration] /\ overdue \in BOOLEAN
  BY DEF IInv, TypeOK
<1>2. CASE startCore(g)
  BY <1>1, <1>2, StagePreserves DEF startCore, SessionStage
<1>3. CASE closeSession(g)
  BY <1>1, <1>3, StagePreserves DEF closeSession, acceptsOperations, SessionStage
<1>4. CASE closeCoreStep(g)
  BY <1>1, <1>4, StagePreserves DEF closeCoreStep, SessionStage
<1>5. CASE clearNetwork(g)
  <2>1. ownerOf[g] \in Owner
    BY <1>5, Lookups DEF clearNetwork
  <2>2. active' \in [Owner -> 0 .. MaxGeneration]
    BY <1>1, <1>5, <2>1 DEF clearNetwork
  <2> QED
    BY <1>1, <1>5, <2>2, StagePreserves DEF clearNetwork, SessionStage
<1> QED
  BY <1>2, <1>3, <1>4, <1>5

(* The first critical section of TunDescriptorOwner.close: the descriptor   *)
(* goes from its owner to the close of its generation.                      *)
LEMMA CloseTunPreserves ==
  ASSUME IInv, NEW g \in Gen, closeTunStep(g)
  PROVE  IInv'
<1>1. CASE owned[ownerOf[g]] # g
  BY <1>1, StagePreserves DEF IInv, TypeOK, closeTunStep, tunVars, SessionStage
<1>2. CASE owned[ownerOf[g]] = g
  <2> DEFINE o == ownerOf[g]
  <2>1. o \in Owner /\ g # 0
    BY Lookups DEF closeTunStep, Gen
  <2>2. /\ owned' = [owned EXCEPT ![o] = 0]
        /\ closingGeneration' = [closingGeneration EXCEPT ![o] = g]
        /\ tunClose' = [tunClose EXCEPT ![g] = "detached"]
        /\ session' = [session EXCEPT ![g] = "closeNetwork"]
        /\ session[g] = "closeTun"
        /\ UNCHANGED <<sequence, ownerOf, active, lastOpenedGeneration, processOwned, adoptions,
                       callback, overdue>>
    BY <1>2 DEF closeTunStep
  <2>3. /\ owned \in [Owner -> 0 .. MaxGeneration]
        /\ closingGeneration \in [Owner -> 0 .. MaxGeneration]
        /\ tunClose \in [Gen -> TunCloseStage]
        /\ session \in [Gen -> SessionStage]
    BY DEF IInv, TypeOK
  <2>4. TypeOK'
    <3>1. owned' \in [Owner -> 0 .. MaxGeneration]
      BY <2>1, <2>2, <2>3
    <3>2. closingGeneration' \in [Owner -> 0 .. MaxGeneration]
      BY <2>1, <2>2, <2>3 DEF Gen
    <3>3. tunClose' \in [Gen -> TunCloseStage] /\ session' \in [Gen -> SessionStage]
      BY <2>2, <2>3 DEF TunCloseStage, SessionStage
    <3> QED
      BY <2>2, <3>1, <3>2, <3>3 DEF IInv, TypeOK
  <2>5. /\ \A p \in Owner : owned'[p] = (IF p = o THEN 0 ELSE owned[p])
        /\ \A h \in Gen : tunClose'[h] = (IF h = g THEN "detached" ELSE tunClose[h])
        /\ \A h \in Gen : session'[h] = (IF h = g THEN "closeNetwork" ELSE session[h])
    BY <2>1, <2>2, <2>3
  <2>6. \A p \in Owner : owned'[p] # 0 => owned'[p] = owned[p] /\ owned[p] \in Gen \ {g}
    BY <2>1, <2>5, Lookups DEF IInv, HeldByItsOwner
  <2> HIDE DEF o
  <2>7. SessionsOwned'
    BY <2>2, <2>5 DEF IInv, SessionsOwned
  <2>8. HeldByItsOwner'
    BY <2>2, <2>5, <2>6 DEF IInv, HeldByItsOwner
  <2>9. g \in processOwned
    BY <1>2, <2>1 DEF o, IInv, OneIdentity
  <2>10. OneIdentity'
    BY <2>2, <2>5, <2>6, <2>9 DEF IInv, OneIdentity
  <2>11. CallbackInTime'
    BY <2>2, <2>5 DEF IInv, CallbackInTime
  <2>12. ClosedInTime'
    BY <2>2, <2>5, <2>6 DEF IInv, ClosedInTime, DescriptorHasCloser
  <2> QED
    BY <2>2, <2>4, <2>7, <2>8, <2>10, <2>11, <2>12 DEF IInv, OpenedOnce, OneTunPerGeneration
<1> QED
  BY <1>1, <1>2

(* The rest of TunDescriptorOwner.close: the identity goes last.            *)
LEMMA TunClosePreserves ==
  ASSUME IInv, NEW g \in Gen, TunCloseStep(g)
  PROVE  IInv'
<1>1. /\ tunClose[g] # "idle" /\ ownerOf[g] \in Owner
      /\ UNCHANGED <<sequence, ownerOf, active, session, owned, lastOpenedGeneration, adoptions,
                     callback, overdue>>
  BY Lookups DEF TunCloseStep, CloseDescriptor, ClearClosing, RemoveIdentity, tunVars
<1>2. /\ tunClose \in [Gen -> TunCloseStage]
      /\ closingGeneration \in [Owner -> 0 .. MaxGeneration]
  BY DEF IInv, TypeOK
<1>3. \E stage \in TunCloseStage : tunClose' = [tunClose EXCEPT ![g] = stage]
  BY DEF TunCloseStep, CloseDescriptor, ClearClosing, RemoveIdentity, TunCloseStage
<1>4. closingGeneration' \in [Owner -> 0 .. MaxGeneration]
  BY <1>1, <1>2 DEF TunCloseStep, CloseDescriptor, ClearClosing, RemoveIdentity, tunVars
<1>5. \/ processOwned' = processOwned /\ tunClose'[g] # "idle"
      \/ processOwned' = processOwned \ {g} /\ tunClose'[g] = "idle"
  BY <1>2 DEF TunCloseStep, CloseDescriptor, ClearClosing, RemoveIdentity, tunVars, identity
<1>6. \A h \in Gen \ {g} : tunClose'[h] = tunClose[h]
  BY <1>2, <1>3
<1>7. TypeOK'
  BY <1>1, <1>2, <1>3, <1>4, <1>5 DEF IInv, TypeOK
<1>8. SessionsOwned'
  BY <1>1, <1>6 DEF IInv, SessionsOwned
<1>9. \A p \in Owner : owned[p] # 0 => owned[p] \in Gen \ {g}
  BY <1>1, Lookups DEF IInv, HeldByItsOwner
<1>10. HeldByItsOwner'
  BY <1>1, <1>6, <1>9 DEF IInv, HeldByItsOwner
<1>11. OneIdentity'
  BY <1>1, <1>5, <1>6, <1>9 DEF IInv, OneIdentity
<1> QED
  BY <1>1, <1>7, <1>8, <1>10, <1>11 DEF IInv, OpenedOnce, OneTunPerGeneration, CallbackInTime,
     ClosedInTime, DescriptorHasCloser

(* The callback before the owner's lock: it enters openTun in a running     *)
(* session, and may leave again at any test.                                *)
LEMMA CallbackPreserves ==
  ASSUME IInv, NEW g \in Gen,
         openTun(g) \/ establish(g) \/ requireTunCallbackSession(g) \/ validate(g)
  PROVE  IInv'
<1>1. /\ callback[g] # "idle" \/ session[g] = "running"
      /\ UNCHANGED <<sequence, ownerOf, active, session, tunVars, tunClose, overdue>>
      /\ \E stage \in CallbackStage : callback' = [callback EXCEPT ![g] = stage]
  BY DEF openTun, establish, requireTunCallbackSession, validate, CallbackStage
<1>2. callback \in [Gen -> CallbackStage]
  BY DEF IInv, TypeOK
<1>3. callback' \in [Gen -> CallbackStage] /\ \A h \in Gen \ {g} : callback'[h] = callback[h]
  BY <1>1, <1>2
<1>4. UNCHANGED <<owned, closingGeneration, lastOpenedGeneration, processOwned, adoptions>>
  BY <1>1 DEF tunVars
<1>5. TypeOK'
  BY <1>1, <1>3, <1>4 DEF IInv, TypeOK
<1>6. SessionsOwned' /\ CallbackInTime'
  BY <1>1, <1>3, <1>4 DEF IInv, SessionsOwned, CallbackInTime
<1> QED
  BY <1>1, <1>4, <1>5, <1>6 DEF IInv, HeldByItsOwner, OneIdentity, OpenedOnce, OneTunPerGeneration,
     ClosedInTime, DescriptorHasCloser

(* TunDescriptorOwner.open under the lock: a descriptor is adopted for the  *)
(* current generation, at most once, with no other one anywhere.            *)
LEMMA OpenPreserves ==
  ASSUME IInv, NEW g \in Gen, open(g)
  PROVE  IInv'
<1> DEFINE o == ownerOf[g]
<1>1. /\ callback[g] # "idle" /\ callback' = [callback EXCEPT ![g] = "idle"]
      /\ UNCHANGED <<sequence, ownerOf, active, session, closingGeneration, tunClose, overdue>>
  BY DEF open
<1>2. o \in Owner /\ session[g] # "none"
  BY <1>1, Lookups DEF IInv, SessionsOwned
<1>3. /\ callback \in [Gen -> CallbackStage]
      /\ owned \in [Owner -> 0 .. MaxGeneration]
      /\ lastOpenedGeneration \in [Owner -> 0 .. MaxGeneration]
      /\ adoptions \in [Gen -> Nat]
  BY DEF IInv, TypeOK
<1>4. /\ callback' \in [Gen -> CallbackStage] /\ callback'[g] = "idle"
      /\ \A h \in Gen \ {g} : callback'[h] = callback[h]
  BY <1>1, <1>3 DEF CallbackStage
<1>5. CallbackInTime'
  BY <1>1, <1>4 DEF IInv, CallbackInTime
<1>6. CASE ~mayAdopt(o, g)
  <2>1. UNCHANGED <<owned, lastOpenedGeneration, processOwned, adoptions>>
    BY <1>6 DEF open
  <2>2. TypeOK'
    BY <1>1, <1>4, <2>1 DEF IInv, TypeOK
  <2>3. SessionsOwned'
    BY <1>1, <1>4, <2>1 DEF IInv, SessionsOwned
  <2> QED
    BY <1>1, <1>5, <2>1, <2>2, <2>3 DEF IInv, HeldByItsOwner, OneIdentity, OpenedOnce,
       OneTunPerGeneration, ClosedInTime, DescriptorHasCloser
<1>7. CASE mayAdopt(o, g)
  <2>1. /\ g = sequence /\ owned[o] = 0 /\ processOwned = {}
        /\ lastOpenedGeneration[o] # g
    BY <1>7 DEF mayAdopt, isCurrent, hasOwnership, hasProcessWideOwnership
  <2>2. /\ owned' = [owned EXCEPT ![o] = g]
        /\ lastOpenedGeneration' = [lastOpenedGeneration EXCEPT ![o] = g]
        /\ processOwned' = {g}
        /\ adoptions' = [adoptions EXCEPT ![g] = @ + 1]
    BY <1>7, <2>1 DEF open, identity
  <2>3. \A p \in Owner : owned[p] = 0
    BY <2>1 DEF IInv, OneIdentity
  <2>4. \A h \in Gen : tunClose[h] = "idle"
    BY <2>1 DEF IInv, OneIdentity
  <2>5. /\ owned' \in [Owner -> 0 .. MaxGeneration]
        /\ lastOpenedGeneration' \in [Owner -> 0 .. MaxGeneration]
        /\ adoptions' \in [Gen -> Nat]
    BY <1>2, <1>3, <2>2 DEF Gen
  <2>6. /\ \A p \in Owner : owned'[p] = (IF p = o THEN g ELSE 0)
        /\ \A p \in Owner : lastOpenedGeneration'[p] = (IF p = o THEN g ELSE lastOpenedGeneration[p])
        /\ adoptions'[g] = adoptions[g] + 1
        /\ \A h \in Gen \ {g} : adoptions'[h] = adoptions[h]
    BY <1>2, <1>3, <2>2, <2>3
  <2>7. TypeOK'
    BY <1>1, <1>4, <2>2, <2>5 DEF IInv, TypeOK
  <2>8. SessionsOwned'
    BY <1>1, <1>2, <1>4, <2>6 DEF IInv, SessionsOwned
  <2>9. HeldByItsOwner' /\ OneIdentity'
    BY <1>1, <2>2, <2>4, <2>6 DEF HeldByItsOwner, OneIdentity
  <2>10. lastOpenedGeneration[o] <= sequence /\ sequence \in Nat
         /\ lastOpenedGeneration[o] \in Nat
    BY <1>2, <1>3, Lookups DEF IInv, OpenedOnce
  <2>11. adoptions[g] = 0
    <3>1. adoptions[g] > 0 => g <= lastOpenedGeneration[o]
      BY DEF IInv, OpenedOnce
    <3>2. ~(adoptions[g] > 0)
      BY <2>1, <2>10, <3>1
    <3> QED
      BY <1>3, <3>2
  <2>12. OneTunPerGeneration'
    BY <2>6, <2>11 DEF IInv, OpenedOnce, OneTunPerGeneration
  <2>13. \A h \in Gen : adoptions'[h] > 0 => h <= lastOpenedGeneration'[ownerOf[h]]
    <3> SUFFICES ASSUME NEW h \in Gen, adoptions'[h] > 0, h # g
                 PROVE  h <= lastOpenedGeneration'[ownerOf[h]]
      BY <1>2, <2>6 DEF Gen
    <3>1. h <= lastOpenedGeneration[ownerOf[h]] /\ session[h] # "none"
      BY <2>6 DEF IInv, OpenedOnce, SessionsOwned
    <3>2. ownerOf[h] \in Owner
      BY <3>1, Lookups
    <3> QED
      BY <2>1, <2>6, <2>10, <3>1, <3>2 DEF Gen
  <2>14. OpenedOnce'
    <3>1. \A p \in Owner : lastOpenedGeneration'[p] <= sequence
      BY <2>1, <2>6, <2>10 DEF IInv, OpenedOnce
    <3> QED
      BY <1>1, <2>12, <2>13, <3>1 DEF OpenedOnce
  <2>15. ClosedInTime'
    <3> SUFFICES ASSUME ~overdue
                 PROVE  \A p \in Owner : owned'[p] # 0 =>
                          /\ ownerOf[owned'[p]] = p
                          /\ session[owned'[p]] \in {"running", "closeCore", "closeTun"}
      BY <1>1 DEF ClosedInTime, DescriptorHasCloser
    <3>1. session[g] \in {"running", "closeCore"}
      BY <1>1 DEF IInv, CallbackInTime
    <3> QED
      BY <2>6, <3>1
  <2> QED
    BY <1>5, <2>7, <2>8, <2>9, <2>14, <2>15 DEF IInv
<1> QED
  BY <1>6, <1>7

-----------------------------------------------------------------------------
(* Every step of the specification preserves the invariant.                 *)
LEMMA StepPreserves ==
  ASSUME IInv, [Next]_vars
  PROVE  IInv'
<1>1. CASE accept
  BY <1>1, AcceptPreserves
<1>2. ASSUME NEW o \in Owner, beginExplicitSession(o) \/ commitReload(o)
      PROVE  IInv'
  BY <1>2, CommitPreserves DEF beginExplicitSession, commitReload
<1>3. ASSUME NEW g \in Gen, SessionStep(g)
      PROVE  IInv'
  BY <1>3, SessionPreserves, CloseTunPreserves DEF SessionStep
<1>4. ASSUME NEW g \in Gen, TunCloseStep(g)
      PROVE  IInv'
  BY <1>4, TunClosePreserves
<1>5. ASSUME NEW g \in Gen, openTun(g) \/ CallbackStep(g)
      PROVE  IInv'
  BY <1>5, CallbackPreserves, OpenPreserves DEF CallbackStep
<1>6. CASE UNCHANGED vars
  <2>1. TypeOK'
    BY <1>6 DEF vars, IInv, TypeOK
  <2> QED
    BY <1>6, <2>1 DEF vars, IInv, SessionsOwned, HeldByItsOwner, OneIdentity, OpenedOnce,
       OneTunPerGeneration, CallbackInTime, ClosedInTime, DescriptorHasCloser
<1> QED
  BY <1>1, <1>2, <1>3, <1>4, <1>5, <1>6 DEF Next

(* IInv is an invariant of the descriptor's ownership.                      *)
THEOREM Invariance == Spec => []IInv
<1>1. Init => IInv
  BY InitIInv
<1>2. IInv /\ [Next]_vars => IInv'
  BY StepPreserves
<1> QED
  BY <1>1, <1>2, PTL DEF Spec

(* Every variable keeps its type.                                           *)
THEOREM TypesHold == Spec => []TypeOK
<1>1. IInv => TypeOK
  BY DEF IInv
<1> QED
  BY <1>1, Invariance, PTL

(* A set without two different elements has one element at most.            *)
LEMMA AtMostOne ==
  ASSUME NEW S, \A x, y \in S : x = y
  PROVE  Cardinality(S) <= 1
<1>1. CASE S = {}
  BY <1>1, FS_EmptySet
<1>2. CASE S # {}
  <2>1. PICK x \in S : S = {x}
    BY <1>2
  <2> QED
    BY <2>1, FS_Singleton
<1> QED
  BY <1>1, <1>2

(* What is adopted and not closed yet is named by the process-wide set.     *)
LEMMA AdoptedIsNamed == IInv => Adopted \subseteq processOwned
  BY DEF IInv, Adopted, OneIdentity, Gen

(* Two service instances never hold adopted descriptors at the same time:   *)
(* a descriptor leaves processOwnedIdentities only after it was closed.     *)
THEOREM ExclusiveTunAlways == Spec => []ExclusiveTun
<1>1. IInv => ExclusiveTun
  <2> SUFFICES ASSUME IInv PROVE Cardinality(Adopted) <= 1
    BY DEF ExclusiveTun
  <2>1. \A g, h \in Adopted : g = h
    BY AdoptedIsNamed DEF IInv, OneIdentity
  <2> QED
    BY <2>1, AtMostOne
<1> QED
  BY <1>1, Invariance, PTL

(* An empty process-wide set, which lets DISCONNECTED be published and the  *)
(* next core start, means that every adopted descriptor has been closed.    *)
THEOREM SettledMeansClosedAlways == Spec => []SettledMeansClosed
<1>1. IInv => SettledMeansClosed
  BY AdoptedIsNamed DEF SettledMeansClosed, hasProcessWideOwnership
<1> QED
  BY <1>1, Invariance, PTL

(* A generation gets at most one descriptor: TunDescriptorOwner.open tests  *)
(* lastOpenedGeneration, which no later generation of the owner can hide    *)
(* while the generation is still the current one.                           *)
THEOREM OneTunAlways == Spec => []OneTunPerGeneration
<1>1. IInv => OneTunPerGeneration
  BY DEF IInv, OpenedOnce
<1> QED
  BY <1>1, Invariance, PTL

(* While every close step keeps its time limit, what an owner holds belongs  *)
(* to a session whose tun step is still to come.                            *)
THEOREM ClosedInTimeAlways == Spec => []ClosedInTime
<1>1. IInv => ClosedInTime
  BY DEF IInv
<1> QED
  BY <1>1, Invariance, PTL

-----------------------------------------------------------------------------
(* The turns of the sessions: no descriptor is adopted for a generation     *)
(* above the counter's.                                                    *)
LEMMA ServedUpToSequence ==
  ASSUME IInv
  PROVE  \A g \in Gen : adoptions[g] > 0 => g <= sequence
  BY DEF IInv, SessionsOwned

(* A step of the sessions or of a callback that leaves the descriptors      *)
(* alone.                                                                  *)
LEMMA ResourceStutters ==
  ASSUME UNCHANGED <<processOwned, adoptions, Adopted>>
  PROVE  UNCHANGED Resource!vars
  BY DEF Resource!vars

(* The tun step hands the descriptor from the owner to the close of its     *)
(* generation: it is still open, and still in use.                         *)
LEMMA DetachStutters ==
  ASSUME IInv, NEW g \in Gen, closeTunStep(g)
  PROVE  UNCHANGED Resource!vars
<1>1. UNCHANGED <<processOwned, adoptions>>
  BY DEF closeTunStep
<1>2. CASE owned[ownerOf[g]] # g
  BY <1>1, <1>2, ResourceStutters DEF closeTunStep, Adopted
<1>3. CASE owned[ownerOf[g]] = g
  <2>1. /\ ownerOf[g] \in Owner
        /\ owned \in [Owner -> 0 .. MaxGeneration] /\ tunClose \in [Gen -> TunCloseStage]
    BY Lookups DEF closeTunStep, IInv, TypeOK
  <2>2. /\ owned' = [owned EXCEPT ![ownerOf[g]] = 0]
        /\ tunClose' = [tunClose EXCEPT ![g] = "detached"]
    BY <1>3 DEF closeTunStep
  <2>3. /\ \A p \in Owner : owned'[p] = (IF p = ownerOf[g] THEN 0 ELSE owned[p])
        /\ \A h \in Gen : tunClose'[h] = (IF h = g THEN "detached" ELSE tunClose[h])
    BY <2>1, <2>2
  <2>4. \A h \in Gen : h \in Adopted' <=> h \in Adopted
    BY <1>3, <2>1, <2>3 DEF Adopted, Gen
  <2>5. Adopted' = Adopted
    BY <2>4 DEF Adopted
  <2> QED
    BY <1>1, <2>5, ResourceStutters
<1> QED
  BY <1>2, <1>3

(* Closing the descriptor ends its use, and only then its generation leaves *)
(* the process-wide set; the owner's fence in between concerns nobody else. *)
LEMMA TunCloseRefines ==
  ASSUME IInv, NEW g \in Gen, TunCloseStep(g)
  PROVE  Resource!Next \/ UNCHANGED Resource!vars
<1>1. tunClose \in [Gen -> TunCloseStage] /\ UNCHANGED <<owned, adoptions>>
  BY DEF IInv, TypeOK, TunCloseStep, CloseDescriptor, ClearClosing, RemoveIdentity, tunVars
<1>2. processOwned = {g} /\ Adopted \subseteq {g}
  <2>1. g \in processOwned
    BY DEF IInv, OneIdentity, TunCloseStep, CloseDescriptor, ClearClosing, RemoveIdentity
  <2> QED
    BY <2>1, AdoptedIsNamed DEF IInv, OneIdentity
<1>3. \A p \in Owner : owned[p] # g
  BY DEF IInv, HeldByItsOwner, Gen, TunCloseStep, CloseDescriptor, ClearClosing, RemoveIdentity
<1>4. CASE CloseDescriptor(g)
  <2>1. tunClose[g] = "detached" /\ tunClose'[g] = "descriptorClosed" /\ UNCHANGED processOwned
    BY <1>1, <1>4 DEF CloseDescriptor, tunVars
  <2>2. Adopted = {g}
    BY <1>2, <2>1 DEF Adopted
  <2>3. \A h \in Gen : h \notin Adopted'
    <3>1. \A h \in Gen \ {g} : h \notin Adopted /\ tunClose'[h] = tunClose[h]
      BY <1>1, <1>2, <1>4 DEF CloseDescriptor
    <3> QED
      BY <1>1, <1>3, <2>1, <3>1 DEF Adopted
  <2>4. Adopted' = {}
    BY <2>3 DEF Adopted
  <2>5. Resource!Close
    BY <1>1, <2>1, <2>2, <2>4 DEF Resource!Close
  <2> QED
    BY <2>5 DEF Resource!Next
<1>5. CASE ClearClosing(g)
  <2>1. UNCHANGED processOwned
    BY <1>5 DEF ClearClosing
  <2>2. \A h \in Gen : tunClose[h] = "detached" <=> tunClose'[h] = "detached"
    BY <1>1, <1>5 DEF ClearClosing
  <2>3. Adopted' = Adopted
    BY <1>1, <2>2 DEF Adopted
  <2> QED
    BY <1>1, <2>1, <2>3, ResourceStutters
<1>6. CASE RemoveIdentity(g)
  <2>1. tunClose[g] = "cleared" /\ processOwned' = {}
    BY <1>2, <1>6 DEF RemoveIdentity, identity
  <2>2. \A h \in Gen : tunClose[h] = "detached" <=> tunClose'[h] = "detached"
    BY <1>1, <1>6 DEF RemoveIdentity
  <2>3. Adopted' = Adopted /\ Adopted = {}
    BY <1>1, <1>2, <1>3, <2>1, <2>2 DEF Adopted
  <2>4. Resource!Release
    BY <1>1, <1>2, <2>1, <2>3 DEF Resource!Release
  <2> QED
    BY <2>4 DEF Resource!Next
<1> QED
  BY <1>4, <1>5, <1>6 DEF TunCloseStep

(* TunDescriptorOwner.open under the lock: a descriptor is taken by the     *)
(* current generation, which is newer than all that have had one.          *)
LEMMA OpenRefines ==
  ASSUME IInv, NEW g \in Gen, open(g)
  PROVE  Resource!Next \/ UNCHANGED Resource!vars
<1> DEFINE o == ownerOf[g]
<1>1. CASE ~mayAdopt(o, g)
  BY <1>1, ResourceStutters DEF open, Adopted
<1>2. CASE mayAdopt(o, g)
  <2>1. /\ g = sequence /\ processOwned = {} /\ lastOpenedGeneration[o] # g
        /\ owned' = [owned EXCEPT ![o] = g]
        /\ processOwned' = {g}
        /\ adoptions' = [adoptions EXCEPT ![g] = @ + 1]
        /\ tunClose' = tunClose
    BY <1>2 DEF open, mayAdopt, isCurrent, hasProcessWideOwnership, identity
  <2>2. /\ o \in Owner
        /\ owned \in [Owner -> 0 .. MaxGeneration] /\ adoptions \in [Gen -> Nat]
        /\ lastOpenedGeneration[o] \in Nat /\ lastOpenedGeneration[o] <= sequence
    <3>1. o \in Owner
      BY Lookups DEF open
    <3> QED
      BY <3>1 DEF IInv, TypeOK, OpenedOnce
  <2>3. Adopted = {}
    BY <2>1, AdoptedIsNamed
  <2>4. Adopted' = {g}
    <3>1. /\ owned'[o] = g
          /\ \A p \in Owner \ {o} : owned'[p] = owned[p]
      BY <2>1, <2>2
    <3>2. \A h \in Gen : tunClose[h] # "detached" /\ \A p \in Owner : owned[p] # h
      BY <2>3 DEF Adopted
    <3>3. \A h \in Gen : h \in Adopted' <=> h = g
      BY <2>1, <2>2, <3>1, <3>2 DEF Adopted
    <3> QED
      BY <3>3 DEF Adopted
  <2>5. adoptions[g] = 0
    <3>1. adoptions[g] > 0 => g <= lastOpenedGeneration[o]
      BY DEF IInv, OpenedOnce
    <3>2. ~(adoptions[g] > 0)
      BY <2>1, <2>2, <3>1, Lookups
    <3> QED
      BY <2>2, <3>2
  <2>6. {h \in Gen : adoptions'[h] > 0} = {h \in Gen : adoptions[h] > 0} \cup {g}
    BY <2>1, <2>2, <2>5
  <2>7. \A h \in {k \in Gen : adoptions[k] > 0} : h < g
    <3>1. \A h \in Gen : adoptions[h] > 0 => h # g /\ h <= g
      BY <2>1, <2>5, ServedUpToSequence
    <3> QED
      BY <3>1 DEF Gen
  <2>8. Resource!Take(g)
    BY <2>1, <2>3, <2>4, <2>6, <2>7 DEF Resource!Take
  <2> QED
    BY <2>8 DEF Resource!Next
<1> QED
  BY <1>1, <1>2

(* TunDescriptorOwner, the openTun callbacks and the closes implement the   *)
(* resource that sessions take turns with, for any number of services and   *)
(* any bound on the generations.                                           *)
THEOREM TunImplementsSessionResource == Spec => ImplementsSessionResource
<1>1. Init => Resource!Init
  BY DEF Init, Resource!Init, Adopted, Gen
<1>2. IInv /\ [Next]_vars => [Resource!Next]_(Resource!vars)
  <2> SUFFICES ASSUME IInv, [Next]_vars
               PROVE  Resource!Next \/ UNCHANGED Resource!vars
    OBVIOUS
  <2>1. CASE UNCHANGED <<owned, processOwned, adoptions, tunClose>>
    BY <2>1, ResourceStutters DEF Adopted
  <2>2. ASSUME NEW g \in Gen, closeTunStep(g)
        PROVE  UNCHANGED Resource!vars
    BY <2>2, DetachStutters
  <2>3. ASSUME NEW g \in Gen, TunCloseStep(g)
        PROVE  Resource!Next \/ UNCHANGED Resource!vars
    BY <2>3, TunCloseRefines
  <2>4. ASSUME NEW g \in Gen, open(g)
        PROVE  Resource!Next \/ UNCHANGED Resource!vars
    BY <2>4, OpenRefines
  <2> QED
    BY <2>1, <2>2, <2>3, <2>4 DEF Next, vars, tunVars, accept, beginExplicitSession, commitReload,
       commitSession, SessionStep, startCore, closeSession, closeCoreStep, clearNetwork, openTun,
       CallbackStep, establish, requireTunCallbackSession, validate
<1> QED
  BY <1>1, <1>2, Invariance, PTL DEF Spec, ImplementsSessionResource, Resource!Spec
=============================================================================
