----------------------- MODULE StartPermissionProofs -----------------------
(***************************************************************************)
(* The permission dialogs, for any bounds on requests, generations and     *)
(* revocations.                                                            *)
(*                                                                         *)
(* Three kinds of things happen to a callback: it is taken over by the     *)
(* coordinator, it is held (by the dialog's owner or by the queue), and it *)
(* is answered.  The argument is one statement about every operation of    *)
(* the coordinator: what it answers is what it held or has just taken over *)
(* and holds no longer.  From that, no callback is lost and none is        *)
(* answered twice.                                                         *)
(***************************************************************************)
EXTENDS StartPermission, TLAPS

USE PermissionBoundAssumption

(* The requests whose callbacks the coordinator still has to invoke.       *)
Held == (IF pending.staleDelivered THEN {} ELSE pending.requests) \cup ({queued} \ {NoRequest})

(* A request has a generation the counter has reached, and the coordinator *)
(* only knows, launches dialogs for and answers requests that reached it.  *)
RequestsBegun ==
  \A r \in Request :
    /\ request[r].progress # "unused" => request[r].generation \in Gen
    /\ request[r].generation <= sequence
    /\ r \in pending.requests \/ r = queued \/ r = launcher \/ answers[r] # <<>>
         => request[r].progress = "begun"

(* The dialog's owners are of one generation; once they were told Stale,   *)
(* that generation is past, and only then something is queued.             *)
OwnersShape ==
  /\ pending.requests = {} <=> pending.stage = "none"
  /\ pending.requests = {} => ~pending.staleDelivered
  /\ \A r, q \in pending.requests : request[r].generation = request[q].generation
  /\ pending.staleDelivered => \A r \in pending.requests : request[r].generation < sequence
  /\ queued # NoRequest => pending.staleDelivered

(* Unless a launch has thrown, a held callback has not been invoked.       *)
AnswersKept ==
  /\ answers \in [Request -> Seq(Outcome)]
  /\ NoCallbackLost
  /\ ~launchFailed => \A r \in Request : Len(answers[r]) <= 1 /\ (r \in Held => answers[r] = <<>>)

(* A dialog that is about to be launched is the one the coordinator waits  *)
(* for, with no other one on the screen.                                   *)
DialogShape ==
  alive /\ ~launchFailed =>
    /\ action = "none" => \A s \in Stage : dialogs[s] = IF pending.stage = s THEN 1 ELSE 0
    /\ action # "none" => pending.stage = action /\ \A s \in Stage : dialogs[s] = 0

(* The launch of a generation by its own requests: the activity has taken  *)
(* one for it or for a later one, and is not about to carry it out.        *)
LaunchSpent(g) ==
  g <= serviceLaunchGeneration /\ ~(launch.stage = "remembered" /\ g = launch.generation)

(* A generation was launched once by its own requests and once by an older *)
(* one, which lifts generations above all that were lifted before.         *)
LaunchShape ==
  /\ serviceLaunchGeneration <= sequence
  /\ \A g \in lifted : g <= sequence
  /\ launch.stage # "none" => launch.generation \in Gen
  /\ launch.stage = "remembered" =>
       /\ launch.generation = serviceLaunchGeneration
       /\ \A g \in lifted : g <= serviceLaunchGeneration
  /\ \A g \in Gen :
       launches[g] <= (IF g \in lifted THEN 1 ELSE 0) + (IF LaunchSpent(g) THEN 1 ELSE 0)

IInv ==
  /\ TypeOK
  /\ RequestsBegun
  /\ OwnersShape
  /\ AnswersKept
  /\ DialogShape
  /\ LaunchShape

-----------------------------------------------------------------------------
(* What is answered.                                                        *)

(* Reply answers all of its requests alike, and no reply answers nobody.    *)
LEMMA Replies ==
  /\ \A rs, outcome : DOMAIN Reply(rs, outcome) = rs
  /\ \A rs, outcome : \A r \in rs : Reply(rs, outcome)[r] = outcome
  /\ DOMAIN <<>> = {}
  BY DEF Reply

(* A step that invokes the callbacks in DOMAIN replies, of requests that    *)
(* the coordinator held or has just taken over (new), and holds the rest.   *)
Settles(new, replies) ==
  /\ Answer(replies)
  /\ DOMAIN replies \subseteq Held \cup new
  /\ Held' = (Held \cup new) \ DOMAIN replies
  /\ \A r \in DOMAIN replies :
       /\ replies[r] \in Outcome
       /\ replies[r] \in {"Stale", "NotNeeded"} \/ request'[r].generation = sequence'

(* A step in which the requests in new reach the coordinator.               *)
Carries(new) ==
  /\ sequence' \in 0 .. MaxGeneration /\ sequence' >= sequence
  /\ request' \in [Request -> [generation : 0 .. MaxGeneration, startAfterGrant : BOOLEAN,
                               progress : Progress]]
  /\ \A r \in Request \ new : request'[r] = request[r]
  /\ \A r \in new : /\ request[r].progress # "begun" /\ request'[r].progress = "begun"
                    /\ request'[r].generation \in Gen /\ request'[r].generation <= sequence'

(* The coordinator's registers are in order.                                *)
Coordinates ==
  /\ pending \in [requests : SUBSET Request, stage : Stage \cup {"none"}, staleDelivered : BOOLEAN]
  /\ queued \in Request \cup {NoRequest}
  /\ action \in Stage \cup {"none"}
  /\ launcher \in Request \cup {NoRequest}
  /\ OwnersShape
  /\ \A r \in Request :
       r \in pending.requests \/ r = queued \/ r = launcher => request[r].progress = "begun"

(* The service launches are in order.                                       *)
Launches ==
  /\ launch \in [stage : {"none", "granted", "remembered"}, generation : 0 .. MaxGeneration]
  /\ serviceLaunchGeneration \in 0 .. MaxGeneration
  /\ launches \in [Gen -> Nat]
  /\ lifted \subseteq Gen
  /\ LaunchShape

(* The initial states satisfy the invariant.                                *)
LEMMA InitIInv == Init => IInv
<1> SUFFICES ASSUME Init PROVE IInv
  OBVIOUS
<1>1. 0 \in 0 .. MaxGeneration /\ 0 \in 0 .. MaxRevocations /\ Len(<<>>) = 0 /\ <<>> \in Seq(Outcome)
  OBVIOUS
<1>2. TypeOK
  <2>1. Unused \in [generation : 0 .. MaxGeneration, startAfterGrant : BOOLEAN, progress : Progress]
    BY <1>1 DEF Unused, Progress
  <2>2. NoPending \in [requests : SUBSET Request, stage : Stage \cup {"none"}, staleDelivered : BOOLEAN]
    BY DEF NoPending
  <2>3. \A r \in Request : DOMAIN answers[r] = {}
    BY DEF Init
  <2> HIDE DEF Unused, NoPending
  <2> QED
    BY <1>1, <2>1, <2>2, <2>3 DEF Init, TypeOK, NoRequest, NoLaunch
<1>3. RequestsBegun /\ OwnersShape
  BY <1>1 DEF Init, RequestsBegun, OwnersShape, NoPending, Unused, NoRequest, Request
<1>4. AnswersKept
  BY <1>1 DEF Init, AnswersKept, NoCallbackLost, Held, NoPending, Unused, NoRequest
<1>5. DialogShape /\ LaunchShape
  BY <1>1 DEF Init, DialogShape, LaunchShape, LaunchSpent, NoLaunch, NoPending, Stage, Gen
<1> QED
  BY <1>2, <1>3, <1>4, <1>5 DEF IInv

-----------------------------------------------------------------------------
(* One argument for all operations.                                         *)

(* What the coordinator holds has reached it, and what is held is not yet   *)
(* among the requests that reach it now.                                    *)
LEMMA HeldBegun ==
  ASSUME IInv
  PROVE  /\ Held \subseteq Request
         /\ \A r \in Held : request[r].progress = "begun"
  BY DEF IInv, TypeOK, RequestsBegun, Held

(* A result reaches only requests of the current generation: the body of    *)
(* ResultsAreCurrent.                                                       *)
ResultsCurrent ==
  \A r \in Request :
    answers'[r] # answers[r] /\ answers'[r][Len(answers'[r])] \notin {"Stale", "NotNeeded"}
      => request'[r].generation = sequence'

(* The last answer is the one that was appended.                            *)
LEMMA LastAnswer ==
  ASSUME IInv, NEW replies, Answer(replies), NEW r \in Request,
         r \in DOMAIN replies => replies[r] \in Outcome
  PROVE  IF r \in DOMAIN replies THEN answers'[r][Len(answers'[r])] = replies[r]
         ELSE answers'[r] = answers[r]
<1>1. answers[r] \in Seq(Outcome)
  BY DEF IInv, AnswersKept
<1>2. answers'[r] = IF r \in DOMAIN replies THEN Append(answers[r], replies[r]) ELSE answers[r]
  BY DEF Answer
<1> HIDE DEF Outcome
<1>3. ASSUME NEW s \in Seq(Outcome), NEW o \in Outcome
      PROVE  Append(s, o)[Len(Append(s, o))] = o
  BY <1>3
<1> QED
  BY <1>1, <1>2, <1>3

(* Whoever settles what it takes over gives results to the current only.    *)
LEMMA SettlesCurrent ==
  ASSUME IInv, NEW new \in SUBSET Request, NEW replies, Settles(new, replies)
  PROVE  ResultsCurrent
  BY LastAnswer DEF Settles, ResultsCurrent

(* Operations that settle what they take over keep the answers in order.    *)
LEMMA SettlesKeepsAnswers ==
  ASSUME IInv, NEW new \in SUBSET Request, Carries(new), NEW replies, Settles(new, replies),
         launchFailed' = launchFailed
  PROVE  AnswersKept'
<1>1. answers \in [Request -> Seq(Outcome)]
  BY DEF IInv, AnswersKept
<1>2. DOMAIN replies \subseteq Request
  BY HeldBegun DEF Settles
<1>3. \A r \in Request : answers'[r] = IF r \in DOMAIN replies THEN Append(answers[r], replies[r])
                                       ELSE answers[r]
  BY DEF Settles, Answer
<1>4. answers' \in [Request -> Seq(Outcome)]
  <2>1. \A r \in DOMAIN replies : Append(answers[r], replies[r]) \in Seq(Outcome)
    BY <1>1, <1>2 DEF Settles
  <2> QED
    BY <1>1, <2>1 DEF Settles, Answer
<1>5. \A r \in DOMAIN replies : Len(answers'[r]) = Len(answers[r]) + 1 /\ answers'[r] # <<>>
  <2> SUFFICES ASSUME NEW r \in DOMAIN replies
               PROVE  Len(answers'[r]) = Len(answers[r]) + 1 /\ answers'[r] # <<>>
    OBVIOUS
  <2>1. answers'[r] = Append(answers[r], replies[r]) /\ answers[r] \in Seq(Outcome)
        /\ replies[r] \in Outcome
    BY <1>1, <1>2, <1>3 DEF Settles
  <2> HIDE DEF Outcome
  <2> QED
    BY <2>1
<1>6. \A r \in new : answers[r] = <<>>
  BY DEF IInv, RequestsBegun, Carries
<1>7. NoCallbackLost'
  <2> SUFFICES ASSUME NEW r \in Request, request'[r].progress = "begun", answers'[r] = <<>>
               PROVE  r \in Held'
    BY DEF NoCallbackLost, Held
  <2>1. r \notin DOMAIN replies /\ answers[r] = <<>>
    BY <1>3, <1>5
  <2>2. r \in new \/ request[r].progress = "begun"
    BY DEF Carries
  <2>3. r \in Held \cup new
    BY <2>1, <2>2 DEF IInv, AnswersKept, NoCallbackLost, Held, Request, NoRequest
  <2> QED
    BY <2>1, <2>3 DEF Settles
<1>8. ASSUME ~launchFailed, NEW r \in Request
      PROVE  Len(answers'[r]) <= 1 /\ (r \in Held' => answers'[r] = <<>>)
  <2>1. Len(answers[r]) <= 1 /\ (r \in Held => answers[r] = <<>>)
    BY <1>8 DEF IInv, AnswersKept
  <2>2. CASE r \in DOMAIN replies
    <3>1. answers[r] = <<>>
      BY <1>6, <2>1, <2>2 DEF Settles
    <3> QED
      BY <1>5, <2>2, <3>1 DEF Settles
  <2>3. CASE r \notin DOMAIN replies
    BY <1>3, <1>6, <2>1, <2>3 DEF Settles
  <2> QED
    BY <2>2, <2>3
<1> QED
  BY <1>4, <1>7, <1>8 DEF AnswersKept

(* An operation that settles what it takes over, and leaves the registers   *)
(* in order, preserves the invariant.                                       *)
LEMMA OperationPreserves ==
  ASSUME IInv, NEW new \in SUBSET Request, Carries(new), NEW replies, Settles(new, replies),
         Coordinates', Launches', DialogShape', dialogs' \in [Stage -> Nat],
         alive' \in BOOLEAN, UNCHANGED <<osVars, launchFailed>>
  PROVE  IInv' /\ ResultsCurrent
<1>1. AnswersKept'
  BY SettlesKeepsAnswers
<1>2. TypeOK'
  <2>1. \A r \in Request : \A i \in DOMAIN answers'[r] : answers'[r][i] \in Outcome
    BY <1>1 DEF AnswersKept
  <2> QED
    BY <2>1 DEF IInv, TypeOK, Carries, Coordinates, Launches, osVars
<1>3. RequestsBegun'
  <2> SUFFICES ASSUME NEW r \in Request
               PROVE  /\ request'[r].progress # "unused" => request'[r].generation \in Gen
                      /\ request'[r].generation <= sequence'
                      /\ answers'[r] # <<>> => request'[r].progress = "begun"
    BY DEF RequestsBegun, Coordinates
  <2>1. CASE r \in new
    BY <2>1 DEF Carries
  <2>2. CASE r \notin new
    <3>1. request'[r] = request[r] /\ sequence' >= sequence /\ sequence \in Nat /\ sequence' \in Nat
          /\ request[r].generation \in Nat
      BY <2>2 DEF Carries, IInv, TypeOK
    <3>2. answers'[r] # <<>> => r \in Held \/ answers[r] # <<>>
      BY <2>2 DEF Settles, Answer
    <3> QED
      BY <3>1, <3>2, HeldBegun DEF IInv, RequestsBegun
  <2> QED
    BY <2>1, <2>2
<1> QED
  BY <1>1, <1>2, <1>3, SettlesCurrent DEF IInv, Coordinates, Launches

-----------------------------------------------------------------------------
(* The pieces the operations are made of.                                   *)

(* What the dialog's owners have in common is their generation.             *)
LEMMA PendingGeneration ==
  ASSUME IInv
  PROVE  \A r \in pending.requests : request[r].generation = generationOf(pending.requests)
  BY DEF IInv, OwnersShape, generationOf

(* NoPending is the state without owners.                                   *)
LEMMA NobodyPending ==
  ASSUME IInv
  PROVE  /\ pending = NoPending <=> pending.requests = {}
         /\ pending = NoPending => queued = NoRequest
  BY DEF IInv, TypeOK, OwnersShape, NoPending

(* NoPending's fields.                                                      *)
LEMMA NoPendingFields ==
  /\ NoPending \in [requests : SUBSET Request, stage : Stage \cup {"none"}, staleDelivered : BOOLEAN]
  /\ NoPending.requests = {} /\ NoPending.stage = "none" /\ NoPending.staleDelivered = FALSE
  BY DEF NoPending

(* Whoever holds a callback holds it while the requests of others come in.  *)
LEMMA OwnersStay ==
  ASSUME IInv, NEW new \in SUBSET Request, Carries(new),
         UNCHANGED <<pending, queued>>, launcher' \in {launcher, NoRequest},
         action' \in {action, "none"}
  PROVE  Coordinates' /\ Held' = Held /\ new \cap Held = {} /\ new \cap pending.requests = {}
<1>1. \A r \in Request : r \in pending.requests \/ r = queued \/ r = launcher => r \notin new
  BY DEF IInv, RequestsBegun, Carries
<1>2. \A r \in pending.requests : r \in Request /\ request'[r] = request[r]
  BY <1>1 DEF IInv, TypeOK, Carries
<1>3. OwnersShape'
  <2>1. pending.staleDelivered => \A r \in pending.requests : request[r].generation < sequence'
    <3> SUFFICES ASSUME pending.staleDelivered, NEW r \in pending.requests
                 PROVE  request[r].generation < sequence'
      OBVIOUS
    <3>1. request[r].generation < sequence /\ request[r].generation \in Nat
      BY DEF IInv, OwnersShape, TypeOK
    <3> QED
      BY <3>1 DEF Carries, IInv, TypeOK
  <2> QED
    BY <1>2, <2>1 DEF IInv, OwnersShape
<1>4. Coordinates'
  BY <1>1, <1>3 DEF Coordinates, IInv, TypeOK, RequestsBegun, Carries, Request, NoRequest
<1> QED
  BY <1>1, <1>4, HeldBegun DEF Held, Carries

(* An operation of the coordinator hands a launch to the activity or does   *)
(* not; it launches nothing.                                                *)
LEMMA LaunchesKept ==
  ASSUME IInv, sequence' \in 0 .. MaxGeneration, sequence' >= sequence, UNCHANGED launchVars,
         \/ UNCHANGED launch
         \/ \E rs : \E g \in Gen : GrantLaunch(rs, g)
  PROVE  Launches'
<1>1. /\ launch \in [stage : {"none", "granted", "remembered"}, generation : 0 .. MaxGeneration]
      /\ serviceLaunchGeneration \in 0 .. MaxGeneration /\ launches \in [Gen -> Nat]
      /\ lifted \subseteq Gen
      /\ LaunchShape
      /\ sequence \in Nat /\ sequence' \in Nat
      /\ UNCHANGED <<serviceLaunchGeneration, launches, lifted>>
  BY DEF IInv, TypeOK, launchVars
<1>2. /\ serviceLaunchGeneration <= sequence' /\ serviceLaunchGeneration \in Nat
      /\ \A g \in lifted : g <= sequence'
  BY <1>1 DEF LaunchShape, Gen
<1>3. CASE UNCHANGED launch
  BY <1>1, <1>2, <1>3 DEF Launches, LaunchShape, LaunchSpent
<1>4. ASSUME NEW rs, NEW g \in Gen, GrantLaunch(rs, g)
      PROVE  Launches'
  <2>1. /\ launch' \in [stage : {"none", "granted"}, generation : 0 .. MaxGeneration]
        /\ launch'.stage # "none" => launch'.generation \in Gen
    BY <1>4 DEF GrantLaunch, NoLaunch, Gen
  <2>2. \A h \in Gen : LaunchSpent(h) => LaunchSpent(h)'
    BY <1>1, <2>1 DEF LaunchSpent
  <2>3. ASSUME NEW h \in Gen
        PROVE  launches[h] <= (IF h \in lifted THEN 1 ELSE 0) + (IF LaunchSpent(h)' THEN 1 ELSE 0)
    <3>1. /\ launches[h] <= (IF h \in lifted THEN 1 ELSE 0) + (IF LaunchSpent(h) THEN 1 ELSE 0)
          /\ launches[h] \in Nat
      BY <1>1 DEF LaunchShape
    <3> HIDE DEF LaunchSpent
    <3> QED
      BY <2>2, <3>1
  <2> QED
    BY <1>1, <1>2, <2>1, <2>3 DEF Launches, LaunchShape
<1> QED
  BY <1>3, <1>4

(* activate, for requests rs of the current generation, after the callbacks *)
(* in earlier: rs becomes the owner of the dialog that is missing, or is    *)
(* granted.                                                                 *)
LEMMA ActivateSettles ==
  ASSUME IInv, UNCHANGED launchVars, NEW new \in SUBSET Request, Carries(new),
         NEW rs \in SUBSET Request, NEW g \in Gen, NEW by \in rs \cup {NoRequest}, NEW earlier,
         rs # {}, g = sequence', queued' = NoRequest,
         \A r \in rs : request'[r].generation = g /\ request'[r].progress = "begun",
         DOMAIN earlier \cap rs = {}, Held \cup new = DOMAIN earlier \cup rs,
         \A r \in DOMAIN earlier :
           /\ earlier[r] \in Outcome
           /\ earlier[r] \in {"Stale", "NotNeeded"} \/ request'[r].generation = sequence',
         activate(rs, g, by, earlier)
  PROVE  /\ \E replies : Settles(new, replies)
         /\ Coordinates' /\ Launches'
         /\ action' = pending'.stage
<1>1. action' = missingStage /\ launcher' = by /\ missingStage \in Stage \cup {"none"}
  BY DEF activate, missingStage, Stage
<1>2. sequence' \in 0 .. MaxGeneration /\ sequence' >= sequence
  BY DEF Carries
<1>3. \A r \in Request : r = queued' \/ r = launcher' => r \in rs
  BY <1>1 DEF Request, NoRequest
<1>4. by \in Request \cup {NoRequest}
  OBVIOUS
<1>5. CASE missingStage # "none"
  <2>1. /\ pending' = [requests |-> rs, stage |-> missingStage, staleDelivered |-> FALSE]
        /\ Answer(earlier) /\ UNCHANGED launch
    BY <1>5 DEF activate
  <2>2. pending'.requests = rs /\ pending'.stage = missingStage /\ pending'.staleDelivered = FALSE
    BY <2>1
  <2>3. pending' \in [requests : SUBSET Request, stage : Stage \cup {"none"}, staleDelivered : BOOLEAN]
    BY <1>1, <2>1
  <2>4. OwnersShape'
    BY <1>5, <2>2 DEF OwnersShape
  <2>5. Coordinates'
    BY <1>1, <1>3, <1>4, <2>2, <2>3, <2>4 DEF Coordinates
  <2>6. Held' = rs
    BY <2>2 DEF Held, NoRequest
  <2>7. Settles(new, earlier)
    BY <2>1, <2>6 DEF Settles
  <2> QED
    BY <1>1, <1>2, <2>1, <2>2, <2>5, <2>7, LaunchesKept
<1>6. CASE missingStage = "none"
  <2>1. /\ pending' = NoPending
        /\ Answer(Then(earlier, Reply(rs, "Granted")))
        /\ GrantLaunch(rs, g)
    BY <1>6 DEF activate
  <2>2. OwnersShape'
    BY <2>1, NoPendingFields DEF OwnersShape
  <2>3. Coordinates'
    BY <1>1, <1>3, <1>4, <2>1, <2>2, NoPendingFields DEF Coordinates
  <2>4. Held' = {}
    BY <2>1, NoPendingFields DEF Held
  <2> DEFINE replies == Then(earlier, Reply(rs, "Granted"))
  <2>5. /\ DOMAIN replies = DOMAIN earlier \cup rs
        /\ \A r \in DOMAIN earlier : replies[r] = earlier[r]
        /\ \A r \in rs : replies[r] = "Granted"
    BY DEF Then, Reply
  <2>6. Answer(replies)
    BY <2>1
  <2> HIDE DEF replies
  <2>7. Settles(new, replies)
    BY <2>4, <2>5, <2>6 DEF Settles, Outcome
  <2> QED
    BY <1>1, <1>2, <1>6, <2>1, <2>3, <2>7, LaunchesKept, NoPendingFields
<1> QED
  BY <1>5, <1>6

(* activateQueued, after the callbacks of the dialog's owners.              *)
LEMMA ActivateQueuedSettles ==
  ASSUME IInv, UNCHANGED <<sequence, request, launchVars>>, NEW earlier,
         DOMAIN earlier = unnotified,
         \A r \in DOMAIN earlier :
           /\ earlier[r] \in Outcome
           /\ earlier[r] \in {"Stale", "NotNeeded"} \/ request[r].generation = sequence,
         activateQueued(earlier)
  PROVE  /\ \E replies : Settles({}, replies)
         /\ Carries({}) /\ Coordinates' /\ Launches'
         /\ action' = pending'.stage
<1>1. Carries({})
  BY DEF Carries, IInv, TypeOK
<1>2. Held = DOMAIN earlier \cup ({queued} \ {NoRequest})
  BY DEF Held, unnotified
<1>3. queued # NoRequest => DOMAIN earlier = {}
  BY DEF IInv, OwnersShape, unnotified
<1>4. queued' = NoRequest /\ queued \in Request \cup {NoRequest}
  BY DEF activateQueued, IInv, TypeOK
<1>5. CASE /\ queued # NoRequest
           /\ request[queued].generation = sequence
           /\ activate({queued}, sequence, NoRequest, earlier)
  <2>1. request[queued].progress = "begun" /\ request[queued].generation \in Gen
    BY <1>4, <1>5 DEF IInv, RequestsBegun
  <2>2. {queued} \in SUBSET Request /\ {} \in SUBSET Request /\ NoRequest \in {queued} \cup {NoRequest}
    BY <1>4, <1>5
  <2>3. Held \cup {} = DOMAIN earlier \cup {queued} /\ DOMAIN earlier \cap {queued} = {}
    BY <1>2, <1>3, <1>5
  <2>4. sequence \in Gen
    BY <1>5, <2>1
  <2> QED
    BY <1>1, <1>4, <1>5, <2>1, <2>2, <2>3, <2>4, ActivateSettles
<1>6. CASE /\ pending' = NoPending
           /\ Answer(Then(earlier, Reply({queued} \ {NoRequest}, "Stale")))
           /\ UNCHANGED launch
           /\ action' = "none" /\ launcher' = NoRequest
  <2>1. Coordinates'
    BY <1>4, <1>6, NoPendingFields DEF Coordinates, OwnersShape, Request, NoRequest
  <2>2. Held' = {}
    BY <1>4, <1>6, NoPendingFields DEF Held
  <2> DEFINE replies == Then(earlier, Reply({queued} \ {NoRequest}, "Stale"))
  <2>3. /\ DOMAIN replies = DOMAIN earlier \cup ({queued} \ {NoRequest})
        /\ \A r \in DOMAIN earlier : replies[r] = earlier[r]
        /\ \A r \in DOMAIN replies : r \in DOMAIN earlier \/ replies[r] = "Stale"
    BY DEF Then, Reply
  <2>4. Answer(replies)
    BY <1>6
  <2> HIDE DEF replies
  <2>5. Settles({}, replies)
    BY <1>2, <2>2, <2>3, <2>4 DEF Settles, Outcome
  <2> QED
    BY <1>1, <1>6, <2>1, <2>5, LaunchesKept, NoPendingFields DEF Carries
<1> QED
  BY <1>5, <1>6 DEF activateQueued

-----------------------------------------------------------------------------
(* The coordinator's two operations.                                        *)

(* What every operation achieves.                                           *)
Handled(new) ==
  /\ \E replies : Settles(new, replies)
  /\ Coordinates' /\ Launches'

(* begin: the request is told Stale, shares the dialog of its generation,   *)
(* waits for the dialog of another one, or gets its own.                    *)
LEMMA BeginSettles ==
  ASSUME IInv, UNCHANGED launchVars, NEW r \in Request, Carries({r}), NEW g, g = request'[r].generation,
         action = "none", begin(r, g)
  PROVE  /\ Handled({r})
         /\ \/ action' = pending'.stage /\ pending = NoPending
            \/ action' = action /\ pending'.stage = pending.stage
<1>1. g \in Gen /\ g <= sequence' /\ request'[r].progress = "begun"
      /\ sequence' \in 0 .. MaxGeneration /\ sequence' >= sequence
  BY DEF Carries
<1>2. r \notin Held /\ r \notin pending.requests /\ Held \subseteq Request
  BY HeldBegun DEF Carries, IInv, RequestsBegun
<1>3. pending \in [requests : SUBSET Request, stage : Stage \cup {"none"}, staleDelivered : BOOLEAN]
  BY DEF IInv, TypeOK
<1>4. CASE /\ g # sequence'
           /\ Answer(Reply({r}, "Stale"))
           /\ UNCHANGED launch
           /\ UNCHANGED <<pending, queued, action, launcher>>
  <2>1. Coordinates' /\ Held' = Held
    BY <1>4, OwnersStay
  <2>2. Settles({r}, Reply({r}, "Stale"))
    BY <1>2, <1>4, <2>1, Replies DEF Settles, Outcome
  <2> QED
    BY <1>1, <1>4, <2>1, <2>2, LaunchesKept DEF Handled
<1>5. CASE /\ g = sequence' /\ pending # NoPending /\ generationOf(pending.requests) = g
           /\ pending' = [pending EXCEPT !.requests = merge(@, r)]
           /\ Answer(<<>>)
           /\ UNCHANGED launch
           /\ UNCHANGED <<queued, action, launcher>>
  <2>1. pending'.requests = pending.requests \cup {r} /\ pending'.stage = pending.stage
        /\ pending'.staleDelivered = pending.staleDelivered
    BY <1>3, <1>5 DEF merge
  <2>2. \A q \in pending.requests : request[q].generation = g /\ request'[q] = request[q]
    BY <1>2, <1>3, <1>5, PendingGeneration DEF Carries
  <2>3. ~pending.staleDelivered
    <3>1. PICK q \in pending.requests : TRUE
      BY <1>5, NobodyPending
    <3>2. request[q].generation = sequence' /\ request[q].generation <= sequence
          /\ sequence \in Nat
      BY <1>3, <1>5, <2>2, <3>1 DEF IInv, RequestsBegun, TypeOK
    <3> QED
      BY <1>1, <3>2 DEF IInv, OwnersShape
  <2>4. OwnersShape'
    BY <1>5, <2>1, <2>2, <2>3, NobodyPending DEF IInv, OwnersShape
  <2>5. Coordinates'
    <3>1. pending' \in [requests : SUBSET Request, stage : Stage \cup {"none"}, staleDelivered : BOOLEAN]
      BY <1>3, <1>5 DEF merge
    <3>2. \A q \in Request : q \in pending'.requests \/ q = queued' \/ q = launcher' =>
            request'[q].progress = "begun"
      BY <1>1, <1>5, <2>1 DEF IInv, RequestsBegun, Carries
    <3> QED
      BY <1>5, <2>4, <3>1, <3>2 DEF Coordinates, IInv, TypeOK
  <2>6. Held' = Held \cup {r}
    BY <1>5, <2>1, <2>3 DEF Held
  <2>7. Settles({r}, <<>>)
    BY <1>5, <2>6, Replies DEF Settles
  <2> QED
    BY <1>1, <1>5, <2>1, <2>5, <2>7, LaunchesKept DEF Handled
<1>6. CASE /\ g = sequence' /\ pending # NoPending /\ generationOf(pending.requests) # g
           /\ pending' = [pending EXCEPT !.staleDelivered = TRUE]
           /\ queued' = r
           /\ Answer(Reply(unnotified \cup ({queued} \ {NoRequest}), "Stale"))
           /\ UNCHANGED launch
           /\ UNCHANGED <<action, launcher>>
  <2>1. pending'.requests = pending.requests /\ pending'.stage = pending.stage
        /\ pending'.staleDelivered = TRUE
    BY <1>3, <1>6
  <2>2. \A q \in pending.requests : request'[q] = request[q] /\ request[q].generation < sequence'
    <3> SUFFICES ASSUME NEW q \in pending.requests
                 PROVE  request'[q] = request[q] /\ request[q].generation < sequence'
      OBVIOUS
    <3>1. request'[q] = request[q]
      BY <1>2, <1>3 DEF Carries
    <3>2. request[q].generation # g
      BY <1>6, PendingGeneration
    <3>3. request[q].generation <= sequence /\ request[q].generation \in Nat /\ sequence \in Nat
      BY <1>3 DEF IInv, RequestsBegun, TypeOK
    <3> QED
      BY <1>1, <1>6, <3>1, <3>2, <3>3 DEF Gen
  <2>3. OwnersShape'
    BY <1>6, <2>1, <2>2, NobodyPending DEF IInv, OwnersShape
  <2>4. Coordinates'
    <3>1. pending' \in [requests : SUBSET Request, stage : Stage \cup {"none"}, staleDelivered : BOOLEAN]
      BY <1>3, <1>6
    <3>2. \A q \in Request : q \in pending'.requests \/ q = queued' \/ q = launcher' =>
            request'[q].progress = "begun"
      BY <1>1, <1>6, <2>1 DEF IInv, RequestsBegun, Carries
    <3> QED
      BY <1>6, <2>3, <3>1, <3>2 DEF Coordinates, IInv, TypeOK
  <2>5. Held = unnotified \cup ({queued} \ {NoRequest}) /\ Held' = {r}
    BY <1>6, <2>1 DEF Held, unnotified, Request, NoRequest
  <2>6. Settles({r}, Reply(unnotified \cup ({queued} \ {NoRequest}), "Stale"))
    <3> DEFINE told == unnotified \cup ({queued} \ {NoRequest})
               replies == Reply(told, "Stale")
    <3>1. DOMAIN replies = told /\ \A q \in told : replies[q] = "Stale"
      BY Replies
    <3>2. Answer(replies) /\ Held = told /\ Held' = {r}
      BY <1>6, <2>5
    <3> HIDE DEF told, replies
    <3>3. Held' = (Held \cup {r}) \ DOMAIN replies
      BY <1>2, <3>1, <3>2
    <3>4. Settles({r}, replies)
      BY <3>1, <3>2, <3>3 DEF Settles, Outcome
    <3> QED
      BY <3>4 DEF told, replies
  <2> QED
    BY <1>1, <1>6, <2>1, <2>4, <2>6, LaunchesKept DEF Handled
<1>7. CASE /\ g = sequence' /\ pending = NoPending
           /\ activate({r}, g, r, <<>>)
           /\ UNCHANGED queued
  <2>1. Held = {} /\ queued' = NoRequest
    BY <1>7, NobodyPending, NoPendingFields DEF Held
  <2>2. {r} \in SUBSET Request /\ r \in {r} \cup {NoRequest} /\ {r} # {}
    OBVIOUS
  <2>3. \A q \in {r} : request'[q].generation = g /\ request'[q].progress = "begun"
    BY <1>1
  <2>4. DOMAIN <<>> \cap {r} = {} /\ Held \cup {r} = DOMAIN <<>> \cup {r}
        /\ \A q \in DOMAIN <<>> :
             /\ <<>>[q] \in Outcome
             /\ <<>>[q] \in {"Stale", "NotNeeded"} \/ request'[q].generation = sequence'
    BY <2>1, Replies
  <2>5. /\ \E replies : Settles({r}, replies)
        /\ Coordinates' /\ Launches'
        /\ action' = pending'.stage
    BY <1>1, <1>7, <2>1, <2>2, <2>3, <2>4, ActivateSettles
  <2> QED
    BY <1>7, <2>5 DEF Handled
<1> QED
  BY <1>4, <1>5, <1>6, <1>7 DEF begin

(* complete: the dialog's owners get its result if they are current, and    *)
(* whoever waited for that dialog is served.                                *)
LEMMA CompleteSettles ==
  ASSUME IInv, NEW stage \in Stage, NEW granted \in BOOLEAN,
         UNCHANGED <<sequence, request, launchVars>>, complete(stage, granted)
  PROVE  /\ Carries({}) /\ Handled({})
         /\ \/ action' = pending'.stage
            \/ pending.stage # stage
<1>1. Carries({}) /\ sequence' \in 0 .. MaxGeneration /\ sequence' >= sequence
  BY DEF Carries, IInv, TypeOK
<1>2. pending \in [requests : SUBSET Request, stage : Stage \cup {"none"}, staleDelivered : BOOLEAN]
  BY DEF IInv, TypeOK
<1> DEFINE denial == IF stage = "Notification" THEN "NotificationDenied" ELSE "VpnDenied"
<1>3. CASE /\ pending.stage # stage
           /\ Answer(<<>>)
           /\ UNCHANGED launch
           /\ action' = "none" /\ launcher' = NoRequest
           /\ UNCHANGED <<pending, queued>>
  <2>1. Coordinates' /\ Held' = Held
    BY <1>1, <1>3, OwnersStay
  <2>2. Settles({}, <<>>)
    BY <1>3, <2>1, Replies DEF Settles
  <2> QED
    BY <1>1, <1>3, <2>1, <2>2, LaunchesKept DEF Handled
<1>4. CASE /\ superseded
           /\ activateQueued(Reply(unnotified, "Stale"))
  <2>1. DOMAIN Reply(unnotified, "Stale") = unnotified
        /\ \A r \in unnotified : Reply(unnotified, "Stale")[r] = "Stale"
    BY Replies
  <2> QED
    BY <1>1, <1>4, <2>1, ActivateQueuedSettles DEF Handled, Outcome
<1>5. CASE /\ pending.stage = stage /\ ~superseded
           /\ activateQueued(Reply(pending.requests, denial))
  <2>1. DOMAIN Reply(pending.requests, denial) = pending.requests
        /\ \A r \in pending.requests : Reply(pending.requests, denial)[r] = denial
    BY Replies
  <2>2. ~pending.staleDelivered /\ generationOf(pending.requests) = sequence
    BY <1>5 DEF superseded
  <2>3. \A r \in pending.requests : request[r].generation = sequence
    BY <2>2, PendingGeneration
  <2>4. DOMAIN Reply(pending.requests, denial) = unnotified /\ denial \in Outcome
    BY <2>1, <2>2 DEF unnotified, Outcome
  <2> HIDE DEF denial
  <2> QED
    BY <1>1, <1>5, <2>1, <2>3, <2>4, ActivateQueuedSettles DEF Handled
<1>6. CASE /\ pending.stage = stage /\ ~superseded
           /\ activate(pending.requests, sequence, NoRequest, <<>>)
           /\ UNCHANGED queued
  <2>1. ~pending.staleDelivered /\ generationOf(pending.requests) = sequence
    BY <1>6 DEF superseded
  <2>2. pending.requests # {} /\ queued' = NoRequest
    BY <1>6, <2>1 DEF IInv, OwnersShape, Stage
  <2>3. \A r \in pending.requests : /\ request'[r].generation = sequence
                                    /\ request'[r].progress = "begun"
                                    /\ request'[r].generation \in Gen
    BY <1>2, <2>1, PendingGeneration DEF IInv, RequestsBegun
  <2>4. Held = pending.requests /\ sequence \in Gen /\ pending.requests \in SUBSET Request
    BY <1>2, <1>6, <2>1, <2>2, <2>3 DEF Held
  <2>5. DOMAIN <<>> \cap pending.requests = {} /\ Held \cup {} = DOMAIN <<>> \cup pending.requests
        /\ \A q \in DOMAIN <<>> :
             /\ <<>>[q] \in Outcome
             /\ <<>>[q] \in {"Stale", "NotNeeded"} \/ request'[q].generation = sequence'
    BY <2>4, Replies
  <2>6. NoRequest \in pending.requests \cup {NoRequest} /\ {} \in SUBSET Request
    OBVIOUS
  <2> QED
    BY <1>1, <1>6, <2>2, <2>3, <2>4, <2>5, <2>6, ActivateSettles DEF Handled
<1> QED
  BY <1>3, <1>4, <1>5, <1>6 DEF complete

-----------------------------------------------------------------------------
(* One lemma per group of actions: each preserves the invariant.            *)

(* An operation whose dialogs are in order preserves the invariant.         *)
LEMMA HandledPreserves ==
  ASSUME IInv, NEW new \in SUBSET Request, Carries(new), Handled(new), DialogShape',
         dialogs' \in [Stage -> Nat], UNCHANGED <<osVars, launchFailed, alive>>
  PROVE  IInv' /\ ResultsCurrent
<1>1. PICK replies : Settles(new, replies)
  BY DEF Handled
<1>2. alive' \in BOOLEAN
  BY DEF IInv, TypeOK
<1> QED
  BY <1>1, <1>2, OperationPreserves DEF Handled

(* begin, called with no dialog to launch, leaves the dialogs in order.     *)
LEMMA BeginPreserves ==
  ASSUME IInv, MainLooperFree, NEW r \in Request, Carries({r}),
         begin(r, request'[r].generation), UNCHANGED <<dialogs, osVars, launchVars, launchFailed, alive>>
  PROVE  IInv' /\ ResultsCurrent
<1>1. /\ Handled({r})
      /\ \/ action' = pending'.stage /\ pending = NoPending
         \/ action' = action /\ pending'.stage = pending.stage
  BY BeginSettles DEF MainLooperFree
<1>2. DialogShape'
  BY <1>1, NoPendingFields DEF IInv, DialogShape, MainLooperFree, Stage
<1>3. dialogs' \in [Stage -> Nat]
  BY DEF IInv, TypeOK
<1> QED
  BY <1>1, <1>2, <1>3, HandledPreserves

(* PrepareVpn posts its request; the counter may move on.                   *)
LEMMA PrepareVpnPreserves ==
  ASSUME IInv, NEW r \in Request, NEW g \in Gen, PrepareVpn(r, g)
  PROVE  IInv' /\ ResultsCurrent
<1>1. /\ request[r] = Unused /\ g >= sequence /\ sequence' = g
      /\ request' = [request EXCEPT ![r] = [generation |-> g, startAfterGrant |-> FALSE,
                                            progress |-> "posted"]]
      /\ UNCHANGED <<pending, queued, action, launcher, dialogs, osVars, launch, launchVars,
                     answers, launchFailed, alive>>
  BY DEF PrepareVpn, isNext
<1>2. /\ request \in [Request -> [generation : 0 .. MaxGeneration, startAfterGrant : BOOLEAN,
                                  progress : Progress]]
      /\ sequence \in 0 .. MaxGeneration /\ g \in 0 .. MaxGeneration
  BY DEF IInv, TypeOK, Gen
<1>3. request[r].progress = "unused"
  BY <1>1 DEF Unused
<1>4. /\ \A q \in Request \ {r} : request'[q] = request[q]
      /\ request'[r].generation = g /\ request'[r].progress = "posted"
  BY <1>1, <1>2
<1>5. request' \in [Request -> [generation : 0 .. MaxGeneration, startAfterGrant : BOOLEAN,
                                progress : Progress]]
  BY <1>1, <1>2 DEF Progress
<1>6. TypeOK'
  BY <1>1, <1>2, <1>5 DEF IInv, TypeOK, osVars, launchVars
<1>7. r \notin pending.requests /\ r # queued /\ r # launcher /\ answers[r] = <<>>
  BY <1>3 DEF IInv, RequestsBegun
<1>8. RequestsBegun'
  <2> SUFFICES ASSUME NEW q \in Request
               PROVE  /\ request'[q].progress # "unused" => request'[q].generation \in Gen
                      /\ request'[q].generation <= sequence'
                      /\ q \in pending.requests \/ q = queued \/ q = launcher \/ answers[q] # <<>>
                           => request'[q].progress = "begun"
    BY <1>1 DEF RequestsBegun
  <2>1. CASE q = r
    BY <1>1, <1>2, <1>4, <1>7, <2>1
  <2>2. CASE q # r
    BY <1>1, <1>2, <1>4, <2>2 DEF IInv, RequestsBegun
  <2> QED
    BY <2>1, <2>2
<1>9. OwnersShape'
  BY <1>1, <1>2, <1>4, <1>6, <1>7 DEF IInv, OwnersShape, TypeOK
<1>10. AnswersKept'
  BY <1>1, <1>4 DEF IInv, AnswersKept, NoCallbackLost, Held
<1>11. DialogShape' /\ LaunchShape'
  BY <1>1, <1>2 DEF IInv, DialogShape, LaunchShape, LaunchSpent, launchVars, TypeOK, Gen
<1>12. ResultsCurrent
  BY <1>1 DEF ResultsCurrent
<1> QED
  BY <1>6, <1>8, <1>9, <1>10, <1>11, <1>12 DEF IInv

(* prepareVpn begins, or answers at once outside VPN mode.                  *)
LEMMA prepareVpnPreserves ==
  ASSUME IInv, NEW r \in Request, prepareVpn(r)
  PROVE  IInv' /\ ResultsCurrent
<1>1. /\ MainLooperFree /\ request[r].progress = "posted"
      /\ request' = [request EXCEPT ![r].progress = "begun"]
      /\ UNCHANGED sequence
      /\ UNCHANGED <<dialogs, osVars, launchVars, launchFailed, alive>>
  BY DEF prepareVpn
<1>2. /\ request \in [Request -> [generation : 0 .. MaxGeneration, startAfterGrant : BOOLEAN,
                                  progress : Progress]]
      /\ sequence \in 0 .. MaxGeneration
      /\ request[r].generation \in Gen /\ request[r].generation <= sequence
  BY <1>1 DEF IInv, TypeOK, RequestsBegun
<1>3. /\ \A q \in Request \ {r} : request'[q] = request[q]
      /\ request'[r].generation = request[r].generation /\ request'[r].progress = "begun"
  BY <1>1, <1>2
<1>4. request' \in [Request -> [generation : 0 .. MaxGeneration, startAfterGrant : BOOLEAN,
                                progress : Progress]]
  BY <1>1, <1>2 DEF Progress
<1>5. Carries({r})
  BY <1>1, <1>2, <1>3, <1>4 DEF Carries
<1>6. CASE begin(r, request[r].generation)
  BY <1>1, <1>3, <1>5, <1>6, BeginPreserves
<1>7. CASE /\ Answer(Reply({r}, "NotNeeded"))
           /\ UNCHANGED launch
           /\ UNCHANGED <<pending, queued, action, launcher>>
  <2>1. Coordinates' /\ Held' = Held /\ r \notin Held
    BY <1>5, <1>7, OwnersStay
  <2>2. Settles({r}, Reply({r}, "NotNeeded"))
    BY <1>7, <2>1, Replies DEF Settles, Outcome
  <2>3. Handled({r})
    BY <1>1, <1>2, <1>7, <2>1, <2>2, LaunchesKept DEF Handled
  <2>4. DialogShape' /\ dialogs' \in [Stage -> Nat]
    BY <1>1, <1>7 DEF IInv, TypeOK, DialogShape
  <2> QED
    BY <1>1, <1>5, <2>3, <2>4, HandledPreserves
<1> QED
  BY <1>6, <1>7 DEF prepareVpn

(* startService takes over a request of the generation it accepts.          *)
LEMMA startServicePreserves ==
  ASSUME IInv, NEW r \in Request, NEW g \in 0 .. MaxGeneration, startService(r, g)
  PROVE  IInv' /\ ResultsCurrent
<1> DEFINE accepted == IF g = 0 THEN sequence + 1 ELSE IF g > sequence THEN g ELSE sequence
           record == [generation |-> accepted, startAfterGrant |-> TRUE, progress |-> "begun"]
<1>1. /\ MainLooperFree /\ request[r] = Unused
      /\ accepted <= MaxGeneration
      /\ sequence' = accepted
      /\ request' = [request EXCEPT ![r] = record]
      /\ begin(r, accepted)
      /\ UNCHANGED <<dialogs, osVars, launchVars, launchFailed, alive>>
  BY DEF startService, isNext
<1>2. /\ request \in [Request -> [generation : 0 .. MaxGeneration, startAfterGrant : BOOLEAN,
                                  progress : Progress]]
      /\ sequence \in 0 .. MaxGeneration
  BY DEF IInv, TypeOK
<1>3. accepted \in Gen /\ accepted >= sequence
  BY <1>1, <1>2 DEF Gen
<1>4. request[r].progress # "begun"
  BY <1>1 DEF Unused
<1> HIDE DEF accepted
<1>5. record \in [generation : 0 .. MaxGeneration, startAfterGrant : BOOLEAN, progress : Progress]
  BY <1>3 DEF Gen, Progress
<1>6. /\ \A q \in Request \ {r} : request'[q] = request[q]
      /\ request'[r].generation = accepted /\ request'[r].progress = "begun"
      /\ request' \in [Request -> [generation : 0 .. MaxGeneration, startAfterGrant : BOOLEAN,
                                   progress : Progress]]
  BY <1>1, <1>2, <1>5
<1>7. Carries({r})
  BY <1>1, <1>2, <1>3, <1>4, <1>6 DEF Carries, Gen
<1> QED
  BY <1>1, <1>6, <1>7, BeginPreserves

(* executePermissionAction finds the consent, or shows the dialog.          *)
LEMMA ExecutePreserves ==
  ASSUME IInv, executePermissionAction
  PROVE  IInv' /\ ResultsCurrent
<1>1. /\ action # "none" /\ alive
      /\ UNCHANGED <<sequence, request, osVars, launchVars, launchFailed, alive>>
      /\ dialogs \in [Stage -> Nat] /\ action \in Stage
  BY DEF executePermissionAction, IInv, TypeOK
<1>2. ~launchFailed => pending.stage = action /\ \A s \in Stage : dialogs[s] = 0
  BY <1>1 DEF IInv, DialogShape
<1>3. CASE /\ action = "Vpn"
           /\ complete("Vpn", TRUE)
           /\ UNCHANGED dialogs
  <2>1. /\ Carries({}) /\ Handled({})
        /\ action' = pending'.stage \/ pending.stage # "Vpn"
    BY <1>1, <1>3, CompleteSettles DEF Stage
  <2>2. DialogShape'
    BY <1>1, <1>2, <1>3, <2>1 DEF DialogShape, Stage
  <2> QED
    BY <1>1, <1>3, <2>1, <2>2, HandledPreserves
<1>4. CASE /\ dialogs' = [dialogs EXCEPT ![action] = @ + 1]
           /\ action' = "none" /\ launcher' = NoRequest
           /\ Answer(<<>>)
           /\ UNCHANGED launch
           /\ UNCHANGED <<pending, queued>>
  <2>1. Carries({}) /\ sequence' \in 0 .. MaxGeneration /\ sequence' >= sequence
    BY <1>1 DEF Carries, IInv, TypeOK
  <2>2. Coordinates' /\ Held' = Held
    BY <1>4, <2>1, OwnersStay
  <2>3. Settles({}, <<>>)
    BY <1>4, <2>2, Replies DEF Settles
  <2>4. Handled({})
    BY <1>1, <1>4, <2>1, <2>2, <2>3, LaunchesKept DEF Handled
  <2>5. DialogShape' /\ dialogs' \in [Stage -> Nat]
    BY <1>1, <1>2, <1>4 DEF DialogShape
  <2> QED
    BY <1>1, <2>1, <2>4, <2>5, HandledPreserves
<1> QED
  BY <1>3, <1>4 DEF executePermissionAction

(* The dialog on the screen was the only one, and it is gone.               *)
LEMMA ResultPreserves ==
  ASSUME IInv, NEW s \in Stage, DialogResult(s)
  PROVE  IInv' /\ ResultsCurrent
<1>1. /\ alive /\ action = "none" /\ dialogs[s] > 0
      /\ dialogs' = [dialogs EXCEPT ![s] = @ - 1]
      /\ UNCHANGED <<sequence, request, osVars, launchVars, launchFailed, alive>>
      /\ dialogs \in [Stage -> Nat]
  BY DEF DialogResult, MainLooperFree, resultDue, IInv, TypeOK
<1>2. PICK granted \in BOOLEAN : complete(s, granted)
  BY DEF DialogResult, IInv, TypeOK
<1>3. /\ Carries({}) /\ Handled({})
      /\ action' = pending'.stage \/ pending.stage # s
  BY <1>1, <1>2, CompleteSettles
<1>4. dialogs' \in [Stage -> Nat]
  BY <1>1
<1>5. ~launchFailed => pending.stage = s /\ \A d \in Stage : dialogs'[d] = 0
  BY <1>1 DEF IInv, DialogShape
<1>6. DialogShape'
  BY <1>1, <1>3, <1>5 DEF DialogShape, Stage
<1> QED
  BY <1>1, <1>3, <1>4, <1>6, HandledPreserves

(* A launch that throws answers the request that began it; from then on a   *)
(* dialog may be waited for that is never shown.                            *)
LEMMA LaunchFailsPreserves ==
  ASSUME IInv, launchFails
  PROVE  IInv' /\ ResultsCurrent
<1> DEFINE outcome == IF request[launcher].generation = sequence THEN "VpnDenied" ELSE "Stale"
           replies == Reply({r \in {launcher} : ~request[r].startAfterGrant}, outcome)
<1>1. /\ launcher \in Request
      /\ Answer(replies)
      /\ action' = "none" /\ launcher' = NoRequest /\ launchFailed' = TRUE
      /\ UNCHANGED <<sequence, request, pending, queued, dialogs, osVars, launch, launchVars,
                     alive>>
  BY DEF launchFails, IInv, TypeOK
<1>2. /\ DOMAIN replies \subseteq {launcher}
      /\ \A r \in DOMAIN replies : replies[r] = outcome
  BY Replies
<1>3. outcome \in Outcome /\ (outcome # "Stale" => request[launcher].generation = sequence)
  BY DEF Outcome
<1>4. request[launcher].progress = "begun"
  BY <1>1 DEF IInv, RequestsBegun
<1> HIDE DEF replies, outcome
<1>5. ResultsCurrent
  BY <1>1, <1>2, <1>3, LastAnswer DEF ResultsCurrent
<1>6. /\ answers \in [Request -> Seq(Outcome)]
      /\ \A r \in Request : answers'[r] = IF r \in DOMAIN replies THEN Append(answers[r], replies[r])
                                           ELSE answers[r]
      /\ answers' = [r \in Request |-> answers'[r]]
  BY <1>1 DEF Answer, IInv, AnswersKept
<1>7. ASSUME NEW r \in Request
      PROVE  /\ answers'[r] \in Seq(Outcome)
             /\ answers'[r] = <<>> => answers[r] = <<>>
             /\ answers'[r] # <<>> => answers[r] # <<>> \/ request[r].progress = "begun"
  <2>1. CASE r \in DOMAIN replies
    <3>1. request[r].progress = "begun"
      BY <1>2, <1>4, <2>1
    <3>2. answers[r] \in Seq(Outcome) /\ replies[r] \in Outcome
      BY <1>2, <1>3, <1>6, <2>1
    <3>3. ASSUME NEW a \in Seq(Outcome), NEW o \in Outcome
          PROVE  Append(a, o) \in Seq(Outcome) /\ Append(a, o) # <<>>
      <4> HIDE DEF Outcome
      <4>1. Append(a, o) \in Seq(Outcome) /\ Len(Append(a, o)) = Len(a) + 1 /\ Len(a) \in Nat
        OBVIOUS
      <4>2. Len(<<>>) = 0
        OBVIOUS
      <4> QED
        BY <4>1, <4>2
    <3> QED
      BY <1>6, <2>1, <3>1, <3>2, <3>3
  <2>2. CASE r \notin DOMAIN replies
    BY <1>6, <2>2
  <2> QED
    BY <2>1, <2>2
<1>8. answers' \in [Request -> Seq(Outcome)]
  BY <1>6, <1>7
<1>9. AnswersKept'
  BY <1>1, <1>7, <1>8 DEF IInv, AnswersKept, NoCallbackLost
<1>10. TypeOK'
  <2>1. \A r \in Request : \A i \in DOMAIN answers'[r] : answers'[r][i] \in Outcome
    BY <1>8
  <2> QED
    BY <1>1, <2>1 DEF IInv, TypeOK, osVars, launchVars
<1>11. RequestsBegun'
  BY <1>1, <1>7 DEF IInv, RequestsBegun, Request, NoRequest
<1>12. OwnersShape' /\ DialogShape' /\ LaunchShape'
  BY <1>1 DEF IInv, OwnersShape, DialogShape, LaunchShape, LaunchSpent, launchVars
<1> QED
  BY <1>5, <1>9, <1>10, <1>11, <1>12 DEF IInv

(* onDestroy tells everybody who is held Stale.                             *)
LEMMA CancelAllPreserves ==
  ASSUME IInv, cancelAll
  PROVE  IInv' /\ ResultsCurrent
<1>1. /\ alive' = FALSE
      /\ Answer(Reply(Held, "Stale"))
      /\ pending' = NoPending /\ queued' = NoRequest
      /\ dialogs' = [s \in Stage |-> 0]
      /\ UNCHANGED <<sequence, request, action, launcher, osVars, launch, launchVars,
                     launchFailed>>
  BY DEF cancelAll, Held, unnotified
<1>2. Carries({}) /\ sequence' \in 0 .. MaxGeneration /\ sequence' >= sequence
  BY <1>1 DEF Carries, IInv, TypeOK
<1>3. Held' = {}
  BY <1>1, NoPendingFields DEF Held
<1>4. Settles({}, Reply(Held, "Stale"))
  BY <1>1, <1>3, Replies DEF Settles, Outcome
<1>5. Coordinates'
  BY <1>1, NoPendingFields DEF Coordinates, OwnersShape, IInv, TypeOK, RequestsBegun, Request, NoRequest
<1>6. Launches'
  BY <1>1, <1>2, LaunchesKept
<1>7. DialogShape' /\ dialogs' \in [Stage -> Nat] /\ alive' \in BOOLEAN
  BY <1>1 DEF DialogShape
<1> QED
  BY <1>1, <1>2, <1>4, <1>5, <1>6, <1>7, OperationPreserves

(* The counter and the permissions change at any moment.                    *)
LEMMA EnvironmentPreserves ==
  ASSUME IInv, Supersede \/ GrantPermission \/ RevokePermission \/ UNCHANGED vars
  PROVE  IInv' /\ ResultsCurrent
<1>1. /\ UNCHANGED <<request, pending, queued, action, launcher, dialogs, launch, launchVars,
                     answers, launchFailed, alive>>
      /\ sequence' \in 0 .. MaxGeneration /\ sequence' >= sequence
      /\ osNotification' \in BOOLEAN /\ osVpn' \in BOOLEAN /\ revocations' \in 0 .. MaxRevocations
  <2>1. sequence \in 0 .. MaxGeneration /\ revocations \in 0 .. MaxRevocations
        /\ osNotification \in BOOLEAN /\ osVpn \in BOOLEAN
    BY DEF IInv, TypeOK
  <2>2. CASE Supersede
    BY <2>1, <2>2 DEF Supersede, osVars
  <2>3. CASE GrantPermission
    <3>1. /\ UNCHANGED <<sequence, request, pending, queued, action, launcher, dialogs, revocations,
                         launch, launchVars, answers, launchFailed, alive>>
          /\ osNotification' \in BOOLEAN /\ osVpn' \in BOOLEAN
      BY <2>1, <2>3, Zenon DEF GrantPermission
    <3> QED
      BY <2>1, <3>1
  <2>4. CASE RevokePermission
    <3>1. /\ UNCHANGED <<sequence, request, pending, queued, action, launcher, dialogs,
                         launch, launchVars, answers, launchFailed, alive>>
          /\ osNotification' \in BOOLEAN /\ osVpn' \in BOOLEAN
      BY <2>1, <2>4, Zenon DEF RevokePermission
    <3>2. revocations' = revocations + 1 /\ revocations < MaxRevocations
      BY <2>4 DEF RevokePermission
    <3> QED
      BY <2>1, <3>1, <3>2
  <2>5. CASE UNCHANGED vars
    BY <2>1, <2>5 DEF vars, osVars, launchVars
  <2> QED
    BY <2>2, <2>3, <2>4, <2>5
<1>2. TypeOK'
  BY <1>1 DEF IInv, TypeOK, launchVars
<1>3. /\ sequence \in Nat /\ sequence' \in Nat
      /\ \A r \in Request : request[r].generation \in Nat
      /\ pending.requests \subseteq Request
  BY <1>1 DEF IInv, TypeOK
<1>4. RequestsBegun'
  BY <1>1, <1>3 DEF IInv, RequestsBegun
<1>8. OwnersShape'
  <2>1. ASSUME NEW r \in pending.requests, request[r].generation < sequence
        PROVE  request[r].generation < sequence'
    <3>1. request[r].generation \in Nat
      BY <1>3
    <3> QED
      BY <1>1, <1>3, <2>1, <3>1
  <2> QED
    BY <1>1, <2>1 DEF IInv, OwnersShape
<1>5. AnswersKept' /\ DialogShape'
  BY <1>1 DEF IInv, AnswersKept, NoCallbackLost, Held, DialogShape
<1>6. LaunchShape'
  BY <1>1 DEF IInv, TypeOK, LaunchShape, LaunchSpent, launchVars, Gen
<1>7. ResultsCurrent
  BY <1>1 DEF ResultsCurrent
<1> QED
  BY <1>2, <1>4, <1>5, <1>6, <1>7, <1>8 DEF IInv

(* What the launch of the service leaves alone.                             *)
LEMMA LaunchPreserves ==
  ASSUME IInv, Launches',
         UNCHANGED <<sequence, request, pending, queued, action, launcher, dialogs, osVars, answers,
                     launchFailed, alive>>
  PROVE  IInv' /\ ResultsCurrent
<1>1. TypeOK'
  BY DEF IInv, TypeOK, Launches, osVars
<1>2. RequestsBegun' /\ OwnersShape' /\ AnswersKept' /\ DialogShape'
  BY DEF IInv, RequestsBegun, OwnersShape, AnswersKept, NoCallbackLost, Held, DialogShape
<1> QED
  BY <1>1, <1>2 DEF IInv, Launches, ResultsCurrent

(* A generation that is remembered is a new one, or it is not launched.     *)
LEMMA startServiceAfterPermissionsPreserves ==
  ASSUME IInv, startServiceAfterPermissions
  PROVE  IInv' /\ ResultsCurrent
<1>1. /\ launch \in [stage : {"none", "granted", "remembered"}, generation : 0 .. MaxGeneration]
      /\ serviceLaunchGeneration \in 0 .. MaxGeneration /\ launches \in [Gen -> Nat]
      /\ lifted \subseteq Gen
      /\ LaunchShape
      /\ UNCHANGED <<sequence, launches, lifted>>
      /\ launch.stage = "granted" /\ launch.generation \in Gen
  BY DEF startServiceAfterPermissions, IInv, TypeOK, LaunchShape
<1>2. ASSUME NEW h \in Gen
      PROVE  LaunchSpent(h) <=> h <= serviceLaunchGeneration
  BY <1>1 DEF LaunchSpent
<1>3. CASE /\ mayLaunch(launch.generation)
           /\ serviceLaunchGeneration' = launch.generation
           /\ launch' = [launch EXCEPT !.stage = "remembered"]
  <2>1. /\ serviceLaunchGeneration' = sequence /\ serviceLaunchGeneration < sequence
        /\ launch'.stage = "remembered" /\ launch'.generation = sequence
        /\ sequence \in Gen
        /\ launch' \in [stage : {"none", "granted", "remembered"}, generation : 0 .. MaxGeneration]
    BY <1>1, <1>3 DEF mayLaunch, LaunchShape, Gen
  <2>2. ASSUME NEW h \in Gen
        PROVE  LaunchSpent(h) => LaunchSpent(h)'
    <3>1. LaunchSpent(h) => h < sequence
      BY <1>1, <1>2, <2>1 DEF Gen
    <3> QED
      BY <2>1, <3>1 DEF LaunchSpent, Gen
  <2>3. ASSUME NEW h \in Gen
        PROVE  launches'[h] <= (IF h \in lifted' THEN 1 ELSE 0) + (IF LaunchSpent(h)' THEN 1 ELSE 0)
    <3>1. /\ launches[h] <= (IF h \in lifted THEN 1 ELSE 0) + (IF LaunchSpent(h) THEN 1 ELSE 0)
          /\ launches[h] \in Nat
      BY <1>1 DEF LaunchShape
    <3> HIDE DEF LaunchSpent
    <3> QED
      BY <1>1, <2>2, <3>1
  <2>4. /\ serviceLaunchGeneration' <= sequence' /\ launch'.generation \in Gen
        /\ launch'.generation = serviceLaunchGeneration'
        /\ \A h \in lifted' : h <= sequence' /\ h <= serviceLaunchGeneration'
    BY <1>1, <2>1 DEF LaunchShape, Gen
  <2>5. /\ serviceLaunchGeneration' \in 0 .. MaxGeneration /\ launches' \in [Gen -> Nat]
        /\ lifted' \subseteq Gen
    BY <1>1, <2>1 DEF Gen
  <2> HIDE DEF LaunchSpent
  <2>6. Launches'
    BY <2>1, <2>3, <2>4, <2>5 DEF Launches, LaunchShape
  <2> QED
    BY <2>6, LaunchPreserves DEF startServiceAfterPermissions
<1>4. CASE /\ launch' = NoLaunch
           /\ UNCHANGED serviceLaunchGeneration
  <2>1. launch' \in [stage : {"none", "granted", "remembered"}, generation : 0 .. MaxGeneration]
        /\ launch'.stage = "none"
    BY <1>4 DEF NoLaunch
  <2>2. ASSUME NEW h \in Gen
        PROVE  launches'[h] <= (IF h \in lifted' THEN 1 ELSE 0) + (IF LaunchSpent(h)' THEN 1 ELSE 0)
    BY <1>1, <1>2, <1>4, <2>1 DEF LaunchSpent, LaunchShape
  <2>3. Launches'
    BY <1>1, <1>4, <2>1, <2>2 DEF Launches, LaunchShape
  <2> QED
    BY <2>3, LaunchPreserves DEF startServiceAfterPermissions
<1> QED
  BY <1>3, <1>4 DEF startServiceAfterPermissions

(* The launch spends what its generation was remembered for, or lifts a     *)
(* generation that nobody has launched yet.                                 *)
LEMMA acceptLaunchPreserves ==
  ASSUME IInv, acceptLaunch
  PROVE  IInv' /\ ResultsCurrent
<1> DEFINE g == launch.generation
<1>1. /\ serviceLaunchGeneration \in 0 .. MaxGeneration /\ launches \in [Gen -> Nat]
      /\ lifted \subseteq Gen /\ sequence \in 0 .. MaxGeneration
      /\ LaunchShape
      /\ UNCHANGED <<sequence, serviceLaunchGeneration>>
      /\ launches' = [launches EXCEPT ![sequence] = @ + 1]
      /\ lifted' = lifted \cup ({sequence} \ {g})
      /\ launch.stage = "remembered" /\ launch' = NoLaunch
  BY DEF acceptLaunch, IInv, TypeOK
<1>2. /\ g \in Gen /\ g = serviceLaunchGeneration /\ g <= sequence /\ sequence \in Gen
      /\ \A h \in lifted : h <= g
  BY <1>1 DEF LaunchShape, Gen
<1>3. /\ launch' \in [stage : {"none", "granted", "remembered"}, generation : 0 .. MaxGeneration]
      /\ launch'.stage = "none"
  BY <1>1 DEF NoLaunch
<1> HIDE DEF g
<1>4. /\ launches' \in [Gen -> Nat]
      /\ \A h \in Gen : launches'[h] = IF h = sequence THEN launches[h] + 1 ELSE launches[h]
      /\ lifted' \subseteq Gen /\ \A h \in lifted' : h <= sequence'
  BY <1>1, <1>2 DEF LaunchShape, Gen
<1>5. ASSUME NEW h \in Gen
      PROVE  launches'[h] <= (IF h \in lifted' THEN 1 ELSE 0) + (IF LaunchSpent(h)' THEN 1 ELSE 0)
  <2>1. /\ launches[h] <= (IF h \in lifted THEN 1 ELSE 0) + (IF LaunchSpent(h) THEN 1 ELSE 0)
        /\ launches[h] \in Nat
    BY <1>1 DEF LaunchShape
  <2>2. LaunchSpent(h) <=> h < g
    BY <1>1, <1>2 DEF LaunchSpent, Gen, g
  <2>3. LaunchSpent(h)' <=> h <= g
    BY <1>1, <1>2, <1>3 DEF LaunchSpent
  <2>4. h \in lifted' <=> h \in lifted \/ (h = sequence /\ h # g)
    BY <1>1
  <2>5. CASE h # sequence
    BY <1>2, <1>4, <2>1, <2>2, <2>3, <2>4, <2>5 DEF Gen
  <2>6. CASE h = sequence /\ h = g
    BY <1>2, <1>4, <2>1, <2>2, <2>3, <2>4, <2>6 DEF Gen
  <2>7. CASE h = sequence /\ h # g
    <3>1. ~LaunchSpent(h) /\ h \notin lifted
      BY <1>2, <2>2, <2>7 DEF Gen
    <3> QED
      BY <1>4, <2>1, <2>4, <2>7, <3>1
  <2> QED
    BY <2>5, <2>6, <2>7
<1>6. Launches'
  BY <1>1, <1>2, <1>3, <1>4, <1>5 DEF Launches, LaunchShape
<1> QED
  BY <1>6, LaunchPreserves DEF acceptLaunch

(* Every step preserves the invariant and gives results to the current.     *)
LEMMA StepPreserves == IInv /\ [Next]_vars => IInv' /\ ResultsCurrent
<1> SUFFICES ASSUME IInv, [Next]_vars
             PROVE  IInv' /\ ResultsCurrent
  OBVIOUS
<1>1. ASSUME NEW r \in Request, prepareVpn(r)
      PROVE  IInv' /\ ResultsCurrent
  BY <1>1, prepareVpnPreserves
<1>2. ASSUME NEW r \in Request, NEW g \in Gen, PrepareVpn(r, g)
      PROVE  IInv' /\ ResultsCurrent
  BY <1>2, PrepareVpnPreserves
<1>3. ASSUME NEW r \in Request, NEW g \in 0 .. MaxGeneration, startService(r, g)
      PROVE  IInv' /\ ResultsCurrent
  BY <1>3, startServicePreserves
<1>4. CASE executePermissionAction
  BY <1>4, ExecutePreserves
<1>5. CASE launchFails
  BY <1>5, LaunchFailsPreserves
<1>6. ASSUME NEW s \in Stage, DialogResult(s)
      PROVE  IInv' /\ ResultsCurrent
  BY <1>6, ResultPreserves
<1>7. CASE cancelAll
  BY <1>7, CancelAllPreserves
<1>8. CASE Supersede \/ GrantPermission \/ RevokePermission \/ UNCHANGED vars
  BY <1>8, EnvironmentPreserves
<1>9. CASE startServiceAfterPermissions
  BY <1>9, startServiceAfterPermissionsPreserves
<1>10. CASE acceptLaunch
  BY <1>10, acceptLaunchPreserves
<1> QED
  BY <1>1, <1>2, <1>3, <1>4, <1>5, <1>6, <1>7, <1>8, <1>9, <1>10 DEF Next

-----------------------------------------------------------------------------
(* The theorems.                                                            *)

(* The invariant holds in every state of every behaviour of                 *)
(* StartPermissionRequestCoordinator and its activity.                      *)
THEOREM Invariance == Spec => []IInv
<1>1. Init => IInv
  BY InitIInv
<1>2. IInv /\ [Next]_vars => IInv'
  BY StepPreserves
<1> QED
  BY <1>1, <1>2, PTL DEF Spec

(* Every register of the coordinator and the activity keeps its type.       *)
THEOREM TypesHold == Spec => []TypeOK
<1>1. IInv => TypeOK
  BY DEF IInv
<1> QED
  BY <1>1, Invariance, PTL

(* A callback of PrepareVpn or Start completes its method call at most      *)
(* once, whatever duplicates, replacements, queueing and onDestroy do with  *)
(* it, as long as no dialog launch has thrown.                              *)
THEOREM LaunchedAnsweredOnceAlways == Spec => []LaunchedAnsweredOnce
<1>1. IInv => LaunchedAnsweredOnce
  BY DEF IInv, AnswersKept, LaunchedAnsweredOnce, AnsweredOnce
<1> QED
  BY <1>1, Invariance, PTL

(* A request that reached the coordinator is answered, or held by the       *)
(* dialog's owner or the queue.                                             *)
THEOREM NoCallbackLostAlways == Spec => []NoCallbackLost
<1>1. IInv => NoCallbackLost
  BY DEF IInv, AnswersKept
<1> QED
  BY <1>1, Invariance, PTL

(* The coordinator waits for exactly the dialog that is on the screen.      *)
THEOREM OneDialogOwnedAlways == Spec => []OneDialogOwned
<1>1. IInv => OneDialogOwned
  BY DEF IInv, DialogShape, OneDialogOwned
<1> QED
  BY <1>1, Invariance, PTL

(* startServiceAfterPermissions launches the service at most once per       *)
(* generation for that generation's requests, and at most once more for an  *)
(* older request, when the counter has moved on between its test and accept.*)
THEOREM LaunchedOnceAlways == Spec => []LaunchedOnce
<1>1. IInv => LaunchedOnce
  BY DEF IInv, TypeOK, LaunchShape, LaunchedOnce
<1> QED
  BY <1>1, Invariance, PTL

(* The result of a dialog reaches only requests of the generation that is   *)
(* current when it arrives.                                                 *)
THEOREM ResultsAreCurrentAlways == Spec => ResultsAreCurrent
<1>1. IInv /\ [Next]_vars => [ResultsCurrent]_vars
  BY StepPreserves
<1> QED
  BY <1>1, Invariance, PTL DEF Spec, ResultsAreCurrent, ResultsCurrent
=============================================================================
