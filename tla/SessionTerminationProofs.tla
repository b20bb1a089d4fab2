---------------------- MODULE SessionTerminationProofs ----------------------
(***************************************************************************)
(* What Flutter and the notification are shown, for any number of          *)
(* generations and Stops.                                                  *)
(*                                                                         *)
(* Five publishers write DISCONNECTED and one writes CONNECTED, each after *)
(* tests of its own, while starts, Stops, closes, probes, failures and     *)
(* confirmations of other generations are under way, and every test of a   *)
(* start is a step before the write it allows.  The argument follows the   *)
(* generation that has a session, those that were stopped and those whose  *)
(* start is being confirmed.  No generation is of the last two kinds at    *)
(* once, the snapshot has reached every generation that ever had a         *)
(* session, a generation has one session only, and what a start may still  *)
(* write is known by how far it is.                                        *)
(***************************************************************************)
EXTENDS SessionTermination, TLAPS

USE TerminationBoundAssumption

Snapshot == [generation : 0 .. MaxGeneration, phase : Phase, stop : BOOLEAN,
             evidence : SUBSET Evidence]

(* How far a start is whose core has answered, and that goes on.           *)
Answered == {"answered", "verified", "ready", "running"}

(* Something that is still under way, or shown, is the Stop of g.          *)
Stopped(g) ==
  \/ g = latestStopGeneration \/ g = terminalStop
  \/ g \in direct \/ g \in broadcast \/ g \in destroyPosts \/ probe[g] # "none"
  \/ snapshot.stop /\ snapshot.generation = g
  \/ \E j \in destroyJobs : j[2] = g

(* The counter has reached the snapshot, and the snapshot every session.   *)
Numbered ==
  /\ snapshot.generation <= sequence
  /\ latestStopGeneration <= sequence
  /\ session # 0 => pipeline[session] # "none"
  /\ \A g \in Gen : pipeline[g] # "none" => g <= snapshot.generation

(* A start that is still to begin has not begun, and is not under way twice. *)
StartsOnce ==
  /\ \A g \in starts \cup replaceJobs : pipeline[g] = "none" /\ g <= sequence
  /\ starts \cap replaceJobs = {}

(* A service without a session is not asked; a Stop that a service with a  *)
(* session has seen is not older than the session; only the service's own  *)
(* session is open, and none of a destroyed service.                       *)
SessionShape ==
  /\ ~alive => session = 0
  /\ session # 0 /\ terminalStop # 0 => terminalStop >= session
  /\ \A g \in Gen : life[g] = "open" => session = g
  /\ \A g \in gone : life[g] # "open" /\ pipeline[g] # "none"

(* A stopped generation is not confirmed any more.                         *)
StopsFenced ==
  /\ \A g \in Gen : Stopped(g) => g <= latestStopGeneration /\ confirm[g] = "idle"
  /\ snapshot.phase = "DISCONNECTED" => snapshot.stop

(* What a claim of CONNECTED for g rests on.                               *)
Backed(g) ==
  \/ mayContinue(g) /\ pipeline[g] \in Answered /\ g > latestStopGeneration
  \/ g \in struck

(* A confirmation of the current generation finds its claim backed; one    *)
(* that has published a failure has not claimed CONNECTED since; and a     *)
(* failure that is shown of an open session is about to close it.          *)
ConfirmShape ==
  /\ \A g \in Gen : confirm[g] # "idle" => pipeline[g] # "none"
  /\ \A g \in Gen : confirm[g] \in {"gated", "verifying"} /\ g = sequence => Backed(g)
  /\ \A g \in Gen : confirm[g] = "failed" /\ snapshot.generation = g => snapshot.phase # "CONNECTED"
  /\ snapshot.phase = "FAILED" /\ mayContinue(session) /\ session > latestStopGeneration
       => pipeline[session] = "failed" \/ confirm[session] = "failed"

(* Nothing is left but a core that came late.                              *)
Settled == session = 0 /\ held \subseteq late

(* DISCONNECTED leaves nothing else behind, of whatever generation it is.  *)
DisconnectedShape == snapshot.phase = "DISCONNECTED" => Settled

(* CONNECTED of the current generation is backed.                          *)
ConnectedShape ==
  snapshot.phase = "CONNECTED" /\ snapshot.generation = sequence => Backed(sequence)

IInv ==
  /\ TypeOK
  /\ Numbered
  /\ StartsOnce
  /\ SessionShape
  /\ StopsFenced
  /\ ConfirmShape
  /\ DisconnectedShape
  /\ ConnectedShape

-----------------------------------------------------------------------------
(* The snapshot coordinator.                                                *)

(* The snapshot shows phase ph of generation g, or keeps one of a newer     *)
(* generation; it says Stop if it is told so, or has said so of g before.   *)
Shown(g, ph, stops) ==
  /\ snapshot' \in Snapshot
  /\ g < snapshot.generation => snapshot' = snapshot
  /\ g >= snapshot.generation =>
       /\ snapshot'.generation = g /\ snapshot'.phase = ph
       /\ snapshot'.stop => stops \/ (snapshot.stop /\ snapshot.generation = g)
       /\ stops => snapshot'.stop

(* update is what it is named for.                                          *)
LEMMA UpdateShown ==
  ASSUME snapshot \in Snapshot, NEW g \in Gen, NEW ph \in Phase, NEW stops \in BOOLEAN,
         NEW add \in SUBSET Evidence, snapshot' = update(g, ph, stops, add)
  PROVE  Shown(g, ph, stops)
<1>1. CASE g < snapshot.generation
  BY <1>1 DEF update, Shown, Snapshot, Gen
<1>2. CASE g = snapshot.generation
  <2>1. snapshot' = [snapshot EXCEPT !.phase = ph, !.stop = @ \/ stops, !.evidence = @ \cup add]
    BY <1>2 DEF update, Gen
  <2> HIDE DEF Phase, Evidence
  <2>2. snapshot' \in Snapshot
    BY <2>1 DEF Snapshot
  <2>3. /\ snapshot'.generation = g /\ snapshot'.phase = ph
        /\ snapshot'.stop = (snapshot.stop \/ stops)
    BY <1>2, <2>1 DEF Snapshot
  <2>4. ~(g < snapshot.generation)
    BY <1>2 DEF Gen
  <2> QED
    BY <1>2, <2>2, <2>3, <2>4, Zenon DEF Shown
<1>3. CASE g > snapshot.generation
  <2>1. snapshot' = [Fresh(g) EXCEPT !.phase = ph, !.stop = @ \/ stops, !.evidence = @ \cup add]
    BY <1>3 DEF update, Gen, Snapshot
  <2>2. snapshot' = [generation |-> g, phase |-> ph, stop |-> FALSE \/ stops, evidence |-> {} \cup add]
    BY <2>1 DEF Fresh
  <2> HIDE DEF Phase, Evidence
  <2>3. snapshot' \in Snapshot
    BY <2>2 DEF Snapshot, Gen
  <2> QED
    BY <1>3, <2>2, <2>3 DEF Shown, Snapshot, Gen
<1> QED
  BY <1>1, <1>2, <1>3 DEF Snapshot, Gen

(* The other writers of the snapshot.                                       *)
LEMMA WritersShown ==
  ASSUME snapshot \in Snapshot, NEW g \in Gen
  PROVE  /\ \A ph \in Phase : snapshot' = transition(g, ph) => Shown(g, ph, FALSE)
         /\ snapshot' = requestStop(g) => Shown(g, "STOPPING", TRUE)
         /\ snapshot' = begin(g) => Shown(g, "STARTING_PLATFORM", FALSE)
         /\ snapshot' = publishDisconnected(g) => Shown(g, "DISCONNECTED", TRUE)
<1>1. ASSUME NEW ph \in Phase, snapshot' = transition(g, ph)
      PROVE  Shown(g, ph, FALSE)
  <2>1. FALSE \in BOOLEAN /\ {} \in SUBSET Evidence
    OBVIOUS
  <2> HIDE DEF Phase, Evidence
  <2> QED
    BY <1>1, <2>1, UpdateShown, Zenon DEF transition
<1>2. ASSUME snapshot' = requestStop(g)
      PROVE  Shown(g, "STOPPING", TRUE)
  <2>1. TRUE \in BOOLEAN /\ {} \in SUBSET Evidence /\ "STOPPING" \in Phase
    BY DEF Phase
  <2> HIDE DEF Phase, Evidence
  <2> QED
    BY <1>2, <2>1, UpdateShown, Zenon DEF requestStop
<1>3. ASSUME snapshot' = begin(g)
      PROVE  Shown(g, "STARTING_PLATFORM", FALSE)
  <2>1. CASE g < snapshot.generation
    BY <1>3, <2>1 DEF begin, Shown, Snapshot, Gen
  <2>2. CASE ~(g < snapshot.generation)
    <3>1. snapshot' = [generation |-> g, phase |-> "STARTING_PLATFORM", stop |-> FALSE,
                       evidence |-> {}]
      BY <1>3, <2>2 DEF begin, Fresh
    <3>2. snapshot' \in Snapshot
      BY <3>1 DEF Snapshot, Phase, Gen
    <3> QED
      BY <2>2, <3>1, <3>2 DEF Shown
  <2> QED
    BY <2>1, <2>2
<1>4. ASSUME snapshot' = publishDisconnected(g)
      PROVE  Shown(g, "DISCONNECTED", TRUE)
  BY <1>4 DEF publishDisconnected, Shown, Snapshot, Phase, Gen
<1> QED
  BY <1>1, <1>2, <1>3, <1>4

(* The initial state satisfies the invariant.                               *)
LEMMA InitIInv == Init => IInv
<1> SUFFICES ASSUME Init PROVE IInv
  OBVIOUS
<1>1. snapshot.generation = 0 /\ snapshot.phase = "IDLE" /\ ~snapshot.stop
  BY DEF Init, Fresh
<1>2. snapshot \in Snapshot
  BY DEF Init, Fresh, Snapshot, Phase
<1>3. TypeOK
  <2>1. /\ sequence \in 0 .. MaxGeneration /\ latestStopGeneration \in 0 .. MaxGeneration
        /\ repeatedStops \in 0 .. MaxGeneration /\ session \in 0 .. MaxGeneration
        /\ sessionGeneration \in 0 .. MaxGeneration /\ terminalStop \in 0 .. MaxGeneration
    BY DEF Init
  <2>2. /\ alive \in BOOLEAN /\ receiver \in BOOLEAN /\ settleProbe \in BOOLEAN
        /\ status \in Status /\ posted \in Status \cup {"none"}
    BY DEF Init, Status
  <2>3. /\ life \in [Gen -> {"none", "open", "closing", "closed"}]
        /\ pipeline \in [Gen -> Pipeline] /\ confirm \in [Gen -> Confirmation]
        /\ probe \in [Gen -> {"none", "delayed", "polling"}]
    BY DEF Init, Pipeline, Confirmation
  <2>4. /\ starts = {} /\ held = {} /\ late = {} /\ leaked = {} /\ gone = {} /\ struck = {}
        /\ stopJobs = {} /\ replaceJobs = {}
        /\ direct = {} /\ broadcast = {} /\ destroyJobs = {} /\ destroyPosts = {}
    BY DEF Init
  <2> QED
    BY <1>2, <2>1, <2>2, <2>3, <2>4 DEF TypeOK, Snapshot
<1>4. Numbered /\ StartsOnce /\ SessionShape /\ DisconnectedShape /\ ConnectedShape
  BY <1>1 DEF Init, Numbered, StartsOnce, SessionShape, DisconnectedShape, ConnectedShape
<1>5. ConfirmShape
  BY <1>1 DEF Init, ConfirmShape
<1>6. StopsFenced
  BY <1>1 DEF Init, StopsFenced, Stopped, Gen
<1> QED
  BY <1>3, <1>4, <1>5, <1>6 DEF IInv

-----------------------------------------------------------------------------
(* One argument for the steps of a kind.                                    *)

(* What a start that is this far is still going to publish.                 *)
Pending(p) ==
  IF p \in {"checked", "starting"} THEN {"STARTING_CORE"}
  ELSE IF p = "answered" THEN {"WAITING_TUN"}
  ELSE IF p = "verified" THEN {"VERIFYING"}
  ELSE IF p = "alert" THEN {"FAILED"} ELSE {}

(* pendingWrites, spelled out.                                              *)
LEMMA PendingMeans ==
  \A p : {lateWrites[q] : q \in {p} \cap DOMAIN lateWrites} = Pending(p)
<1>1. DOMAIN lateWrites = {"checked", "starting", "answered", "verified", "alert"}
  BY DEF lateWrites
<1>2. /\ lateWrites["checked"] = "STARTING_CORE" /\ lateWrites["starting"] = "STARTING_CORE"
      /\ lateWrites["answered"] = "WAITING_TUN" /\ lateWrites["verified"] = "VERIFYING"
      /\ lateWrites["alert"] = "FAILED"
  BY DEF lateWrites
<1> QED
  BY <1>1, <1>2 DEF Pending

(* DISCONNECTED is left only towards a Stop, or for what was pending when   *)
(* it was published: the body of DisconnectedIsTerminal.                    *)
DisconnectedStays ==
  snapshot.phase = "DISCONNECTED" /\ snapshot.generation \in Gen
    /\ snapshot'.generation = snapshot.generation
    => /\ \/ snapshot'.phase \in {"DISCONNECTED", "STOPPING"}
          \/ snapshot'.phase \in Pending(pipeline[snapshot.generation])
       /\ Pending(pipeline'[snapshot.generation]) \subseteq Pending(pipeline[snapshot.generation])

(* The step begins no Stop.                                                 *)
NoNewStop ==
  /\ latestStopGeneration' = latestStopGeneration
  /\ \A g \in Gen : Stopped(g)' => Stopped(g)

(* A start arrives, waits for an older session, or is given up.             *)
StartsKept ==
  \/ starts' \subseteq starts /\ replaceJobs' \subseteq replaceJobs
  \/ /\ sequence' = sequence + 1 /\ sequence' \in Gen
     /\ starts' \subseteq starts \cup {sequence'} /\ replaceJobs' = replaceJobs
  \/ \E g \in starts : starts' = starts \ {g} /\ replaceJobs' = replaceJobs \cup {g}

(* The start pipelines move on or end; none begins, and none decides on     *)
(* another write when nothing is left of the sessions.                      *)
PipelinesMove ==
  \A h \in Gen :
    \/ pipeline'[h] = pipeline[h]
    \/ /\ pipeline[h] \notin {"none", "failed"} /\ pipeline'[h] # "none"
       /\ pipeline[h] \in Answered /\ mayContinue(h) => pipeline'[h] \in Answered
       /\ Settled => Pending(pipeline'[h]) \subseteq Pending(pipeline[h])

(* The confirmations move on or end; none begins.                           *)
ConfirmsMove ==
  \A h \in Gen :
    \/ confirm'[h] = confirm[h]
    \/ /\ confirm[h] \notin {"idle", "failed"}
       /\ confirm'[h] \in {"gated", "verifying"} => confirm[h] \in {"gated", "verifying"}
       /\ confirm'[h] = "failed" =>
            ~(snapshot'.generation = h /\ snapshot'.phase = "CONNECTED")

(* What the invariant says of numbers, and of the current session.          *)
LEMMA Numbers ==
  ASSUME IInv
  PROVE  /\ sequence \in Nat /\ session \in Nat /\ latestStopGeneration \in Nat
         /\ terminalStop \in Nat /\ snapshot.generation \in Nat /\ snapshot \in Snapshot
         /\ snapshot.generation <= sequence /\ latestStopGeneration <= sequence
         /\ session <= snapshot.generation
         /\ session # 0 => session \in Gen /\ alive
         /\ isCurrent(session) => snapshot.generation = session
         /\ \A g \in Gen : isCurrent(g) => g >= snapshot.generation /\ g >= latestStopGeneration
         /\ \A g \in Gen : Stopped(g) => g <= sequence
<1>1. /\ sequence \in Nat /\ session \in 0 .. MaxGeneration /\ latestStopGeneration \in Nat
      /\ terminalStop \in Nat /\ snapshot.generation \in Nat /\ snapshot \in Snapshot
  BY DEF IInv, TypeOK, Snapshot
<1>2. snapshot.generation <= sequence /\ latestStopGeneration <= sequence
  BY DEF IInv, Numbered
<1>3. session # 0 => session \in Gen /\ alive /\ session <= snapshot.generation
  BY <1>1 DEF IInv, Numbered, SessionShape, Gen
<1>4. \A g \in Gen : Stopped(g) => g <= latestStopGeneration
  BY DEF IInv, StopsFenced
<1> QED
  BY <1>1, <1>2, <1>3, <1>4 DEF isCurrent, Gen

(* A start that no step begins is begun once.                               *)
LEMMA StartsOnceKept ==
  ASSUME IInv, StartsKept, sequence' \in Nat, sequence' >= sequence,
         \A h \in Gen : pipeline[h] = "none" => pipeline'[h] = "none"
  PROVE  StartsOnce'
<1>1. starts \subseteq Gen /\ replaceJobs \subseteq Gen /\ Gen \subseteq Nat /\ sequence \in Nat
  BY Numbers DEF IInv, TypeOK, Gen
<1>2. \A h \in starts \cup replaceJobs : pipeline'[h] = "none" /\ h <= sequence'
  BY <1>1 DEF IInv, StartsOnce
<1>3. CASE starts' \subseteq starts /\ replaceJobs' \subseteq replaceJobs
  BY <1>2, <1>3 DEF IInv, StartsOnce
<1>4. CASE /\ sequence' = sequence + 1 /\ sequence' \in Gen
           /\ starts' \subseteq starts \cup {sequence'} /\ replaceJobs' = replaceJobs
  <2>1. pipeline[sequence'] = "none"
    BY <1>4, Numbers DEF IInv, Numbered
  <2>2. sequence' \notin replaceJobs
    BY <1>1, <1>4 DEF IInv, StartsOnce
  <2> QED
    BY <1>1, <1>2, <1>4, <2>1, <2>2 DEF IInv, StartsOnce
<1>5. CASE \E g \in starts : starts' = starts \ {g} /\ replaceJobs' = replaceJobs \cup {g}
  BY <1>2, <1>5 DEF IInv, StartsOnce
<1> QED
  BY <1>3, <1>4, <1>5 DEF StartsKept

(* The snapshot, the session and its life stay as they are; the counter may *)
(* move on, and so may the starts, the confirmations and the core.          *)
LEMMA QuietPreserves ==
  ASSUME IInv, TypeOK', sequence' >= sequence, Settled => held' \subseteq late', NoNewStop,
         UNCHANGED <<session, life, gone, struck, snapshot>>,
         StartsKept, PipelinesMove, ConfirmsMove,
         terminalStop' \in {0, terminalStop}, ~alive' => session = 0
  PROVE  IInv' /\ DisconnectedStays
<1>1. sequence' \in Nat
  BY DEF TypeOK
<1>2. Numbered' /\ StartsOnce'
  <2>1. \A h \in Gen : pipeline'[h] # "none" <=> pipeline[h] # "none"
    BY DEF PipelinesMove
  <2>2. session # 0 => pipeline'[session] # "none"
    BY <2>1, Numbers DEF IInv, Numbered
  <2>3. Numbered'
    BY <1>1, <2>1, <2>2, Numbers DEF IInv, Numbered, NoNewStop
  <2> QED
    BY <1>1, <2>1, <2>3, StartsOnceKept
<1>3. SessionShape'
  <2>1. \A h \in gone : pipeline'[h] # "none"
    BY DEF PipelinesMove, IInv, SessionShape, TypeOK
  <2> QED
    BY <2>1 DEF IInv, SessionShape
<1>4. StopsFenced'
  BY DEF IInv, StopsFenced, NoNewStop, ConfirmsMove
<1>5. \A h \in Gen : pipeline[h] # "none" /\ h = sequence' => h = sequence
  BY <1>1, Numbers DEF IInv, Numbered, Gen
<1>6. ASSUME NEW h \in Gen, h = sequence, h = sequence', Backed(h)
      PROVE  Backed(h)'
  BY <1>6 DEF Backed, PipelinesMove, NoNewStop, mayContinue, isCurrent, acceptsOperations
<1>7. ConfirmShape'
  <2>1. \A h \in Gen : confirm'[h] # "idle" => confirm[h] # "idle"
    BY DEF ConfirmsMove
  <2>2. \A h \in Gen : confirm'[h] # "idle" => pipeline[h] # "none" /\ pipeline'[h] # "none"
    BY <2>1 DEF PipelinesMove, IInv, ConfirmShape
  <2>3. \A h \in Gen : confirm'[h] \in {"gated", "verifying"} /\ h = sequence' => Backed(h)'
    <3> SUFFICES ASSUME NEW h \in Gen, confirm'[h] \in {"gated", "verifying"}, h = sequence'
                 PROVE  Backed(h)'
      OBVIOUS
    <3>1. confirm[h] \in {"gated", "verifying"} /\ h = sequence
      BY <1>5, <2>2 DEF ConfirmsMove
    <3> QED
      BY <1>6, <3>1 DEF IInv, ConfirmShape
  <2>4. \A h \in Gen : confirm'[h] = "failed" /\ snapshot.generation = h => snapshot.phase # "CONNECTED"
    BY DEF ConfirmsMove, IInv, ConfirmShape
  <2>5. ASSUME snapshot.phase = "FAILED", mayContinue(session)', session > latestStopGeneration
        PROVE  pipeline'[session] = "failed" \/ confirm'[session] = "failed"
    <3>1. mayContinue(session) /\ session \in Gen
      <4>1. session \in Gen /\ session = sequence' /\ life[session] = "open"
        BY <2>5, Numbers DEF mayContinue, isCurrent, acceptsOperations
      <4>2. session = sequence
        BY <1>5, <4>1 DEF IInv, Numbered, Gen
      <4> QED
        BY <4>1, <4>2 DEF mayContinue, isCurrent, acceptsOperations, Gen
    <3>2. pipeline[session] = "failed" \/ confirm[session] = "failed"
      BY <2>5, <3>1 DEF IInv, ConfirmShape
    <3> QED
      BY <3>1, <3>2 DEF PipelinesMove, ConfirmsMove
  <2> QED
    BY <2>2, <2>3, <2>4, <2>5 DEF ConfirmShape, NoNewStop
<1>8. DisconnectedShape' /\ DisconnectedStays
  BY DEF IInv, DisconnectedShape, DisconnectedStays, Settled, PipelinesMove
<1>9. ConnectedShape'
  <2> SUFFICES ASSUME snapshot.phase = "CONNECTED", snapshot.generation = sequence'
               PROVE  Backed(sequence)' /\ sequence' = sequence
    BY DEF ConnectedShape
  <2>1. sequence' = sequence
    BY <1>1, Numbers
  <2>2. Backed(sequence)
    BY <2>1 DEF IInv, ConnectedShape
  <2>3. sequence \in Gen
    BY <2>2 DEF Backed, mayContinue, isCurrent, IInv, TypeOK, Gen
  <2> QED
    BY <1>6, <2>1, <2>2, <2>3
<1> QED
  BY <1>2, <1>3, <1>4, <1>7, <1>8, <1>9 DEF IInv

(* A start, a confirmation or a probe shows phase ph of generation g.       *)
LEMMA ShowsPreserves ==
  ASSUME IInv, TypeOK', NEW g \in Gen, NEW ph \in Phase \ {"DISCONNECTED"}, Shown(g, ph, FALSE),
         g <= sequence,
         UNCHANGED <<sequence, latestStopGeneration, alive, session, terminalStop, life, gone,
                     struck, direct, broadcast, destroyJobs>>,
         \A h \in Gen : h \in destroyPosts' => h \in destroyPosts,
         \A h \in Gen : probe'[h] # "none" => probe[h] # "none",
         StartsKept, PipelinesMove, ConfirmsMove,
         Settled => held' \subseteq late',
         snapshot.phase = "DISCONNECTED" /\ g = snapshot.generation => ph \in Pending(pipeline[g]),
         ph = "CONNECTED" => confirm'[g] # "failed" /\ (g = sequence => Backed(sequence)),
         ph = "FAILED" /\ g = sequence =>
           \/ ~(mayContinue(session) /\ session > latestStopGeneration)
           \/ pipeline'[g] = "failed" \/ confirm'[g] = "failed"
  PROVE  IInv' /\ DisconnectedStays
<1>1. g \in Nat /\ snapshot' \in Snapshot
      /\ \/ g < snapshot.generation /\ snapshot' = snapshot
         \/ /\ g >= snapshot.generation /\ snapshot'.generation = g /\ snapshot'.phase = ph
            /\ snapshot'.stop => snapshot.stop /\ snapshot.generation = g
  BY Numbers DEF Shown, Gen
<1>2. snapshot'.generation \in Nat /\ snapshot'.generation <= sequence
      /\ snapshot'.generation >= snapshot.generation
  BY <1>1, Numbers
<1>3. Numbered' /\ StartsOnce'
  <2>1. \A h \in Gen : pipeline'[h] # "none" <=> pipeline[h] # "none"
    BY DEF PipelinesMove
  <2>2. session # 0 => pipeline'[session] # "none"
    BY <2>1, Numbers DEF IInv, Numbered
  <2>3. Numbered'
    BY <1>2, <2>1, <2>2, Numbers DEF IInv, Numbered, Gen
  <2> QED
    BY <2>1, <2>3, Numbers, StartsOnceKept
<1>4. SessionShape'
  <2>1. \A h \in gone : pipeline'[h] # "none"
    BY DEF PipelinesMove, IInv, SessionShape, TypeOK
  <2> QED
    BY <2>1 DEF IInv, SessionShape
<1>5. \A h \in Gen : Stopped(h)' => Stopped(h)
  BY <1>1 DEF Stopped
<1>6. StopsFenced'
  <2>1. snapshot'.phase = "DISCONNECTED" => snapshot' = snapshot
    BY <1>1
  <2> QED
    BY <1>5, <2>1 DEF IInv, StopsFenced, ConfirmsMove
<1>7. ASSUME NEW h \in Gen, h = sequence, Backed(h)
      PROVE  Backed(h)'
  BY <1>7 DEF Backed, PipelinesMove, mayContinue, isCurrent, acceptsOperations
<1>8. ConfirmShape'
  <2>1. \A h \in Gen : confirm'[h] # "idle" => pipeline'[h] # "none"
    BY DEF ConfirmsMove, PipelinesMove, IInv, ConfirmShape
  <2>2. \A h \in Gen : confirm'[h] \in {"gated", "verifying"} /\ h = sequence => Backed(h)'
    BY <1>7 DEF ConfirmsMove, IInv, ConfirmShape
  <2>3. \A h \in Gen : confirm'[h] = "failed" /\ snapshot'.generation = h
                         => snapshot'.phase # "CONNECTED"
    BY <1>1 DEF ConfirmsMove, IInv, ConfirmShape
  <2>4. ASSUME snapshot'.phase = "FAILED", mayContinue(session), session > latestStopGeneration
        PROVE  pipeline'[session] = "failed" \/ confirm'[session] = "failed"
    <3>1. session = sequence /\ snapshot.generation = session /\ session \in Gen
      BY <2>4, Numbers DEF mayContinue, isCurrent
    <3>2. CASE snapshot' = snapshot
      BY <2>4, <3>1, <3>2 DEF PipelinesMove, ConfirmsMove, IInv, ConfirmShape
    <3>3. CASE g = session /\ ph = "FAILED"
      BY <2>4, <3>1, <3>3
    <3> QED
      BY <1>1, <1>2, <2>4, <3>1, <3>2, <3>3
  <2>5. mayContinue(session)' => mayContinue(session)
    BY DEF mayContinue, isCurrent, acceptsOperations
  <2> QED
    BY <2>1, <2>2, <2>3, <2>4, <2>5 DEF ConfirmShape
<1>9. DisconnectedShape'
  BY <1>1 DEF IInv, DisconnectedShape, Settled
<1>10. DisconnectedStays
  <2> SUFFICES ASSUME snapshot.phase = "DISCONNECTED", snapshot.generation \in Gen,
                      snapshot'.generation = snapshot.generation
               PROVE  /\ \/ snapshot'.phase = "DISCONNECTED"
                         \/ snapshot'.phase \in Pending(pipeline[snapshot.generation])
                      /\ Pending(pipeline'[snapshot.generation])
                           \subseteq Pending(pipeline[snapshot.generation])
    BY DEF DisconnectedStays
  <2>1. Settled
    BY DEF IInv, DisconnectedShape
  <2>2. \A h \in Gen : Pending(pipeline'[h]) \subseteq Pending(pipeline[h])
    BY <2>1 DEF PipelinesMove
  <2> QED
    BY <1>1, <2>2, Numbers
<1>11. ConnectedShape'
  <2> SUFFICES ASSUME snapshot'.phase = "CONNECTED", snapshot'.generation = sequence
               PROVE  Backed(sequence)'
    BY DEF ConnectedShape
  <2>1. Backed(sequence)
    BY <1>1 DEF IInv, ConnectedShape
  <2>2. sequence \in Gen
    BY <2>1 DEF Backed, mayContinue, isCurrent, IInv, TypeOK, Gen
  <2> QED
    BY <1>7, <2>1, <2>2
<1> QED
  BY <1>3, <1>4, <1>6, <1>8, <1>9, <1>10, <1>11 DEF IInv

(* A Stop g is accepted, or a service is told of it, or its terminal state  *)
(* is published: nobody is left to confirm g, and what g shows is STOPPING, *)
(* or DISCONNECTED with nothing left.                                       *)
LEMMA StopPreserves ==
  ASSUME IInv, TypeOK', NEW g \in Gen,
         \/ /\ g >= sequence /\ sequence' = g /\ latestStopGeneration' = g /\ confirm[g] = "idle"
         \/ /\ g = sequence /\ Stopped(g) /\ UNCHANGED <<sequence, latestStopGeneration>>,
         direct' \subseteq direct \cup {g}, broadcast' \subseteq broadcast \cup {g},
         destroyPosts' \subseteq destroyPosts, \A h \in Gen \ {g} : probe'[h] = probe[h],
         UNCHANGED <<alive, session, pipeline, confirm, held, late, gone, struck, destroyJobs>>,
         starts' \subseteq starts, replaceJobs' \subseteq replaceJobs,
         terminalStop' \in {terminalStop, g},
         \A h \in Gen : life'[h] = life[h] \/ (h = session /\ life'[h] # "open"),
         \/ snapshot' = snapshot /\ UNCHANGED life /\ (g > sequence \/ session = 0)
         \/ Shown(g, "STOPPING", TRUE)
         \/ Shown(g, "DISCONNECTED", TRUE) /\ session = 0 /\ held = {}
  PROVE  IInv' /\ DisconnectedStays
<1>1. /\ g \in Nat /\ g >= sequence /\ sequence' = g /\ confirm[g] = "idle"
      /\ latestStopGeneration' \in Nat /\ latestStopGeneration' >= latestStopGeneration
      /\ latestStopGeneration' >= g /\ latestStopGeneration' <= g
      /\ g >= snapshot.generation /\ g >= session
  BY Numbers DEF IInv, StopsFenced, Gen
<1>2. /\ snapshot' \in Snapshot
      /\ \/ snapshot' = snapshot /\ UNCHANGED life /\ (g > sequence \/ session = 0)
         \/ /\ snapshot'.generation = g /\ snapshot'.stop
            /\ \/ snapshot'.phase = "STOPPING"
               \/ snapshot'.phase = "DISCONNECTED" /\ session = 0 /\ held = {}
  BY <1>1, Numbers DEF Shown
<1>3. Numbered' /\ StartsOnce'
  <2>1. snapshot'.generation \in Nat /\ snapshot'.generation >= snapshot.generation
        /\ snapshot'.generation <= g
    BY <1>1, <1>2, Numbers
  <2>2. Numbered'
    BY <1>1, <2>1, Numbers DEF IInv, Numbered, Gen
  <2> QED
    BY <1>1, <2>2, StartsOnceKept DEF StartsKept
<1>4. SessionShape'
  BY <1>1 DEF IInv, SessionShape, TypeOK
<1>5. StopsFenced'
  <2>2. \A h \in Gen : Stopped(h)' => Stopped(h) \/ h = g
    BY <1>2 DEF Stopped
  <2>1. \A h \in Gen : Stopped(h)' => h <= latestStopGeneration' /\ confirm[h] = "idle"
    BY <1>1, <2>2, Numbers DEF IInv, StopsFenced, Gen
  <2> QED
    BY <1>2, <2>1 DEF IInv, StopsFenced
<1>6. ConfirmShape'
  <2>1. ~(session > latestStopGeneration')
    BY <1>1, Numbers
  <2>2. \A h \in Gen : confirm[h] # "idle" => h # g
    BY <1>1
  <2>3. \A h \in Gen : confirm[h] = "failed" /\ snapshot'.generation = h
                         => snapshot'.phase # "CONNECTED"
    BY <1>2 DEF IInv, ConfirmShape
  <2> QED
    BY <1>1, <2>1, <2>2, <2>3 DEF IInv, ConfirmShape
<1>7. DisconnectedShape'
  BY <1>2 DEF IInv, DisconnectedShape, Settled
<1>8. ConnectedShape'
  <2> SUFFICES ASSUME snapshot'.phase = "CONNECTED", snapshot'.generation = g
               PROVE  g \in struck
    BY <1>1 DEF ConnectedShape, Backed
  <2>1. snapshot' = snapshot /\ g = sequence /\ session = 0
    BY <1>1, <1>2, Numbers
  <2>2. ~mayContinue(sequence)
    BY <2>1 DEF mayContinue, isCurrent
  <2> QED
    BY <2>1, <2>2 DEF IInv, ConnectedShape, Backed
<1>9. DisconnectedStays
  BY <1>2 DEF DisconnectedStays
<1> QED
  BY <1>3, <1>4, <1>5, <1>6, <1>7, <1>8, <1>9 DEF IInv

(* The failure of the start g closes whatever session there is.             *)
LEMMA AlertClosePreserves ==
  ASSUME IInv, TypeOK', NEW g \in Gen, closesActive(g),
         \/ /\ pipeline[g] = "failed" /\ UNCHANGED confirm
            /\ \E p \in {"alert", "ended"} : /\ pipeline' = [pipeline EXCEPT ![g] = p]
                                             /\ p = "alert" => session = g
         \/ /\ confirm[g] = "failed" /\ UNCHANGED pipeline
            /\ \E c \in {"closing", "idle"} : confirm' = [confirm EXCEPT ![g] = c],
         UNCHANGED <<sequence, latestStopGeneration, starts, replaceJobs, alive, session,
                     terminalStop, held, late, gone, snapshot, direct, broadcast, probe,
                     destroyPosts, destroyJobs>>
  PROVE  IInv' /\ DisconnectedStays
<1> DEFINE closing == {h \in Gen : h = session /\ life[h] = "open" /\ g \notin gone}
<1>1. /\ life' = [h \in Gen |-> IF h \in closing THEN "closing" ELSE life[h]]
      /\ struck' = struck \cup (closing \ {g})
  BY DEF closesActive
<1>2. /\ \A h \in Gen : h # g => pipeline'[h] = pipeline[h] /\ confirm'[h] = confirm[h]
      /\ \A h \in Gen : pipeline'[h] # "none" <=> pipeline[h] # "none"
      /\ pipeline[g] # "failed" => pipeline'[g] = pipeline[g] /\ confirm[g] = "failed"
      /\ confirm[g] # "failed" => confirm'[g] = confirm[g] /\ pipeline[g] = "failed"
      /\ confirm'[g] \in {confirm[g], "closing", "idle"}
      /\ pipeline'[g] = "alert" => session = g \/ pipeline[g] = "alert"
      /\ pipeline'[g] \in {pipeline[g], "alert", "ended"}
  BY DEF IInv, TypeOK
<1>3. Numbered' /\ StartsOnce'
  <2>1. session # 0 => pipeline'[session] # "none"
    BY <1>2, Numbers DEF IInv, Numbered
  <2>2. Numbered'
    BY <1>2, <2>1 DEF IInv, Numbered
  <2> QED
    BY <1>2, <2>2, Numbers, StartsOnceKept DEF StartsKept
<1>4. \A h \in Gen : life'[h] = "open" => life[h] = "open" /\ h \notin closing
  BY <1>1
<1>5. SessionShape'
  BY <1>2, <1>4 DEF IInv, SessionShape, TypeOK
<1>6. StopsFenced'
  <2>1. \A h \in Gen : Stopped(h)' <=> Stopped(h)
    BY DEF Stopped
  <2>2. \A h \in Gen : confirm[h] = "idle" => confirm'[h] = "idle"
    BY <1>2
  <2> QED
    BY <2>1, <2>2 DEF IInv, StopsFenced
<1>7. ASSUME NEW h \in Gen, h = sequence, Backed(h), h = g => pipeline[g] = "failed"
      PROVE  Backed(h)'
  <2>1. CASE h \in struck
    BY <1>1, <2>1 DEF Backed
  <2>2. CASE /\ h \notin struck /\ h # g
             /\ mayContinue(h) /\ pipeline[h] \in Answered /\ h > latestStopGeneration
    <3>1. CASE h \in closing
      BY <1>1, <2>2, <3>1 DEF Backed
    <3>2. CASE h \notin closing
      BY <1>1, <1>2, <2>2, <3>2 DEF Backed, mayContinue, isCurrent, acceptsOperations
    <3> QED
      BY <3>1, <3>2
  <2> QED
    BY <1>7, <2>1, <2>2 DEF Backed, Answered
<1>8. ConfirmShape'
  <2>1. \A h \in Gen : confirm'[h] # "idle" => pipeline'[h] # "none"
    BY <1>2 DEF IInv, ConfirmShape
  <2>2. ASSUME NEW h \in Gen, confirm'[h] \in {"gated", "verifying"}, h = sequence
        PROVE  Backed(h)'
    <3>1. confirm[h] = confirm'[h] /\ (h = g => pipeline[g] = "failed")
      BY <1>2, <2>2
    <3> QED
      BY <1>7, <2>2, <3>1 DEF IInv, ConfirmShape
  <2>3. \A h \in Gen : confirm'[h] = "failed" => confirm[h] = "failed"
    BY <1>2
  <2>4. ASSUME snapshot.phase = "FAILED", mayContinue(session)', session > latestStopGeneration
        PROVE  pipeline'[session] = "failed" \/ confirm'[session] = "failed"
    <3>1. session = sequence /\ session # 0 /\ session \in Gen /\ life'[session] = "open"
      BY <2>4, Numbers DEF mayContinue, isCurrent, acceptsOperations
    <3>2. life[session] = "open" /\ session \notin closing
      BY <1>4, <3>1
    <3>3. g \in gone /\ session # g
      BY <3>1, <3>2 DEF IInv, SessionShape
    <3>4. mayContinue(session)
      BY <3>1, <3>2 DEF Gen, mayContinue, isCurrent, acceptsOperations
    <3> QED
      BY <1>2, <2>4, <3>1, <3>3, <3>4 DEF IInv, ConfirmShape
  <2> QED
    BY <2>1, <2>2, <2>3, <2>4 DEF IInv, ConfirmShape
<1>9. DisconnectedShape'
  BY DEF IInv, DisconnectedShape, Settled
<1>10. DisconnectedStays
  <2> SUFFICES ASSUME snapshot.phase = "DISCONNECTED", snapshot.generation \in Gen
               PROVE  Pending(pipeline'[snapshot.generation])
                        \subseteq Pending(pipeline[snapshot.generation])
    BY DEF DisconnectedStays
  <2>1. session = 0 /\ g # 0
    BY DEF IInv, DisconnectedShape, Settled, Gen
  <2>2. pipeline'[g] \in {pipeline[g], "ended"}
    BY <1>2, <2>1
  <2> QED
    BY <1>2, <2>2 DEF Pending
<1>11. ConnectedShape'
  <2> SUFFICES ASSUME snapshot.phase = "CONNECTED", snapshot.generation = sequence
               PROVE  Backed(sequence)'
    BY DEF ConnectedShape
  <2>1. Backed(sequence)
    BY DEF IInv, ConnectedShape
  <2>2. sequence \in Gen
    BY <2>1 DEF Backed, mayContinue, isCurrent, IInv, TypeOK, Gen
  <2>3. sequence = g => confirm[g] # "failed"
    BY DEF IInv, ConfirmShape
  <2> QED
    BY <1>2, <1>7, <2>1, <2>2, <2>3
<1> QED
  BY <1>3, <1>5, <1>6, <1>8, <1>9, <1>10, <1>11 DEF IInv

(* Sessions close, but not the one of the current generation while it       *)
(* accepts operations.                                                      *)
LEMMA ClosePreserves ==
  ASSUME IInv, TypeOK',
         \A h \in Gen : \/ life'[h] = life[h]
                        \/ (life'[h] # "open" /\ (h = sequence /\ session = h => life[h] # "open")),
         session' \in {session, 0},
         session' # session => life[session] # "open" /\ ~mayContinue(session),
         NoNewStop, StartsKept,
         UNCHANGED <<sequence, alive, terminalStop, held, late, gone, struck, pipeline, confirm,
                     snapshot>>
  PROVE  IInv' /\ DisconnectedStays
<1>1. Numbered' /\ StartsOnce' /\ StopsFenced'
  <2>1. Numbered' /\ StopsFenced'
    BY DEF IInv, Numbered, StopsFenced, NoNewStop
  <2> QED
    BY <2>1, Numbers, StartsOnceKept
<1>2. SessionShape'
  <2>1. \A h \in Gen : life'[h] = "open" => life[h] = "open"
    BY Zenon
  <2>2. \A h \in Gen : life'[h] = "open" => session' = h
    BY <2>1 DEF IInv, SessionShape
  <2> QED
    BY <2>1, <2>2 DEF IInv, SessionShape, TypeOK
<1>3. ASSUME NEW g \in Gen, g = sequence, Backed(g)
      PROVE  Backed(g)'
  <2>1. CASE mayContinue(g) /\ pipeline[g] \in Answered /\ g > latestStopGeneration
    <3>1. session = g /\ life[g] = "open" /\ isCurrent(g)
      BY <2>1 DEF mayContinue, acceptsOperations
    <3>2. session' = g /\ life'[g] = "open"
      BY <1>3, <2>1, <3>1
    <3> QED
      BY <2>1, <3>1, <3>2 DEF Backed, NoNewStop, mayContinue, isCurrent, acceptsOperations
  <2> QED
    BY <1>3, <2>1 DEF Backed
<1>4. ConfirmShape'
  <2>1. mayContinue(session)' => mayContinue(session) /\ session' = session
    <3> SUFFICES ASSUME session' # 0, isCurrent(session)', life'[session'] = "open"
                 PROVE  mayContinue(session) /\ session' = session
      BY DEF mayContinue, isCurrent, acceptsOperations
    <3>1. session' = session /\ session \in Gen
      BY Numbers
    <3>2. life[session] = "open"
      BY <3>1
    <3> QED
      BY <3>1, <3>2 DEF mayContinue, isCurrent, acceptsOperations
  <2> QED
    BY <1>3, <2>1 DEF IInv, ConfirmShape, NoNewStop
<1>5. ConnectedShape'
  <2> SUFFICES ASSUME snapshot.phase = "CONNECTED", snapshot.generation = sequence
               PROVE  Backed(sequence)'
    BY DEF ConnectedShape
  <2>1. Backed(sequence)
    BY DEF IInv, ConnectedShape
  <2>2. sequence \in Gen
    BY <2>1 DEF Backed, mayContinue, isCurrent, IInv, TypeOK, Gen
  <2> QED
    BY <1>3, <2>1, <2>2
<1>6. DisconnectedShape' /\ DisconnectedStays
  BY DEF IInv, DisconnectedShape, DisconnectedStays, Settled
<1> QED
  BY <1>1, <1>2, <1>4, <1>5, <1>6 DEF IInv

(* A session begins, with no other one there and after every Stop.          *)
LEMMA BeginPreserves ==
  ASSUME IInv, TypeOK', NEW g \in Gen, mayBegin(g), alive, g \in starts \cup replaceJobs,
         starts' \subseteq starts \ {g}, replaceJobs' \subseteq replaceJobs \ {g},
         session' = g, terminalStop' = 0, Shown(g, "STARTING_PLATFORM", FALSE),
         life' = [life EXCEPT ![g] = "open"], pipeline' = [pipeline EXCEPT ![g] = "begun"],
         UNCHANGED <<sequence, latestStopGeneration, alive, held, late, confirm, gone, struck,
                     direct, broadcast, probe, destroyPosts, destroyJobs>>
  PROVE  IInv' /\ DisconnectedStays
<1>1. /\ g = sequence /\ g \in Nat /\ g > latestStopGeneration /\ session = 0 /\ g # 0
      /\ g >= snapshot.generation /\ snapshot' \in Snapshot
      /\ snapshot'.generation = g /\ snapshot'.phase = "STARTING_PLATFORM"
      /\ snapshot'.stop => snapshot.stop /\ snapshot.generation = g
      /\ life \in [Gen -> {"none", "open", "closing", "closed"}]
      /\ pipeline \in [Gen -> Pipeline]
  <2>1. g = sequence /\ g > latestStopGeneration /\ session = 0 /\ g # 0
    BY DEF mayBegin, isCurrent
  <2>2. g \in Nat
    BY Numbers DEF Gen
  <2>3. g >= snapshot.generation
    BY <2>1, Numbers DEF IInv, Numbered
  <2>4. /\ snapshot' \in Snapshot
        /\ snapshot'.generation = g /\ snapshot'.phase = "STARTING_PLATFORM"
        /\ snapshot'.stop => snapshot.stop /\ snapshot.generation = g
    BY <2>3 DEF Shown
  <2>5. /\ life \in [Gen -> {"none", "open", "closing", "closed"}]
        /\ pipeline \in [Gen -> Pipeline]
    BY DEF IInv, TypeOK
  <2> QED
    BY <2>1, <2>2, <2>3, <2>4, <2>5
<1>2. pipeline[g] = "none" /\ confirm[g] = "idle" /\ g \notin gone
  BY DEF IInv, StartsOnce, ConfirmShape, SessionShape
<1>3. Numbered' /\ StartsOnce'
  <2>1. \A h \in Gen : h # g => pipeline'[h] = pipeline[h]
    BY <1>1
  <2>2. pipeline'[g] = "begun"
    BY <1>1
  <2>3. Numbered'
    BY <1>1, <2>1, <2>2, Numbers DEF IInv, Numbered, Gen
  <2>4. /\ starts' \subseteq starts /\ replaceJobs' \subseteq replaceJobs
        /\ g \notin starts' \cup replaceJobs'
    OBVIOUS
  <2>5. starts \cup replaceJobs \subseteq Gen
    BY DEF IInv, TypeOK
  <2>6. StartsOnce'
    BY <2>1, <2>4, <2>5 DEF IInv, StartsOnce
  <2> QED
    BY <2>3, <2>6
<1>4. SessionShape'
  <2>1. \A h \in Gen : h # g => life'[h] # "open"
    BY <1>1 DEF IInv, SessionShape, Gen
  <2> QED
    BY <1>1, <1>2, <2>1 DEF IInv, SessionShape, TypeOK
<1>5. StopsFenced'
  <2>1. \A h \in Gen : Stopped(h)' => Stopped(h)
    BY <1>1 DEF Stopped, Gen
  <2> QED
    BY <1>1, <2>1 DEF IInv, StopsFenced
<1>6. ConfirmShape'
  BY <1>1, <1>2 DEF IInv, ConfirmShape
<1>7. DisconnectedShape' /\ ConnectedShape'
  BY <1>1 DEF DisconnectedShape, ConnectedShape
<1>8. DisconnectedStays
  <2>1. snapshot.phase = "DISCONNECTED" /\ snapshot.generation = g => Stopped(g)
    BY DEF IInv, StopsFenced, Stopped
  <2>2. ~Stopped(g)
    BY <1>1, Numbers DEF IInv, StopsFenced
  <2> QED
    BY <1>1, <2>1, <2>2 DEF DisconnectedStays
<1> QED
  BY <1>3, <1>4, <1>5, <1>6, <1>7, <1>8 DEF IInv

-----------------------------------------------------------------------------
(* The registers keep their types.                                          *)

(* Numbers in reach of the bound.                                           *)
LEMMA BoundedCounter ==
  ASSUME TypeOK, WithinBound
  PROVE  sequence + 1 \in Gen /\ repeatedStops + 1 \in 0 .. MaxGeneration
  BY DEF TypeOK, WithinBound, Gen

(* beginExplicitSession.                                                    *)
LEMMA BeginTypes ==
  ASSUME TypeOK, NEW g \in Gen, beginExplicitSession(g)
  PROVE  /\ session' \in 0 .. MaxGeneration /\ sessionGeneration' \in 0 .. MaxGeneration
         /\ terminalStop' \in 0 .. MaxGeneration /\ status' \in Status
         /\ posted' \in Status \cup {"none"} /\ receiver' \in BOOLEAN
         /\ life' \in [Gen -> {"none", "open", "closing", "closed"}]
         /\ pipeline' \in [Gen -> Pipeline] /\ confirm' \in [Gen -> Confirmation]
         /\ UNCHANGED <<held, late, leaked, gone, struck>>
         /\ snapshot' \in Snapshot
<1>1. snapshot \in Snapshot /\ g \in 0 .. MaxGeneration
  BY DEF TypeOK, Snapshot, Gen
<1>2. snapshot' \in Snapshot
  BY <1>1, WritersShown DEF beginExplicitSession, Shown
<1>3. CASE mayBegin(g)
  <2>1. /\ session' = g /\ sessionGeneration' = g /\ terminalStop' = 0
        /\ status' = "Starting" /\ receiver' = TRUE
        /\ life' = [life EXCEPT ![g] = "open"] /\ pipeline' = [pipeline EXCEPT ![g] = "begun"]
        /\ UNCHANGED <<posted, coreVars, confirm, historyVars>>
    BY <1>3 DEF beginExplicitSession
  <2>2. /\ life' \in [Gen -> {"none", "open", "closing", "closed"}]
        /\ pipeline' \in [Gen -> Pipeline]
    BY <2>1 DEF TypeOK, Pipeline
  <2>3. terminalStop' \in 0 .. MaxGeneration /\ status' \in Status /\ receiver' \in BOOLEAN
    BY <2>1 DEF Status
  <2> QED
    BY <1>1, <1>2, <2>1, <2>2, <2>3 DEF TypeOK, coreVars, historyVars
<1>4. CASE ~mayBegin(g)
  BY <1>2, <1>4 DEF beginExplicitSession, TypeOK, runVars, coreVars, historyVars, statusVars
<1> QED
  BY <1>3, <1>4

(* tellOwners.                                                              *)
LEMMA TellTypes ==
  ASSUME TypeOK, NEW g \in Gen, tellOwners(g)
  PROVE  /\ alive' \in BOOLEAN
         /\ session' \in 0 .. MaxGeneration /\ sessionGeneration' \in 0 .. MaxGeneration
         /\ terminalStop' \in 0 .. MaxGeneration /\ status' \in Status
         /\ posted' \in Status \cup {"none"} /\ receiver' \in BOOLEAN
         /\ life' \in [Gen -> {"none", "open", "closing", "closed"}]
         /\ UNCHANGED <<held, late, leaked, pipeline, confirm, gone, struck>>
         /\ snapshot' \in Snapshot /\ stopJobs' \subseteq 0 .. MaxGeneration
<1>1. snapshot \in Snapshot /\ g \in 0 .. MaxGeneration
  BY DEF TypeOK, Snapshot, Gen
<1>2. /\ requestStop(g) = snapshot' => snapshot' \in Snapshot
      /\ publishDisconnected(g) = snapshot' => snapshot' \in Snapshot
  BY <1>1, WritersShown DEF Shown
<1>3. snapshot' \in Snapshot
  BY <1>1, <1>2 DEF tellOwners, stopService
<1>4. CASE alive /\ stopService(g)
  <2>1. /\ UNCHANGED <<alive, session, held, late, leaked, pipeline, confirm, gone, struck>>
        /\ sessionGeneration' = g /\ terminalStop' = g
    BY <1>4 DEF stopService, coreVars, historyVars
  <2>2. \/ UNCHANGED <<status, receiver, life, stopJobs>> /\ posted' \in {posted, "Stopped"}
        \/ /\ status' = "Stopping" /\ receiver' = FALSE /\ stopJobs' = stopJobs \cup {session}
           /\ life' = [h \in Gen |-> IF h = session /\ life[h] = "open" THEN "closing" ELSE life[h]]
           /\ UNCHANGED posted
    BY <1>4 DEF stopService, statusVars
  <2>3. life' \in [Gen -> {"none", "open", "closing", "closed"}]
    BY <2>2 DEF TypeOK
  <2> QED
    BY <1>1, <1>3, <2>1, <2>2, <2>3 DEF TypeOK, Status
<1>5. CASE UNCHANGED <<serviceVars, runVars, stopJobs>>
  BY <1>3, <1>5
  DEF TypeOK, serviceVars, fieldVars, statusVars, runVars, coreVars, historyVars
<1> QED
  BY <1>4, <1>5 DEF tellOwners

(* acceptStop.                                                              *)
LEMMA AcceptTypes ==
  ASSUME TypeOK, NEW g \in Gen, NEW onMain \in BOOLEAN, acceptStop(g, onMain),
         repeatedStops' \in 0 .. MaxGeneration, replaceJobs' \subseteq Gen
  PROVE  TypeOK'
<1>1. /\ sequence' = g /\ latestStopGeneration' = g /\ broadcast' = broadcast \cup {g}
      /\ probe' = [probe EXCEPT ![g] = IF @ = "none" THEN "delayed" ELSE @]
      /\ direct' \in {direct, direct \cup {g}}
      /\ UNCHANGED <<starts, settleProbe, destroyJobs, destroyPosts>>
      /\ tellOwners(g) \/ UNCHANGED <<serviceVars, runVars, snapshot, stopJobs>>
  BY DEF acceptStop
<1>2. g \in 0 .. MaxGeneration
  BY DEF Gen
<1>3. probe' \in [Gen -> {"none", "delayed", "polling"}]
  BY <1>1 DEF TypeOK
<1>4. direct' \subseteq Gen /\ broadcast' \subseteq Gen
  BY <1>1 DEF TypeOK
<1>5. CASE tellOwners(g)
  <2>1. /\ held' \subseteq Gen /\ late' \subseteq held' /\ leaked' \subseteq late'
        /\ pipeline' \in [Gen -> Pipeline] /\ confirm' \in [Gen -> Confirmation]
        /\ gone' \subseteq Gen /\ struck' \subseteq Gen
    <3>1. UNCHANGED <<held, late, leaked, pipeline, confirm, gone, struck>>
      BY <1>5, TellTypes
    <3> QED
      BY <3>1 DEF TypeOK
  <2>2. /\ starts' \subseteq Gen /\ settleProbe' \in BOOLEAN /\ destroyPosts' \subseteq Gen
        /\ destroyJobs' \subseteq (Gen \X (0 .. MaxGeneration))
    BY <1>1 DEF TypeOK
  <2>3. sequence' \in 0 .. MaxGeneration /\ latestStopGeneration' \in 0 .. MaxGeneration
    BY <1>1, <1>2
  <2> QED
    BY <1>3, <1>4, <1>5, <2>1, <2>2, <2>3, TellTypes DEF TypeOK, Snapshot
<1>6. CASE UNCHANGED <<serviceVars, runVars, snapshot, stopJobs>>
  BY <1>1, <1>2, <1>3, <1>4, <1>6
  DEF TypeOK, serviceVars, fieldVars, statusVars, runVars, coreVars, historyVars
<1> QED
  BY <1>1, <1>5, <1>6

(* A step of one start pipeline, or of one confirmation.                    *)
LEMMA OneMoves ==
  ASSUME IInv, NEW g \in Gen
  PROVE  /\ \A p \in Pipeline : pipeline' = [pipeline EXCEPT ![g] = p] =>
              /\ pipeline' \in [Gen -> Pipeline] /\ pipeline'[g] = p
              /\ \A h \in Gen : h # g => pipeline'[h] = pipeline[h]
         /\ \A c \in Confirmation : confirm' = [confirm EXCEPT ![g] = c] =>
              /\ confirm' \in [Gen -> Confirmation] /\ confirm'[g] = c
              /\ \A h \in Gen : h # g => confirm'[h] = confirm[h]
<1>1. pipeline \in [Gen -> Pipeline] /\ confirm \in [Gen -> Confirmation]
  BY DEF IInv, TypeOK
<1> QED
  BY <1>1

-----------------------------------------------------------------------------
(* One lemma per group of actions: each preserves the invariant and takes   *)
(* no DISCONNECTED back.                                                    *)

(* The counter moves on, or a posted status arrives.                        *)
LEMMA CounterPreserves ==
  ASSUME IInv, connect \/ deliverStatus
  PROVE  IInv' /\ DisconnectedStays
<1>1. /\ UNCHANGED <<latestStopGeneration, repeatedStops, fieldVars, receiver, runVars, snapshot,
                     jobVars, postVars>>
      /\ sequence' \in 0 .. MaxGeneration /\ sequence' >= sequence
      /\ starts' \subseteq Gen
      /\ status' \in Status /\ posted' \in Status \cup {"none"}
      /\ \/ starts' = starts
         \/ sequence' = sequence + 1 /\ sequence' \in Gen /\ starts' \subseteq starts \cup {sequence'}
  <2>1. CASE connect
    <3>1. sequence + 1 \in Gen /\ sequence \in Nat
      BY <2>1, BoundedCounter DEF connect, IInv, TypeOK
    <3> QED
      BY <2>1, <3>1 DEF connect, serviceVars, statusVars, IInv, TypeOK, Gen
  <2>2. CASE deliverStatus
    BY <2>2 DEF deliverStatus, counterVars, IInv, TypeOK
  <2> QED
    BY <2>1, <2>2
<1>2. TypeOK'
  BY <1>1 DEF IInv, TypeOK, fieldVars, runVars, coreVars, historyVars, jobVars, postVars
<1>3. NoNewStop
  BY <1>1 DEF NoNewStop, Stopped, fieldVars, postVars
<1>4. StartsKept
  BY <1>1 DEF StartsKept, jobVars
<1> QED
  BY <1>1, <1>2, <1>3, <1>4, QuietPreserves
  DEF fieldVars, runVars, coreVars, historyVars, IInv, SessionShape, PipelinesMove, ConfirmsMove,
      Settled

(* Android creates the service.                                             *)
LEMMA OnCreatePreserves ==
  ASSUME IInv, NEW g \in Gen, onCreate(g)
  PROVE  IInv' /\ DisconnectedStays
<1>1. /\ alive' = TRUE /\ session' = 0 /\ sessionGeneration' = 0 /\ terminalStop' = 0
      /\ status' = "Stopped" /\ posted' = "none" /\ receiver' = FALSE
      /\ session = 0
      /\ UNCHANGED <<counterVars, runVars, snapshot, jobVars, postVars>>
  BY DEF onCreate, IInv, SessionShape
<1>2. TypeOK'
  <2>1. alive' \in BOOLEAN /\ receiver' \in BOOLEAN
    BY <1>1, Zenon
  <2>2. 0 \in 0 .. MaxGeneration /\ status' \in Status /\ posted' \in Status \cup {"none"}
    BY <1>1 DEF Status
  <2> QED
    BY <1>1, <2>1, <2>2
    DEF IInv, TypeOK, counterVars, runVars, coreVars, historyVars, jobVars, postVars
<1>3. NoNewStop
  BY <1>1 DEF NoNewStop, Stopped, counterVars, postVars, Gen
<1>4. StartsKept
  BY <1>1 DEF StartsKept, counterVars, jobVars
<1> QED
  BY <1>1, <1>2, <1>3, <1>4, Numbers, QuietPreserves
  DEF counterVars, runVars, coreVars, historyVars, PipelinesMove, ConfirmsMove, Settled

(* The initial delay of a fallback probe, the release of the core or the    *)
(* TUN, the end of a destroyed service's close, the rest of a failure.      *)
LEMMA AftermathPreserves ==
  ASSUME IInv, NEW g \in Gen, NEW j,
         alertReturns(g) \/ fallbackDelay(g) \/ release(g) \/ finishDestroy(j)
  PROVE  IInv' /\ DisconnectedStays
<1>1. /\ UNCHANGED <<counterVars, fieldVars, posted, life, pipeline, historyVars, snapshot, jobVars,
                     direct, broadcast>>
      /\ held' \subseteq held /\ late' \subseteq held' /\ leaked' \subseteq late'
      /\ held \subseteq late => held' \subseteq late'
      /\ status' \in Status
  <2>1. CASE alertReturns(g)
    BY <2>1 DEF alertReturns, coreVars, postVars, IInv, TypeOK, Status
  <2>2. CASE fallbackDelay(g)
    BY <2>2 DEF fallbackDelay, serviceVars, statusVars, runVars, coreVars, IInv, TypeOK
  <2>3. CASE release(g)
    BY <2>3 DEF release, serviceVars, statusVars, IInv, TypeOK
  <2>4. CASE finishDestroy(j)
    BY <2>4 DEF finishDestroy, serviceVars, statusVars, runVars, coreVars, IInv, TypeOK
  <2> QED
    BY <2>1, <2>2, <2>3, <2>4
<1>2. receiver' \in BOOLEAN /\ settleProbe' \in BOOLEAN
  <2>1. receiver \in BOOLEAN /\ settleProbe \in BOOLEAN
    BY DEF IInv, TypeOK
  <2>2. CASE alertReturns(g)
    <3>1. receiver' = (receiver /\ ~isCurrent(g)) /\ settleProbe' = settleProbe
      BY <2>2 DEF alertReturns, postVars
    <3> QED
      BY <2>1, <3>1, Zenon
  <2>3. CASE fallbackDelay(g) \/ release(g) \/ finishDestroy(j)
    BY <2>1, <2>3 DEF fallbackDelay, release, finishDestroy, serviceVars, statusVars
  <2> QED
    BY <2>2, <2>3
<1>3. /\ probe' \in [Gen -> {"none", "delayed", "polling"}]
      /\ destroyJobs' \subseteq destroyJobs
      /\ \A h \in Gen : probe'[h] # "none" => probe[h] # "none"
      /\ \/ destroyPosts' = destroyPosts
         \/ j \in destroyJobs /\ destroyPosts' = destroyPosts \cup ({j[2]} \ {0})
  <2>1. CASE fallbackDelay(g)
    BY <2>1 DEF fallbackDelay, IInv, TypeOK
  <2>2. CASE alertReturns(g) \/ release(g) \/ finishDestroy(j)
    BY <2>2 DEF alertReturns, release, finishDestroy, postVars, IInv, TypeOK
  <2> QED
    BY <2>1, <2>2
<1>4. destroyPosts' \subseteq Gen
  <2>1. (j \in destroyJobs => j[2] \in 0 .. MaxGeneration) /\ destroyPosts \subseteq Gen
    BY DEF IInv, TypeOK
  <2>2. j \in destroyJobs => ({j[2]} \ {0}) \subseteq Gen
    BY <2>1 DEF Gen
  <2> QED
    BY <1>3, <2>1, <2>2
<1>5. confirm' \in [Gen -> Confirmation] /\ ConfirmsMove
  <2>1. CASE alertReturns(g)
    <3>1. confirm[g] = "closing" /\ confirm' = [confirm EXCEPT ![g] = "idle"]
      BY <2>1 DEF alertReturns
    <3>2. "idle" \in Confirmation
      BY DEF Confirmation
    <3> QED
      BY <3>1, <3>2, OneMoves DEF ConfirmsMove
  <2>2. CASE fallbackDelay(g) \/ release(g) \/ finishDestroy(j)
    <3>1. confirm' = confirm
      BY <2>2 DEF fallbackDelay, release, finishDestroy, runVars
    <3> QED
      BY <3>1 DEF ConfirmsMove, IInv, TypeOK
  <2> QED
    BY <2>1, <2>2
<1>6. TypeOK'
  BY <1>1, <1>2, <1>3, <1>4, <1>5
  DEF IInv, TypeOK, counterVars, fieldVars, historyVars, jobVars
<1>7. NoNewStop
  BY <1>1, <1>3 DEF NoNewStop, Stopped, counterVars, fieldVars
<1>8. StartsKept
  BY <1>1 DEF StartsKept, counterVars, jobVars
<1> QED
  BY <1>1, <1>5, <1>6, <1>7, <1>8, Numbers, QuietPreserves
  DEF counterVars, fieldVars, historyVars, IInv, SessionShape, PipelinesMove, Settled

(* Who has a session, or the core in good time, has not been shown          *)
(* DISCONNECTED.                                                            *)
LEMMA OwnerNotDisconnected ==
  ASSUME IInv, session # 0 \/ ~(held \subseteq late)
  PROVE  snapshot.phase # "DISCONNECTED"
  BY DEF IInv, DisconnectedShape, Settled

(* A start that has begun has not gone beyond the counter.                  *)
LEMMA BegunIsNumbered ==
  ASSUME IInv, NEW g \in Gen, pipeline[g] # "none"
  PROVE  g <= snapshot.generation /\ g <= sequence /\ g \in Nat
  BY Numbers DEF IInv, Numbered, Gen

(* A test of startService, made under no lock, and nothing else.            *)
LEMMA TestPreserves ==
  ASSUME IInv, NEW g \in Gen,
         \/ startService(g) \/ publishStarting(g) \/ checkAfterWait(g) \/ endpointAnswers(g)
         \/ startReturns(g) \/ startFails(g) \/ startEnds(g)
  PROVE  IInv' /\ DisconnectedStays
<1>1. /\ UNCHANGED <<counterVars, fieldVars, status, receiver, life, coreVars, confirm, historyVars,
                     snapshot, jobVars, postVars>>
      /\ posted' \in {posted, "Starting"}
  BY DEF startService, publishStarting, checkAfterWait, endpointAnswers, startReturns, startFails,
         startEnds, serviceVars, statusVars, publishStatus
<1>2. PICK p \in Pipeline :
        /\ pipeline' = [pipeline EXCEPT ![g] = p]
        /\ pipeline[g] \notin {"none", "failed"} /\ p # "none"
        /\ pipeline[g] \in Answered /\ mayContinue(g) => p \in Answered
        /\ Settled => Pending(p) \subseteq Pending(pipeline[g])
  <2>0. g # 0
    BY DEF Gen
  <2>1. CASE startService(g)
    BY <2>0, <2>1 DEF startService, Pipeline, Answered, Settled, Pending
  <2>2. CASE publishStarting(g)
    BY <2>2 DEF publishStarting, Pipeline, Answered, Pending
  <2>3. CASE checkAfterWait(g)
    BY <2>3 DEF checkAfterWait, Pipeline, Answered, Pending
  <2>4. CASE endpointAnswers(g)
    BY <2>4 DEF endpointAnswers, Pipeline, Answered, Settled
  <2>5. CASE startReturns(g)
    BY <2>5 DEF startReturns, Pipeline, Answered, Pending
  <2>6. CASE startFails(g)
    BY <2>0, <2>6
    DEF startFails, mayFail, ownsFailure, mayContinue, Pipeline, Answered, Settled
  <2>7. CASE startEnds(g)
    BY <2>7 DEF startEnds, mayFail, mayContinue, Pipeline, Answered, Pending
  <2> QED
    BY <2>1, <2>2, <2>3, <2>4, <2>5, <2>6, <2>7
<1>3. PipelinesMove /\ pipeline' \in [Gen -> Pipeline]
  BY <1>2, OneMoves DEF PipelinesMove
<1>4. TypeOK'
  <2>1. posted' \in Status \cup {"none"}
    BY <1>1 DEF IInv, TypeOK, Status
  <2> QED
    BY <1>1, <1>3, <2>1
    DEF IInv, TypeOK, counterVars, fieldVars, coreVars, historyVars, jobVars, postVars
<1>5. NoNewStop
  BY <1>1 DEF NoNewStop, Stopped, counterVars, fieldVars, postVars
<1>6. StartsKept /\ ConfirmsMove
  BY <1>1 DEF StartsKept, ConfirmsMove, counterVars, jobVars
<1> QED
  BY <1>1, <1>3, <1>4, <1>5, <1>6, Numbers, QuietPreserves
  DEF counterVars, fieldVars, coreVars, historyVars, IInv, SessionShape, Settled

(* tryAcquire: if nothing was left, the core comes late, for a session that *)
(* is not open.                                                             *)
LEMMA AcquireCorePreserves ==
  ASSUME IInv, NEW g \in Gen, acquireCore(g)
  PROVE  IInv' /\ DisconnectedStays
<1>1. /\ pipeline[g] = "tested" /\ held' = held \cup {g}
      /\ late' = IF life[g] = "open" THEN late ELSE late \cup {g}
      /\ leaked' \in {leaked, leaked \cup {g}} /\ (life[g] = "open" => leaked' = leaked)
      /\ pipeline' = [pipeline EXCEPT ![g] = "acquired"]
      /\ UNCHANGED <<counterVars, serviceVars, life, confirm, historyVars, snapshot, jobVars,
                     postVars>>
  BY DEF acquireCore
<1>2. PipelinesMove /\ pipeline' \in [Gen -> Pipeline]
  <2>1. "acquired" \in Pipeline
    BY DEF Pipeline
  <2> QED
    BY <1>1, <2>1, OneMoves DEF PipelinesMove, Answered, Pending
<1>3. held' \subseteq Gen /\ late' \subseteq held' /\ leaked' \subseteq late'
  BY <1>1 DEF IInv, TypeOK
<1>4. TypeOK'
  BY <1>1, <1>2, <1>3
  DEF IInv, TypeOK, counterVars, serviceVars, fieldVars, statusVars, historyVars, jobVars, postVars
<1>5. Settled => held' \subseteq late'
  <2>1. session = 0 => life[g] # "open"
    BY DEF IInv, SessionShape, Gen
  <2> QED
    BY <1>1, <2>1 DEF Settled
<1>6. NoNewStop
  BY <1>1 DEF NoNewStop, Stopped, counterVars, serviceVars, fieldVars, postVars
<1>7. StartsKept /\ ConfirmsMove
  BY <1>1 DEF StartsKept, ConfirmsMove, counterVars, jobVars
<1> QED
  BY <1>1, <1>2, <1>4, <1>5, <1>6, <1>7, Numbers, QuietPreserves
  DEF counterVars, serviceVars, fieldVars, historyVars, IInv, SessionShape

(* A start publishes what it had decided to.                                *)
LEMMA StartWritesPreserves ==
  ASSUME IInv, NEW g \in Gen, startingCore(g) \/ commandEndpointReady(g)
  PROVE  IInv' /\ DisconnectedStays
<1>1. /\ UNCHANGED <<counterVars, fieldVars, status, receiver, life, coreVars, confirm, historyVars,
                     jobVars, postVars>>
      /\ posted' \in {posted, "CoreReady"}
  BY DEF startingCore, commandEndpointReady, serviceVars, statusVars, publishStatus
<1>2. PICK p \in Pipeline, ph \in Phase \ {"DISCONNECTED", "CONNECTED", "FAILED"},
           add \in SUBSET Evidence :
        /\ pipeline' = [pipeline EXCEPT ![g] = p] /\ snapshot' = update(g, ph, FALSE, add)
        /\ pipeline[g] \notin {"none", "failed"} /\ p # "none"
        /\ pipeline[g] \in Answered => p \in Answered
        /\ Pending(p) = {} /\ ph \in Pending(pipeline[g])
  <2>1. CASE startingCore(g)
    <3>1. /\ pipeline[g] = "starting" /\ pipeline' = [pipeline EXCEPT ![g] = "core"]
          /\ snapshot' = update(g, "STARTING_CORE", FALSE, {})
      BY <2>1 DEF startingCore, transition
    <3>2. "core" \in Pipeline /\ "STARTING_CORE" \in Phase \ {"DISCONNECTED", "CONNECTED", "FAILED"}
      BY DEF Pipeline, Phase
    <3>3. /\ Pending("core") = {} /\ "STARTING_CORE" \in Pending(pipeline[g])
          /\ {} \in SUBSET Evidence /\ pipeline[g] \notin Answered
      BY <3>1 DEF Pending, Answered
    <3> QED
      BY <3>1, <3>2, <3>3
  <2>2. CASE commandEndpointReady(g)
    <3>1. DOMAIN phaseToPublish = {"answered", "verified"}
          /\ phaseToPublish["answered"] = "WAITING_TUN" /\ phaseToPublish["verified"] = "VERIFYING"
      BY DEF phaseToPublish
    <3>2. /\ pipeline[g] \in {"answered", "verified"} /\ pipeline' = [pipeline EXCEPT ![g] = "ready"]
          /\ snapshot' = update(g, phaseToPublish[pipeline[g]], FALSE, {"core"})
      BY <2>2, <3>1 DEF commandEndpointReady
    <3>3. /\ "ready" \in Pipeline /\ {"core"} \in SUBSET Evidence
          /\ phaseToPublish[pipeline[g]] \in Phase \ {"DISCONNECTED", "CONNECTED", "FAILED"}
      BY <3>1, <3>2 DEF Pipeline, Phase, Evidence
    <3>4. phaseToPublish[pipeline[g]] \in Pending(pipeline[g]) /\ Pending("ready") = {}
      BY <3>1, <3>2 DEF Pending
    <3> QED
      BY <3>2, <3>3, <3>4 DEF Answered
  <2> QED
    BY <2>1, <2>2
<1>3. PipelinesMove /\ pipeline' \in [Gen -> Pipeline]
  BY <1>2, OneMoves DEF PipelinesMove
<1>4. Shown(g, ph, FALSE)
  <2>1. FALSE \in BOOLEAN /\ ph \in Phase
    BY <1>2
  <2> QED
    BY <1>2, <2>1, Numbers, UpdateShown
<1>5. TypeOK'
  <2>1. posted' \in Status \cup {"none"}
    BY <1>1 DEF IInv, TypeOK, Status
  <2>2. snapshot' \in Snapshot
    BY <1>4 DEF Shown
  <2> QED
    BY <1>1, <1>3, <2>1, <2>2
    DEF IInv, TypeOK, Snapshot, counterVars, fieldVars, coreVars, historyVars, jobVars, postVars
<1>6. StartsKept /\ ConfirmsMove
  BY <1>1 DEF StartsKept, ConfirmsMove, counterVars, jobVars
<1>7. g <= sequence
  BY <1>2, BegunIsNumbered
<1>8. ph \in Phase \ {"DISCONNECTED"} /\ ph # "CONNECTED" /\ ph # "FAILED"
  BY <1>2
<1>9. /\ UNCHANGED <<sequence, latestStopGeneration, alive, session, terminalStop, life, gone,
                     struck, direct, broadcast, probe, destroyJobs, destroyPosts, held, late>>
  BY <1>1 DEF counterVars, fieldVars, coreVars, historyVars, postVars
<1> QED
  BY <1>2, <1>3, <1>4, <1>5, <1>6, <1>7, <1>8, <1>9, ShowsPreserves DEF Settled

(* openTun takes the TUN for a session that may continue.                   *)
LEMMA OpenTunPreserves ==
  ASSUME IInv, NEW g \in Gen, openTun(g)
  PROVE  IInv' /\ DisconnectedStays
<1>1. /\ session = g /\ g # 0 /\ held' = held \cup {g}
      /\ snapshot' = update(g, "VERIFYING", FALSE, {"tun"})
      /\ UNCHANGED <<counterVars, serviceVars, life, late, leaked, pipeline, confirm, historyVars,
                     jobVars, postVars>>
  BY DEF openTun, mayContinue, Gen
<1>2. Shown(g, "VERIFYING", FALSE) /\ "VERIFYING" \in Phase \ {"DISCONNECTED"}
  <2>1. FALSE \in BOOLEAN /\ {"tun"} \in SUBSET Evidence /\ "VERIFYING" \in Phase
    BY DEF Evidence, Phase
  <2> QED
    BY <1>1, <2>1, Numbers, UpdateShown
<1>3. TypeOK'
  <2>1. snapshot' \in Snapshot
    BY <1>2 DEF Shown
  <2>2. held' \subseteq Gen /\ late' \subseteq held' /\ leaked' \subseteq late'
    BY <1>1 DEF IInv, TypeOK
  <2> QED
    BY <1>1, <2>1, <2>2
    DEF IInv, TypeOK, Snapshot, counterVars, serviceVars, fieldVars, statusVars, historyVars,
        jobVars, postVars
<1>4. snapshot.phase # "DISCONNECTED" /\ ~Settled /\ g <= sequence
  BY <1>1, OwnerNotDisconnected, Numbers DEF Settled
<1>5. StartsKept /\ PipelinesMove /\ ConfirmsMove
  BY <1>1 DEF StartsKept, PipelinesMove, ConfirmsMove, counterVars, jobVars
<1>6. /\ UNCHANGED <<sequence, latestStopGeneration, alive, session, terminalStop, life, gone,
                     struck, direct, broadcast, probe, destroyJobs, destroyPosts>>
  BY <1>1 DEF counterVars, serviceVars, fieldVars, historyVars, postVars
<1> QED
  BY <1>2, <1>3, <1>4, <1>5, <1>6, ShowsPreserves

(* A start or a confirmation publishes its failure.                         *)
LEMMA AlertPublishesPreserves ==
  ASSUME IInv, NEW g \in Gen, alertPublishes(g)
  PROVE  IInv' /\ DisconnectedStays
<1>1. /\ snapshot' = transition(g, "FAILED")
      /\ UNCHANGED <<counterVars, serviceVars, life, coreVars, historyVars, jobVars, postVars>>
      /\ \/ /\ pipeline[g] = "alert" /\ pipeline' = [pipeline EXCEPT ![g] = "failed"]
            /\ UNCHANGED confirm
         \/ /\ confirm[g] = "alert" /\ confirm' = [confirm EXCEPT ![g] = "failed"]
            /\ UNCHANGED pipeline
  BY DEF alertPublishes
<1>2. Shown(g, "FAILED", FALSE) /\ "FAILED" \in Phase \ {"DISCONNECTED"}
  BY <1>1, Numbers, WritersShown DEF Phase
<1>3. /\ PipelinesMove /\ pipeline' \in [Gen -> Pipeline]
      /\ ConfirmsMove /\ confirm' \in [Gen -> Confirmation]
      /\ pipeline'[g] = "failed" \/ confirm'[g] = "failed"
  <2>1. "failed" \in Pipeline /\ "failed" \in Confirmation
    BY DEF Pipeline, Confirmation
  <2>2. ~(snapshot'.generation = g /\ snapshot'.phase = "CONNECTED") \/ g < snapshot.generation
    BY <1>2, Numbers DEF Shown, Gen
  <2>3. g < snapshot.generation => snapshot'.generation # g
    BY <1>2, Numbers DEF Shown, Gen
  <2>4. pipeline \in [Gen -> Pipeline] /\ confirm \in [Gen -> Confirmation]
    BY DEF IInv, TypeOK
  <2> QED
    BY <1>1, <2>1, <2>2, <2>3, <2>4, OneMoves DEF PipelinesMove, ConfirmsMove, Answered, Pending
<1>4. TypeOK'
  <2>1. snapshot' \in Snapshot
    BY <1>2 DEF Shown
  <2> QED
    BY <1>1, <1>3, <2>1
    DEF IInv, TypeOK, Snapshot, counterVars, serviceVars, fieldVars, statusVars, coreVars,
        historyVars, jobVars, postVars
<1>5. StartsKept
  BY <1>1 DEF StartsKept, counterVars, jobVars
<1>6. g <= sequence
  <2>1. pipeline[g] # "none"
    BY <1>1 DEF IInv, ConfirmShape
  <2> QED
    BY <2>1, BegunIsNumbered
<1>7. snapshot.phase = "DISCONNECTED" /\ g = snapshot.generation => "FAILED" \in Pending(pipeline[g])
  <2>1. snapshot.phase = "DISCONNECTED" /\ g = snapshot.generation => confirm[g] = "idle"
    BY DEF IInv, StopsFenced, Stopped
  <2> QED
    BY <1>1, <2>1 DEF Pending
<1>8. /\ UNCHANGED <<sequence, latestStopGeneration, alive, session, terminalStop, life, gone,
                     struck, direct, broadcast, probe, destroyJobs, destroyPosts, held, late>>
  BY <1>1 DEF counterVars, serviceVars, fieldVars, coreVars, historyVars, postVars
<1> QED
  BY <1>2, <1>3, <1>4, <1>5, <1>6, <1>7, <1>8, ShowsPreserves DEF Settled

(* A failure closes the session there is.                                   *)
LEMMA AlertClosesPreserves ==
  ASSUME IInv, NEW g \in Gen, startAlertCloses(g) \/ confirmAlertCloses(g)
  PROVE  IInv' /\ DisconnectedStays
<1>1. /\ closesActive(g)
      /\ UNCHANGED <<counterVars, serviceVars, coreVars, gone, snapshot, jobVars, postVars>>
  BY DEF startAlertCloses, confirmAlertCloses
<1>2. \/ /\ pipeline[g] = "failed" /\ UNCHANGED confirm
         /\ \E p \in {"alert", "ended"} : /\ pipeline' = [pipeline EXCEPT ![g] = p]
                                          /\ p = "alert" => session = g
      \/ /\ confirm[g] = "failed" /\ UNCHANGED pipeline
         /\ \E c \in {"closing", "idle"} : confirm' = [confirm EXCEPT ![g] = c]
  BY DEF startAlertCloses, confirmAlertCloses, ownsFailure
<1>3. pipeline' \in [Gen -> Pipeline] /\ confirm' \in [Gen -> Confirmation]
  <2>1. {"alert", "ended"} \subseteq Pipeline /\ {"closing", "idle"} \subseteq Confirmation
    BY DEF Pipeline, Confirmation
  <2>2. pipeline \in [Gen -> Pipeline] /\ confirm \in [Gen -> Confirmation]
    BY DEF IInv, TypeOK
  <2> QED
    BY <1>2, <2>1, <2>2
<1>4. life' \in [Gen -> {"none", "open", "closing", "closed"}] /\ struck' \subseteq Gen
  BY <1>1 DEF closesActive, IInv, TypeOK
<1>5. TypeOK'
  BY <1>1, <1>3, <1>4
  DEF IInv, TypeOK, counterVars, serviceVars, fieldVars, statusVars, coreVars, jobVars, postVars
<1>6. UNCHANGED <<sequence, latestStopGeneration, starts, replaceJobs, alive, session, terminalStop,
                  held, late, gone, snapshot, direct, broadcast, probe, destroyPosts, destroyJobs>>
  BY <1>1 DEF counterVars, serviceVars, fieldVars, coreVars, jobVars, postVars
<1> QED
  BY <1>1, <1>2, <1>5, <1>6, AlertClosePreserves

(* A confirmation begins for the open session of the current generation,    *)
(* after every Stop, or finds that the start has failed.                    *)
LEMMA ConfirmPreserves ==
  ASSUME IInv, NEW g \in Gen, confirmCoreStarted(g)
  PROVE  IInv' /\ DisconnectedStays
<1>1. /\ session = g /\ confirm[g] = "idle" /\ isCurrent(g) /\ g > latestStopGeneration
      /\ UNCHANGED <<counterVars, serviceVars, life, coreVars, pipeline, historyVars, snapshot,
                     jobVars, postVars>>
  BY DEF confirmCoreStarted
<1>2. PICK c \in {"gated", "alert"} :
        /\ confirm' = [confirm EXCEPT ![g] = c]
        /\ c = "gated" => mayContinue(g) /\ pipeline[g] \in Answered
  BY DEF confirmCoreStarted, startEvidence, Answered
<1>3. /\ confirm' \in [Gen -> Confirmation] /\ confirm'[g] = c
      /\ \A h \in Gen : h # g => confirm'[h] = confirm[h]
  <2>1. c \in Confirmation
    BY <1>2 DEF Confirmation
  <2> QED
    BY <1>2, <2>1, OneMoves
<1>4. TypeOK'
  BY <1>1, <1>3
  DEF IInv, TypeOK, counterVars, serviceVars, fieldVars, statusVars, coreVars, historyVars,
      jobVars, postVars
<1>5. UNCHANGED <<sequence, latestStopGeneration, starts, replaceJobs, alive, session, terminalStop,
                  life, pipeline, held, late, gone, struck, snapshot, direct, broadcast, probe,
                  destroyPosts, destroyJobs>>
  BY <1>1 DEF counterVars, serviceVars, fieldVars, coreVars, historyVars, jobVars, postVars
<1>6. Numbered' /\ StartsOnce' /\ SessionShape'
  BY <1>5 DEF IInv, Numbered, StartsOnce, SessionShape
<1>7. StopsFenced'
  <2>1. \A h \in Gen : Stopped(h)' => Stopped(h)
    BY <1>5 DEF Stopped
  <2>2. ~Stopped(g)
    BY <1>1, Numbers DEF IInv, StopsFenced, Gen
  <2> QED
    BY <1>3, <1>5, <2>1, <2>2 DEF IInv, StopsFenced
<1>8. \A h : Backed(h)' <=> Backed(h)
  BY <1>5 DEF Backed, mayContinue, isCurrent, acceptsOperations
<1>9. ConfirmShape'
  <2>1. pipeline[g] # "none"
    BY <1>1 DEF IInv, Numbered, Gen
  <2>2. c = "gated" => Backed(g)
    BY <1>1, <1>2 DEF Backed
  <2>3. mayContinue(session)' <=> mayContinue(session)
    BY <1>5 DEF mayContinue, isCurrent, acceptsOperations
  <2>4. \A h \in Gen : confirm'[h] # "idle" => pipeline[h] # "none"
    BY <1>3, <2>1 DEF IInv, ConfirmShape
  <2>5. \A h \in Gen : confirm'[h] \in {"gated", "verifying"} /\ h = sequence => Backed(h)
    BY <1>2, <1>3, <2>2 DEF IInv, ConfirmShape
  <2>6. \A h \in Gen : confirm'[h] = "failed" <=> confirm[h] = "failed"
    BY <1>1, <1>2, <1>3
  <2>7. snapshot.phase = "FAILED" /\ mayContinue(session) /\ session > latestStopGeneration
          => pipeline[session] = "failed" \/ confirm'[session] = "failed"
    BY <1>1, <2>6 DEF IInv, ConfirmShape
  <2>8. \A h \in Gen : confirm'[h] = "failed" /\ snapshot.generation = h
                         => snapshot.phase # "CONNECTED"
    BY <2>6 DEF IInv, ConfirmShape
  <2> QED
    BY <1>5, <1>8, <2>3, <2>4, <2>5, <2>7, <2>8 DEF ConfirmShape
<1>10. DisconnectedShape' /\ DisconnectedStays
  BY <1>5 DEF IInv, DisconnectedShape, DisconnectedStays, Settled
<1>11. ConnectedShape'
  BY <1>5, <1>8 DEF IInv, ConnectedShape
<1> QED
  BY <1>4, <1>6, <1>7, <1>9, <1>10, <1>11 DEF IInv

(* Only generations without a Stop are confirmed.                           *)
LEMMA ConfirmedNotStopped ==
  ASSUME IInv, NEW g \in Gen, confirm[g] # "idle"
  PROVE  /\ g <= sequence /\ pipeline[g] # "none" /\ ~Stopped(g)
         /\ snapshot.phase = "DISCONNECTED" => g # snapshot.generation
         /\ isCurrent(g) => g > latestStopGeneration
<1>1. ~Stopped(g)
  BY DEF IInv, StopsFenced
<1>2. pipeline[g] # "none" /\ g <= sequence
  BY BegunIsNumbered DEF IInv, ConfirmShape
<1>3. snapshot.phase = "DISCONNECTED" => g # snapshot.generation
  BY <1>1 DEF IInv, StopsFenced, Stopped
<1>4. isCurrent(g) => g > latestStopGeneration
  <2>1. g # latestStopGeneration /\ g \in Nat
    BY <1>1 DEF Stopped, Gen
  <2> QED
    BY <2>1, Numbers DEF isCurrent
<1> QED
  BY <1>1, <1>2, <1>3, <1>4

(* The selected outbound has answered, or has not.                          *)
LEMMA VerifyPreserves ==
  ASSUME IInv, NEW g \in Gen, verify(g)
  PROVE  IInv' /\ DisconnectedStays
<1>1. /\ confirm[g] = "gated" /\ confirm' = [confirm EXCEPT ![g] = "verifying"]
      /\ UNCHANGED <<counterVars, serviceVars, life, coreVars, pipeline, historyVars, jobVars,
                     postVars>>
  BY DEF verify
<1>2. PICK outbound \in {{"outbound"}, {}} :
        snapshot' = update(g, "VERIFYING", FALSE, {"started"} \cup outbound)
  BY DEF verify
<1>3. Shown(g, "VERIFYING", FALSE) /\ "VERIFYING" \in Phase \ {"DISCONNECTED"}
  <2>1. FALSE \in BOOLEAN /\ ({"started"} \cup outbound) \in SUBSET Evidence /\ "VERIFYING" \in Phase
    BY DEF Evidence, Phase
  <2> QED
    BY <1>2, <2>1, Numbers, UpdateShown
<1>4. confirm' \in [Gen -> Confirmation] /\ ConfirmsMove
  <2>1. "verifying" \in Confirmation
    BY DEF Confirmation
  <2> QED
    BY <1>1, <2>1, OneMoves DEF ConfirmsMove
<1>5. TypeOK'
  <2>1. snapshot' \in Snapshot
    BY <1>3 DEF Shown
  <2> QED
    BY <1>1, <1>4, <2>1
    DEF IInv, TypeOK, Snapshot, counterVars, serviceVars, fieldVars, statusVars, coreVars,
        historyVars, jobVars, postVars
<1>6. StartsKept /\ PipelinesMove
  BY <1>1 DEF StartsKept, PipelinesMove, counterVars, jobVars
<1>7. UNCHANGED <<sequence, latestStopGeneration, alive, session, terminalStop, life, held, late,
                  gone, struck, direct, broadcast, probe, destroyPosts, destroyJobs>>
  BY <1>1 DEF counterVars, serviceVars, fieldVars, coreVars, historyVars, postVars
<1>8. g <= sequence /\ (snapshot.phase = "DISCONNECTED" => g # snapshot.generation)
  BY <1>1, ConfirmedNotStopped
<1> QED
  BY <1>3, <1>4, <1>5, <1>6, <1>7, <1>8, ShowsPreserves DEF Settled

(* The final transition of a confirmation.                                  *)
LEMMA PublishConnectedPreserves ==
  ASSUME IInv, NEW g \in Gen, publishConnected(g)
  PROVE  IInv' /\ DisconnectedStays
<1>1. /\ confirm[g] = "verifying" /\ snapshot' = transition(g, "CONNECTED")
      /\ posted' \in {posted, "Started"}
      /\ UNCHANGED <<counterVars, fieldVars, status, receiver, life, coreVars, pipeline, historyVars,
                     jobVars, postVars>>
  BY DEF publishConnected, publishStatus
<1>2. PICK c \in {"idle", "unproven"} : confirm' = [confirm EXCEPT ![g] = c]
  BY DEF publishConnected
<1>3. confirm' \in [Gen -> Confirmation] /\ ConfirmsMove /\ confirm'[g] # "failed"
  <2>1. c \in Confirmation
    BY <1>2 DEF Confirmation
  <2> QED
    BY <1>1, <1>2, <2>1, OneMoves DEF ConfirmsMove
<1>4. Shown(g, "CONNECTED", FALSE) /\ "CONNECTED" \in Phase \ {"DISCONNECTED"}
  BY <1>1, Numbers, WritersShown DEF Phase
<1>5. TypeOK'
  <2>1. snapshot' \in Snapshot
    BY <1>4 DEF Shown
  <2>2. posted' \in Status \cup {"none"}
    BY <1>1 DEF IInv, TypeOK, Status
  <2> QED
    BY <1>1, <1>3, <2>1, <2>2
    DEF IInv, TypeOK, Snapshot, counterVars, fieldVars, coreVars, historyVars, jobVars, postVars
<1>6. StartsKept /\ PipelinesMove
  BY <1>1 DEF StartsKept, PipelinesMove, counterVars, jobVars
<1>7. UNCHANGED <<sequence, latestStopGeneration, alive, session, terminalStop, life, held, late,
                  gone, struck, direct, broadcast, probe, destroyPosts, destroyJobs>>
  BY <1>1 DEF counterVars, fieldVars, coreVars, historyVars, postVars
<1>8. g <= sequence /\ (snapshot.phase = "DISCONNECTED" => g # snapshot.generation)
  BY <1>1, ConfirmedNotStopped
<1>9. g = sequence => Backed(sequence)
  BY <1>1 DEF IInv, ConfirmShape
<1> QED
  BY <1>3, <1>4, <1>5, <1>6, <1>7, <1>8, <1>9, ShowsPreserves DEF Settled

(* A connection that is not proved fails the start, if it is still there.   *)
LEMMA UnprovenPreserves ==
  ASSUME IInv, NEW g \in Gen, unprovenFails(g)
  PROVE  IInv' /\ DisconnectedStays
<1>1. /\ confirm[g] = "unproven"
      /\ UNCHANGED <<counterVars, serviceVars, life, coreVars, pipeline, historyVars, snapshot,
                     jobVars, postVars>>
  BY DEF unprovenFails
<1>2. PICK c \in {"alert", "idle"} : confirm' = [confirm EXCEPT ![g] = c]
  BY DEF unprovenFails
<1>3. confirm' \in [Gen -> Confirmation] /\ ConfirmsMove
  <2>1. c \in Confirmation
    BY <1>2 DEF Confirmation
  <2> QED
    BY <1>1, <1>2, <2>1, OneMoves DEF ConfirmsMove
<1>4. TypeOK'
  BY <1>1, <1>3
  DEF IInv, TypeOK, counterVars, serviceVars, fieldVars, statusVars, coreVars, historyVars,
      jobVars, postVars
<1>5. NoNewStop
  BY <1>1 DEF NoNewStop, Stopped, counterVars, serviceVars, fieldVars, postVars
<1>6. StartsKept /\ PipelinesMove
  BY <1>1 DEF StartsKept, PipelinesMove, counterVars, jobVars
<1> QED
  BY <1>1, <1>3, <1>4, <1>5, <1>6, Numbers, QuietPreserves
  DEF counterVars, serviceVars, fieldVars, coreVars, historyVars, IInv, SessionShape, Settled

(* beginExplicitSession, whether it begins or finds a reason not to.        *)
LEMMA BeginSessionPreserves ==
  ASSUME IInv, TypeOK', NEW g \in Gen, alive, beginExplicitSession(g),
         g \in starts \cup replaceJobs,
         starts' \subseteq starts \ {g}, replaceJobs' \subseteq replaceJobs \ {g},
         UNCHANGED <<sequence, latestStopGeneration, alive, direct, broadcast, probe,
                     destroyPosts, destroyJobs>>
  PROVE  IInv' /\ DisconnectedStays
<1>1. CASE mayBegin(g)
  <2>1. /\ session' = g /\ terminalStop' = 0 /\ snapshot' = begin(g)
        /\ life' = [life EXCEPT ![g] = "open"] /\ pipeline' = [pipeline EXCEPT ![g] = "begun"]
        /\ UNCHANGED <<held, late, confirm, gone, struck>>
    BY <1>1 DEF beginExplicitSession, coreVars, historyVars
  <2>2. Shown(g, "STARTING_PLATFORM", FALSE)
    BY <2>1, Numbers, WritersShown
  <2> QED
    BY <1>1, <2>1, <2>2, BeginPreserves
<1>2. CASE ~mayBegin(g)
  <2>1. UNCHANGED <<session, terminalStop, life, held, late, pipeline, confirm, gone, struck,
                    snapshot>>
    BY <1>2 DEF beginExplicitSession, runVars, coreVars, historyVars
  <2>2. NoNewStop /\ PipelinesMove /\ ConfirmsMove
    BY <2>1 DEF NoNewStop, Stopped, PipelinesMove, ConfirmsMove
  <2>3. StartsKept
    BY DEF StartsKept
  <2> QED
    BY <2>1, <2>2, <2>3, Numbers, QuietPreserves DEF IInv, SessionShape, Settled
<1> QED
  BY <1>1, <1>2

(* A start intent closes an older session, begins, or comes too late.       *)
LEMMA OnStartCommandPreserves ==
  ASSUME IInv, NEW g \in Gen, onStartCommand(g)
  PROVE  IInv' /\ DisconnectedStays
<1>1. /\ alive /\ g \in starts /\ starts' = starts \ {g} /\ g \notin replaceJobs
      /\ UNCHANGED <<sequence, latestStopGeneration, repeatedStops, alive, stopJobs, postVars>>
  BY DEF onStartCommand, IInv, StartsOnce
<1>2. CASE /\ isCurrent(g) /\ (session \in 1 .. g - 1 \/ (session = 0 /\ tunMayBeOwned))
           /\ replaceJobs' = replaceJobs \cup {g}
           /\ life' = [h \in Gen |-> IF h = session /\ life[h] = "open" THEN "closing" ELSE life[h]]
           /\ UNCHANGED <<session, sessionGeneration, terminalStop, statusVars, coreVars, pipeline,
                          confirm, snapshot, historyVars>>
  <2>1. life' \in [Gen -> {"none", "open", "closing", "closed"}]
    BY <1>2 DEF IInv, TypeOK
  <2>2. TypeOK'
    BY <1>1, <1>2, <2>1 DEF IInv, TypeOK, postVars, statusVars, coreVars, historyVars
  <2>3. NoNewStop
    BY <1>1, <1>2 DEF NoNewStop, Stopped, postVars
  <2>4. session # sequence
    BY <1>2, Numbers DEF isCurrent
  <2>5. \A h \in Gen : life'[h] = life[h] \/ (life'[h] # "open" /\ h = session)
    BY <1>2
  <2>6. StartsKept
    BY <1>1, <1>2 DEF StartsKept
  <2> QED
    BY <1>1, <1>2, <2>2, <2>3, <2>4, <2>5, <2>6, ClosePreserves DEF coreVars, historyVars
<1>3. CASE beginExplicitSession(g) /\ UNCHANGED replaceJobs
  <2>1. TypeOK'
    BY <1>1, <1>3, BeginTypes DEF IInv, TypeOK, Snapshot, postVars
  <2> QED
    BY <1>1, <1>3, <2>1, BeginSessionPreserves DEF postVars
<1>4. CASE UNCHANGED <<session, sessionGeneration, terminalStop, statusVars, runVars, snapshot,
                       replaceJobs>>
  <2>1. TypeOK'
    BY <1>1, <1>4 DEF IInv, TypeOK, postVars, statusVars, runVars, coreVars, historyVars
  <2>2. NoNewStop /\ PipelinesMove /\ ConfirmsMove
    BY <1>1, <1>4 DEF NoNewStop, Stopped, postVars, runVars, PipelinesMove, ConfirmsMove
  <2>3. StartsKept
    BY <1>1, <1>4 DEF StartsKept
  <2> QED
    BY <1>1, <1>4, <2>1, <2>2, <2>3, Numbers, QuietPreserves
    DEF runVars, coreVars, historyVars, Settled
<1> QED
  BY <1>2, <1>3, <1>4 DEF onStartCommand

(* The older session is closed, the new one begins.                         *)
LEMMA ReplacePreserves ==
  ASSUME IInv, NEW g \in Gen, replaceSession(g)
  PROVE  IInv' /\ DisconnectedStays
<1>1. /\ alive /\ g \in replaceJobs /\ replaceJobs' = replaceJobs \ {g} /\ beginExplicitSession(g)
      /\ UNCHANGED <<counterVars, alive, stopJobs, postVars>>
  BY DEF replaceSession
<1>2. TypeOK'
  BY <1>1, BeginTypes DEF IInv, TypeOK, Snapshot, counterVars, postVars
<1>3. g \notin starts /\ starts' = starts
  BY <1>1 DEF IInv, StartsOnce, counterVars
<1> QED
  BY <1>1, <1>2, <1>3, BeginSessionPreserves DEF counterVars, postVars

(* A bounded close ends.                                                    *)
LEMMA CloseEndsPreserves ==
  ASSUME IInv, NEW g \in Gen, closeEnds(g)
  PROVE  IInv' /\ DisconnectedStays
<1>1. /\ life[g] = "closing" /\ life' = [life EXCEPT ![g] = "closed"]
      /\ session' = IF session = g THEN 0 ELSE session
      /\ UNCHANGED <<counterVars, alive, sessionGeneration, terminalStop, statusVars, coreVars,
                     pipeline, confirm, snapshot, jobVars, postVars, historyVars>>
  BY DEF closeEnds
<1>2. /\ life' \in [Gen -> {"none", "open", "closing", "closed"}]
      /\ life'[g] = "closed" /\ \A h \in Gen : h # g => life'[h] = life[h]
  BY <1>1 DEF IInv, TypeOK
<1>3. TypeOK'
  BY <1>1, <1>2
  DEF IInv, TypeOK, counterVars, statusVars, coreVars, historyVars, jobVars, postVars
<1>4. NoNewStop
  BY <1>1 DEF NoNewStop, Stopped, counterVars, postVars
<1>5. session' # session => life[session] # "open" /\ ~mayContinue(session)
  BY <1>1 DEF mayContinue, acceptsOperations
<1>6. \A h \in Gen : \/ life'[h] = life[h]
                     \/ (life'[h] # "open" /\ (h = sequence /\ session = h => life[h] # "open"))
  BY <1>1, <1>2
<1>7. StartsKept
  BY <1>1 DEF StartsKept, counterVars, jobVars
<1> QED
  BY <1>1, <1>3, <1>4, <1>5, <1>6, <1>7, ClosePreserves DEF counterVars, coreVars, historyVars

-----------------------------------------------------------------------------
(* Stops and terminal states.                                               *)

(* Settled owners leave nothing behind.                                     *)
LEMMA OwnersSettledMeans ==
  ASSUME IInv, NEW g \in Gen, ownersSettled(g)
  PROVE  g = sequence /\ session = 0 /\ held = {}
  BY DEF ownersSettled, hasSessionOwnership, isCurrent, IInv, SessionShape

(* A stopped generation is shown DISCONNECTED, if the owners are settled.   *)
LEMMA TerminalPreserves ==
  ASSUME IInv, NEW g \in Gen, Stopped(g), publishTerminalIfOwnersSettled(g),
         UNCHANGED <<counterVars, serviceVars, runVars, jobVars, direct, broadcast, destroyJobs>>,
         settleProbe' \in BOOLEAN, destroyPosts' \subseteq destroyPosts,
         probe' \in [Gen -> {"none", "delayed", "polling"}],
         \A h \in Gen \ {g} : probe'[h] = probe[h],
         probe[g] = "none" => probe'[g] = "none"
  PROVE  IInv' /\ DisconnectedStays
<1>1. UNCHANGED <<sequence, latestStopGeneration, starts, replaceJobs, alive, session, terminalStop,
                  life, held, late, pipeline, confirm, gone, struck>>
  BY DEF counterVars, serviceVars, fieldVars, runVars, coreVars, historyVars, jobVars
<1>2. CASE ownersSettled(g)
  <2>1. g = sequence /\ session = 0 /\ held = {}
    BY <1>2, OwnersSettledMeans
  <2>2. Shown(g, "DISCONNECTED", TRUE)
    BY <1>2, Numbers, WritersShown DEF publishTerminalIfOwnersSettled
  <2>3. TypeOK'
    <3>1. snapshot' \in Snapshot
      BY <2>2 DEF Shown
    <3> QED
      BY <3>1
      DEF IInv, TypeOK, Snapshot, counterVars, serviceVars, fieldVars, statusVars, runVars,
          coreVars, historyVars, jobVars
  <2>4. /\ direct' \subseteq direct \cup {g} /\ broadcast' \subseteq broadcast \cup {g}
        /\ terminalStop' \in {terminalStop, g}
        /\ \A h \in Gen : life'[h] = life[h]
    BY <1>1
  <2> QED
    BY <1>1, <2>1, <2>2, <2>3, <2>4, StopPreserves
<1>3. CASE ~ownersSettled(g)
  <2>1. snapshot' = snapshot
    BY <1>3 DEF publishTerminalIfOwnersSettled
  <2>2. TypeOK'
    BY <2>1
    DEF IInv, TypeOK, counterVars, serviceVars, fieldVars, statusVars, runVars, coreVars,
        historyVars, jobVars
  <2>3. NoNewStop /\ PipelinesMove /\ ConfirmsMove /\ StartsKept
    BY <1>1, <2>1 DEF NoNewStop, Stopped, PipelinesMove, ConfirmsMove, StartsKept
  <2> QED
    BY <1>1, <2>1, <2>2, <2>3, Numbers, QuietPreserves DEF IInv, SessionShape, Settled
<1> QED
  BY <1>2, <1>3

(* Nothing happens but to the probes.                                       *)
LEMMA ProbePreserves ==
  ASSUME IInv,
         UNCHANGED <<counterVars, serviceVars, runVars, snapshot, jobVars, direct, broadcast,
                     destroyJobs, destroyPosts>>,
         settleProbe' \in BOOLEAN,
         probe' \in [Gen -> {"none", "delayed", "polling"}],
         \A h \in Gen : probe[h] = "none" => probe'[h] = "none"
  PROVE  IInv' /\ DisconnectedStays
<1>1. UNCHANGED <<sequence, latestStopGeneration, starts, replaceJobs, alive, session, terminalStop,
                  life, held, late, pipeline, confirm, gone, struck>>
  BY DEF counterVars, serviceVars, fieldVars, runVars, coreVars, historyVars, jobVars
<1>2. TypeOK'
  BY DEF IInv, TypeOK, counterVars, serviceVars, fieldVars, statusVars, runVars, coreVars,
         historyVars, jobVars
<1>3. NoNewStop /\ PipelinesMove /\ ConfirmsMove /\ StartsKept
  BY <1>1 DEF NoNewStop, Stopped, PipelinesMove, ConfirmsMove, StartsKept
<1> QED
  BY <1>1, <1>2, <1>3, Numbers, QuietPreserves DEF IInv, SessionShape, Settled

(* The settlement probe asks for the Stop that the snapshot shows.          *)
LEMMA SettlementProbePreserves ==
  ASSUME IInv, terminalSettlementProbe
  PROVE  IInv' /\ DisconnectedStays
<1>1. /\ settleProbe' = FALSE
      /\ UNCHANGED <<counterVars, serviceVars, runVars, jobVars, direct, broadcast, probe,
                     destroyJobs, destroyPosts>>
      /\ \/ /\ snapshot.stop /\ snapshot.generation = sequence
            /\ publishTerminalIfOwnersSettled(sequence)
         \/ snapshot' = snapshot
  BY DEF terminalSettlementProbe
<1>2. settleProbe' \in BOOLEAN /\ probe' \in [Gen -> {"none", "delayed", "polling"}]
  <2>1. settleProbe' \in BOOLEAN
    BY <1>1, Zenon
  <2> QED
    BY <1>1, <2>1 DEF IInv, TypeOK
<1>3. CASE /\ snapshot.stop /\ snapshot.generation = sequence /\ isCurrent(sequence)
           /\ publishTerminalIfOwnersSettled(sequence)
  <2>1. sequence \in Gen /\ Stopped(sequence)
    BY <1>3 DEF IInv, TypeOK, isCurrent, Stopped, Gen
  <2> QED
    BY <1>1, <1>2, <1>3, <2>1, TerminalPreserves
<1>4. CASE snapshot' = snapshot
  BY <1>1, <1>2, <1>4, ProbePreserves
<1>5. ~isCurrent(sequence) /\ publishTerminalIfOwnersSettled(sequence) => snapshot' = snapshot
  BY DEF publishTerminalIfOwnersSettled, ownersSettled
<1> QED
  BY <1>1, <1>3, <1>4, <1>5

(* The terminal publication that onDestroy has posted.                      *)
LEMMA AfterDestroyPreserves ==
  ASSUME IInv, NEW g \in Gen, publishAfterDestroy(g)
  PROVE  IInv' /\ DisconnectedStays
<1>1. /\ g \in destroyPosts /\ destroyPosts' = destroyPosts \ {g}
      /\ publishTerminalIfOwnersSettled(g)
      /\ UNCHANGED <<counterVars, serviceVars, runVars, jobVars, direct, broadcast, probe,
                     settleProbe, destroyJobs>>
  BY DEF publishAfterDestroy
<1>2. Stopped(g)
  BY <1>1 DEF Stopped
<1>3. settleProbe' \in BOOLEAN /\ probe' \in [Gen -> {"none", "delayed", "polling"}]
  BY <1>1 DEF IInv, TypeOK
<1> QED
  BY <1>1, <1>2, <1>3, TerminalPreserves

(* The last run of a fallback probe.                                        *)
LEMMA FallbackPreserves ==
  ASSUME IInv, NEW g \in Gen, terminalFallback(g)
  PROVE  IInv' /\ DisconnectedStays
<1>1. /\ probe[g] = "polling" /\ probe' = [probe EXCEPT ![g] = "none"]
      /\ UNCHANGED <<counterVars, serviceVars, runVars, jobVars, direct, broadcast, settleProbe,
                     destroyJobs, destroyPosts>>
  BY DEF terminalFallback
<1>2. Stopped(g)
  BY <1>1 DEF Stopped
<1>3. /\ settleProbe' \in BOOLEAN /\ probe' \in [Gen -> {"none", "delayed", "polling"}]
      /\ probe'[g] = "none" /\ \A h \in Gen : h # g => probe'[h] = probe[h]
  BY <1>1 DEF IInv, TypeOK
<1>4. CASE snapshot' = snapshot
  BY <1>1, <1>3, <1>4, ProbePreserves
<1>5. CASE ownersSettled(g) /\ snapshot' = publishDisconnected(g)
  BY <1>1, <1>2, <1>3, <1>5, TerminalPreserves DEF publishTerminalIfOwnersSettled
<1>6. CASE ~fallbackDone(g) /\ snapshot' = transition(g, "FAILED")
  <2>1. Shown(g, "FAILED", FALSE) /\ "FAILED" \in Phase \ {"DISCONNECTED"}
    BY <1>6, Numbers, WritersShown DEF Phase
  <2>2. TypeOK'
    <3>1. snapshot' \in Snapshot
      BY <2>1 DEF Shown
    <3> QED
      BY <1>1, <1>3, <3>1
      DEF IInv, TypeOK, Snapshot, counterVars, serviceVars, fieldVars, statusVars, runVars,
          coreVars, historyVars, jobVars
  <2>3. g <= sequence /\ g <= latestStopGeneration /\ g \in Nat
    BY <1>2, Numbers DEF IInv, StopsFenced, Gen
  <2>4. snapshot.phase = "DISCONNECTED" => g # snapshot.generation
    BY <1>6 DEF fallbackDone
  <2>5. g = sequence => ~(mayContinue(session) /\ session > latestStopGeneration)
    BY <2>3, Numbers DEF mayContinue, isCurrent
  <2>6. UNCHANGED <<sequence, latestStopGeneration, starts, replaceJobs, alive, session,
                    terminalStop, life, held, late, pipeline, confirm, gone, struck>>
    BY <1>1 DEF counterVars, serviceVars, fieldVars, runVars, coreVars, historyVars, jobVars
  <2>7. StartsKept /\ PipelinesMove /\ ConfirmsMove
    BY <2>6 DEF StartsKept, PipelinesMove, ConfirmsMove
  <2> QED
    BY <1>1, <1>3, <2>1, <2>2, <2>3, <2>4, <2>5, <2>6, <2>7, ShowsPreserves DEF Settled
<1> QED
  BY <1>4, <1>5, <1>6 DEF terminalFallback

(* The clean-up of stopService is over.                                     *)
LEMMA StopCompletesPreserves ==
  ASSUME IInv, NEW s \in 0 .. MaxGeneration, stopCompletes(s)
  PROVE  IInv' /\ DisconnectedStays
<1> DEFINE g == terminalStop
<1>1. /\ stopJobs' = stopJobs \ {s}
      /\ UNCHANGED <<counterVars, fieldVars, receiver, runVars, replaceJobs, postVars>>
      /\ status' \in {status, "Stopped"} /\ posted' \in {posted, "Stopped"}
      /\ \/ /\ isCurrent(g) /\ session = 0 /\ held = {}
            /\ snapshot' = publishDisconnected(g)
         \/ snapshot' = snapshot
  BY DEF stopCompletes, publishStatus
<1>2. status' \in Status /\ posted' \in Status \cup {"none"}
  BY <1>1 DEF IInv, TypeOK, Status
<1>3. UNCHANGED <<sequence, latestStopGeneration, starts, replaceJobs, alive, session, terminalStop,
                  life, held, late, pipeline, confirm, gone, struck, direct, broadcast, probe,
                  destroyPosts, destroyJobs>>
  BY <1>1 DEF counterVars, fieldVars, runVars, coreVars, historyVars, postVars
<1>4. CASE isCurrent(g) /\ session = 0 /\ held = {} /\ snapshot' = publishDisconnected(g)
  <2>1. g \in Gen /\ g = sequence /\ Stopped(g)
    BY <1>4 DEF IInv, TypeOK, isCurrent, Stopped, Gen
  <2>2. Shown(g, "DISCONNECTED", TRUE)
    BY <1>4, <2>1, Numbers, WritersShown
  <2>3. TypeOK'
    <3>1. snapshot' \in Snapshot
      BY <2>2 DEF Shown
    <3> QED
      BY <1>1, <1>2, <3>1
      DEF IInv, TypeOK, Snapshot, counterVars, fieldVars, runVars, coreVars, historyVars, postVars
  <2>4. /\ direct' \subseteq direct \cup {g} /\ broadcast' \subseteq broadcast \cup {g}
        /\ destroyPosts' \subseteq destroyPosts /\ \A h \in Gen \ {g} : probe'[h] = probe[h]
        /\ terminalStop' \in {terminalStop, g}
        /\ \A h \in Gen : life'[h] = life[h]
    BY <1>3
  <2> HIDE DEF g
  <2> QED
    BY <1>3, <1>4, <2>1, <2>2, <2>3, <2>4, StopPreserves
<1>5. CASE snapshot' = snapshot
  <2>1. TypeOK'
    BY <1>1, <1>2, <1>5
    DEF IInv, TypeOK, counterVars, fieldVars, runVars, coreVars, historyVars, postVars
  <2>2. NoNewStop /\ PipelinesMove /\ ConfirmsMove /\ StartsKept
    BY <1>3, <1>5 DEF NoNewStop, Stopped, PipelinesMove, ConfirmsMove, StartsKept
  <2> QED
    BY <1>3, <1>5, <2>1, <2>2, Numbers, QuietPreserves DEF IInv, SessionShape, Settled
<1> QED
  BY <1>1, <1>4, <1>5

(* What a service that is told of the Stop g does.                          *)
LEMMA TellMeans ==
  ASSUME IInv, NEW g \in Gen, tellOwners(g)
  PROVE  /\ UNCHANGED <<alive, session, pipeline, confirm, held, late, gone, struck>>
         /\ terminalStop' \in {terminalStop, g}
         /\ \A h \in Gen : life'[h] = life[h] \/ (h = session /\ life'[h] # "open")
         /\ \/ snapshot' = snapshot /\ UNCHANGED life /\ session = 0
            \/ Shown(g, "STOPPING", TRUE)
            \/ Shown(g, "DISCONNECTED", TRUE) /\ session = 0 /\ held = {}
<1>1. /\ snapshot' = requestStop(g) => Shown(g, "STOPPING", TRUE)
      /\ snapshot' = publishDisconnected(g) => Shown(g, "DISCONNECTED", TRUE)
  BY Numbers, WritersShown
<1>2. CASE alive /\ stopService(g)
  <2>1. /\ UNCHANGED <<alive, session, pipeline, confirm, held, late, gone, struck>>
        /\ terminalStop' = g
        /\ \/ snapshot' = requestStop(g)
           \/ /\ session = 0 /\ UNCHANGED life
              /\ snapshot' = IF held = {} THEN publishDisconnected(g) ELSE snapshot
        /\ \/ UNCHANGED life
           \/ life' = [h \in Gen |-> IF h = session /\ life[h] = "open" THEN "closing" ELSE life[h]]
    BY <1>2 DEF stopService, coreVars, historyVars
  <2>2. \A h \in Gen : life'[h] = life[h] \/ (h = session /\ life'[h] # "open")
    BY <2>1
  <2>3. \/ snapshot' = snapshot /\ UNCHANGED life /\ session = 0
        \/ Shown(g, "STOPPING", TRUE)
        \/ Shown(g, "DISCONNECTED", TRUE) /\ session = 0 /\ held = {}
    BY <1>1, <2>1
  <2> QED
    BY <2>1, <2>2, <2>3
<1>3. CASE /\ ~alive
           /\ snapshot' = IF destroyJobs # {} /\ held = {} THEN publishDisconnected(g) ELSE snapshot
           /\ UNCHANGED <<serviceVars, runVars, stopJobs>>
  <2>1. session = 0
    BY <1>3 DEF IInv, SessionShape
  <2> QED
    BY <1>1, <1>3, <2>1 DEF serviceVars, fieldVars, runVars, coreVars, historyVars
<1> QED
  BY <1>2, <1>3 DEF tellOwners

(* A Stop arrives, directly or as a broadcast, and is told or dropped.      *)
LEMMA ReceivePreserves ==
  ASSUME IInv, NEW g \in Gen, receiveDirect(g) \/ receiveBroadcast(g)
  PROVE  IInv' /\ DisconnectedStays
<1>1. /\ g \in direct \/ g \in broadcast
      /\ direct' \subseteq direct /\ broadcast' \subseteq broadcast
      /\ \/ isCurrent(g) /\ tellOwners(g)
         \/ UNCHANGED <<serviceVars, runVars, snapshot, stopJobs>>
      /\ UNCHANGED <<counterVars, replaceJobs, probe, settleProbe, destroyJobs, destroyPosts>>
  BY DEF receiveDirect, receiveBroadcast, receiveStop
<1>2. CASE isCurrent(g) /\ tellOwners(g)
  <2>1. TypeOK'
    <3>1. UNCHANGED <<held, late, leaked, pipeline, confirm, gone, struck>>
      BY <1>2, TellTypes DEF IInv
    <3>2. TypeOK
      BY DEF IInv
    <3> QED
      BY <1>1, <1>2, <3>1, <3>2, TellTypes DEF TypeOK, Snapshot, counterVars
  <2>2. g = sequence /\ Stopped(g)
    BY <1>1, <1>2 DEF isCurrent, Stopped
  <2>3. UNCHANGED <<sequence, latestStopGeneration, starts>>
    BY <1>1 DEF counterVars
  <2> QED
    BY <1>1, <1>2, <2>1, <2>2, <2>3, TellMeans, StopPreserves
<1>3. CASE UNCHANGED <<serviceVars, runVars, snapshot, stopJobs>>
  <2>1. TypeOK'
    BY <1>1, <1>3
    DEF IInv, TypeOK, counterVars, serviceVars, fieldVars, statusVars, runVars, coreVars,
        historyVars
  <2>2. UNCHANGED <<sequence, latestStopGeneration, starts, replaceJobs, alive, session,
                    terminalStop, life, held, late, pipeline, confirm, gone, struck, probe,
                    destroyPosts, destroyJobs>>
    BY <1>1, <1>3 DEF counterVars, serviceVars, fieldVars, runVars, coreVars, historyVars
  <2>3. NoNewStop /\ PipelinesMove /\ ConfirmsMove /\ StartsKept
    BY <1>1, <1>3, <2>2 DEF NoNewStop, Stopped, PipelinesMove, ConfirmsMove, StartsKept
  <2> QED
    BY <1>3, <2>1, <2>2, <2>3, Numbers, QuietPreserves DEF IInv, SessionShape, Settled
<1> QED
  BY <1>1, <1>2, <1>3

(* No generation above the counter has been confirmed.                      *)
LEMMA NextUnconfirmed ==
  ASSUME IInv, sequence + 1 \in Gen
  PROVE  confirm[sequence + 1] = "idle"
<1>1. ~(sequence + 1 <= sequence)
  BY Numbers
<1> QED
  BY <1>1, ConfirmedNotStopped

(* requestStop: a Stop is accepted, of a new generation or repeated for one *)
(* that nobody confirms.                                                    *)
LEMMA AcceptPreserves ==
  ASSUME IInv, TypeOK', NEW g \in Gen, NEW onMain \in BOOLEAN, acceptStop(g, onMain),
         replaceJobs' \subseteq replaceJobs,
         g = sequence + 1 \/ (g = sequence /\ onMain /\ confirm[g] = "idle")
  PROVE  IInv' /\ DisconnectedStays
<1>1. /\ sequence' = g /\ latestStopGeneration' = g
      /\ direct' \subseteq direct \cup {g} /\ broadcast' \subseteq broadcast \cup {g}
      /\ probe' = [probe EXCEPT ![g] = IF @ = "none" THEN "delayed" ELSE @]
      /\ UNCHANGED <<starts, settleProbe, destroyJobs, destroyPosts>>
      /\ \/ tellOwners(g)
         \/ ~onMain /\ UNCHANGED <<serviceVars, runVars, snapshot, stopJobs>>
  BY DEF acceptStop
<1>2. confirm[g] = "idle" /\ g >= sequence
  BY Numbers, NextUnconfirmed
<1>3. \A h \in Gen \ {g} : probe'[h] = probe[h]
  BY <1>1 DEF IInv, TypeOK
<1>4. CASE tellOwners(g)
  BY <1>1, <1>2, <1>3, <1>4, TellMeans, StopPreserves
<1>5. CASE ~onMain /\ UNCHANGED <<serviceVars, runVars, snapshot, stopJobs>>
  <2>1. g > sequence
    BY <1>5, Numbers
  <2>2. UNCHANGED <<alive, session, terminalStop, life, pipeline, confirm, held, late, gone, struck>>
    BY <1>5 DEF serviceVars, fieldVars, runVars, coreVars, historyVars
  <2> QED
    BY <1>1, <1>2, <1>3, <1>5, <2>1, <2>2, StopPreserves
<1> QED
  BY <1>1, <1>4, <1>5

(* The user, Flutter or a Start whose predecessor does not settle asks for  *)
(* a Stop.                                                                  *)
LEMMA StopsPreserve ==
  ASSUME IInv, NEW g \in Gen, stop \/ stopSameGeneration \/ replaceTimesOut(g)
  PROVE  IInv' /\ DisconnectedStays
<1>1. TypeOK
  BY DEF IInv
<1>2. CASE stop
  <2>1. PICK onMain \in BOOLEAN : acceptStop(sequence + 1, onMain)
    BY <1>2 DEF stop
  <2>2. sequence + 1 \in Gen /\ UNCHANGED <<repeatedStops, replaceJobs>>
    BY <1>1, <1>2, BoundedCounter DEF stop, MayAskToStop
  <2>3. TypeOK'
    BY <1>1, <2>1, <2>2, AcceptTypes DEF TypeOK
  <2> QED
    BY <2>1, <2>2, <2>3, AcceptPreserves
<1>3. CASE stopSameGeneration
  <2>1. sequence \in Gen /\ TRUE \in BOOLEAN
    BY <1>1, <1>3 DEF stopSameGeneration, TypeOK, Gen
  <2>2. /\ repeatedStops' \in 0 .. MaxGeneration /\ UNCHANGED replaceJobs
        /\ confirm[sequence] = "idle" /\ acceptStop(sequence, TRUE)
    BY <1>1, <1>3, BoundedCounter DEF stopSameGeneration, MayAskToStop
  <2>3. TypeOK'
    BY <1>1, <2>1, <2>2, AcceptTypes DEF TypeOK
  <2> QED
    BY <2>1, <2>2, <2>3, AcceptPreserves
<1>4. CASE replaceTimesOut(g)
  <2>1. /\ sequence + 1 \in Gen /\ replaceJobs' = replaceJobs \ {g} /\ UNCHANGED repeatedStops
        /\ acceptStop(sequence + 1, FALSE) /\ FALSE \in BOOLEAN
    BY <1>1, <1>4, BoundedCounter DEF replaceTimesOut
  <2>2. TypeOK'
    BY <1>1, <2>1, AcceptTypes DEF TypeOK
  <2> QED
    BY <2>1, <2>2, AcceptPreserves
<1> QED
  BY <1>2, <1>3, <1>4

(* onDestroy of a session that CONNECTED is claimed for, or that is being   *)
(* confirmed, always takes a generation of its own.                         *)
LEMMA LiveSessionIsFenced ==
  ASSUME IInv, mayContinue(sequence), pipeline[sequence] \in Answered,
         sequence > latestStopGeneration, confirm[sequence] # "failed"
  PROVE  /\ isCurrent(session) /\ terminalStop = 0
         /\ ~(snapshot.stop /\ snapshot.generation = sequence)
         /\ snapshot.phase \notin {"DISCONNECTED", "FAILED"}
<1>1. session = sequence /\ session # 0 /\ sequence \in Gen /\ mayContinue(session)
  BY Numbers DEF mayContinue, isCurrent
<1>2. terminalStop = 0
  <2>1. terminalStop # 0 => terminalStop \in Gen /\ terminalStop >= sequence
    BY <1>1 DEF IInv, TypeOK, SessionShape, Gen
  <2>2. terminalStop \in Gen => terminalStop <= latestStopGeneration
    BY DEF IInv, StopsFenced, Stopped
  <2> QED
    BY <2>1, <2>2, Numbers
<1>3. ~(snapshot.stop /\ snapshot.generation = sequence)
  <2>1. snapshot.stop /\ snapshot.generation = sequence => sequence <= latestStopGeneration
    BY <1>1 DEF IInv, StopsFenced, Stopped
  <2> QED
    BY <2>1, Numbers
<1>4. snapshot.phase # "DISCONNECTED" /\ snapshot.phase # "FAILED"
  BY <1>1, OwnerNotDisconnected DEF IInv, ConfirmShape, Answered
<1> QED
  BY <1>1, <1>2, <1>3, <1>4 DEF mayContinue

(* onDestroy: the session is gone with its service.                         *)
LEMMA OnDestroyPreserves ==
  ASSUME IInv, onDestroy
  PROVE  IInv' /\ DisconnectedStays
<1> DEFINE published == snapshot.phase \in {"DISCONNECTED", "FAILED"}
           stopKnown == snapshot.stop /\ snapshot.generation = sequence
           fences == terminalStop = 0 /\ ~stopKnown /\ ~published /\ isCurrent(session)
           terminal == IF terminalStop > 0 THEN terminalStop
                       ELSE IF stopKnown THEN snapshot.generation
                       ELSE IF fences THEN sequence + 1 ELSE 0
           publishes == IF published THEN 0 ELSE terminal
<1>1. /\ alive' = FALSE /\ session' = 0 /\ status' = "Stopped" /\ posted' = "none"
      /\ receiver' = FALSE /\ sessionGeneration' = 0 /\ terminalStop' = 0
      /\ stopJobs' = {} /\ replaceJobs' = {}
      /\ confirm' = [h \in Gen |-> IF confirm[h] = "closing" THEN "idle" ELSE confirm[h]]
      /\ gone' = {h \in Gen : pipeline[h] # "none"}
      /\ life' = [h \in Gen |-> IF h = session /\ life[h] = "open" THEN "closing" ELSE life[h]]
      /\ \/ destroyPosts' = destroyPosts \cup ({publishes} \ {0}) /\ UNCHANGED destroyJobs
         \/ /\ session # 0
            /\ destroyJobs' = destroyJobs \cup {<<session, publishes>>} /\ UNCHANGED destroyPosts
      /\ UNCHANGED <<repeatedStops, starts, held, late, leaked, pipeline, struck, direct, broadcast,
                     probe, settleProbe>>
  BY DEF onDestroy, reserveDestroyStop, coreVars
<1>2. \/ /\ fences /\ WithinBound
         /\ sequence' = sequence + 1 /\ latestStopGeneration' = sequence + 1
         /\ snapshot' = requestStop(sequence + 1)
      \/ /\ ~fences
         /\ UNCHANGED <<sequence, latestStopGeneration, snapshot>>
  <2>1. fences => terminal = sequence + 1
    BY Numbers
  <2> QED
    BY <2>1 DEF onDestroy, reserveDestroyStop
<1>3. /\ publishes \in 0 .. MaxGeneration
      /\ publishes # 0 => Stopped(publishes) \/ (fences /\ publishes = sequence + 1)
  <2>1. terminalStop \in 0 .. MaxGeneration /\ snapshot.generation \in 0 .. MaxGeneration
    BY DEF IInv, TypeOK
  <2>2. fences => sequence + 1 \in 0 .. MaxGeneration
    BY <1>2, BoundedCounter DEF IInv, Gen
  <2>3. stopKnown => Stopped(snapshot.generation)
    BY DEF Stopped
  <2>4. Stopped(terminalStop)
    BY DEF Stopped
  <2> QED
    BY <2>1, <2>2, <2>3, <2>4
<1>4. /\ \A h \in Gen : h \in destroyPosts' => h \in destroyPosts \/ h = publishes
      /\ \A j \in destroyJobs' : j \in destroyJobs \/ j[2] = publishes
      /\ destroyPosts' \subseteq Gen
      /\ destroyJobs' \subseteq Gen \X (0 .. MaxGeneration)
  <2> HIDE DEF publishes
  <2>1. ({publishes} \ {0}) \subseteq Gen
    BY <1>3 DEF Gen
  <2>2. ASSUME session # 0
        PROVE  <<session, publishes>> \in Gen \X (0 .. MaxGeneration) /\ <<session, publishes>>[2] = publishes
    BY <1>3, <2>2, Numbers
  <2>3. destroyPosts \subseteq Gen /\ destroyJobs \subseteq Gen \X (0 .. MaxGeneration)
    BY DEF IInv, TypeOK
  <2>4. CASE destroyPosts' = destroyPosts \cup ({publishes} \ {0}) /\ UNCHANGED destroyJobs
    BY <2>1, <2>3, <2>4
  <2>5. CASE /\ session # 0 /\ UNCHANGED destroyPosts
             /\ destroyJobs' = destroyJobs \cup {<<session, publishes>>}
    BY <2>2, <2>3, <2>5
  <2> QED
    BY <1>1, <2>4, <2>5
<1>5. \A h \in Gen : Stopped(h)' => Stopped(h) \/ (fences /\ h = sequence + 1)
  <2> HIDE DEF publishes
  <2>1. ASSUME NEW h \in Gen, h = publishes
        PROVE  Stopped(h) \/ (fences /\ h = sequence + 1)
    BY <1>3, <2>1 DEF Gen
  <2>2. ASSUME NEW h \in Gen, snapshot'.stop, snapshot'.generation = h
        PROVE  Stopped(h) \/ (fences /\ h = sequence + 1)
    <3>1. CASE ~fences
      BY <1>2, <2>2, <3>1 DEF Stopped
    <3>2. CASE fences
      <4>1. sequence + 1 \in Gen
        BY <1>2, <3>2, BoundedCounter DEF IInv
      <4>2. Shown(sequence + 1, "STOPPING", TRUE)
        BY <1>2, <3>2, <4>1, Numbers, WritersShown
      <4> QED
        BY <2>2, <3>2, <4>2, Numbers DEF Shown
    <3> QED
      BY <3>1, <3>2
  <2>3. \A h \in Gen : h = latestStopGeneration' => h = latestStopGeneration \/ (fences /\ h = sequence + 1)
    BY <1>2
  <2> HIDE DEF fences
  <2> QED
    BY <1>1, <1>4, <2>1, <2>2, <2>3 DEF Stopped, Gen
<1>6. /\ alive' \in BOOLEAN /\ receiver' \in BOOLEAN
      /\ status' \in Status /\ posted' \in Status \cup {"none"}
  <2>1. alive' \in BOOLEAN /\ receiver' \in BOOLEAN
    BY <1>1, Zenon
  <2> QED
    BY <1>1, <2>1 DEF Status
<1>7. /\ life' \in [Gen -> {"none", "open", "closing", "closed"}]
      /\ confirm' \in [Gen -> Confirmation] /\ gone' \subseteq Gen
      /\ \A h \in Gen : confirm'[h] # "idle" => confirm'[h] = confirm[h]
      /\ \A h \in Gen : life'[h] # "open"
  <2>1. "idle" \in Confirmation
    BY DEF Confirmation
  <2>2. \A h \in Gen : life[h] = "open" => h = session
    BY DEF IInv, SessionShape
  <2> QED
    BY <1>1, <2>1, <2>2 DEF IInv, TypeOK
<1>8. SessionShape'
  BY <1>1, <1>7 DEF SessionShape
<1>9. ~mayContinue(session)'
  BY <1>1 DEF mayContinue, isCurrent
<1>10. CASE fences
  <2>1. /\ sequence + 1 \in Gen /\ sequence' = sequence + 1 /\ latestStopGeneration' = sequence + 1
        /\ snapshot' = requestStop(sequence + 1)
    BY <1>2, <1>10, BoundedCounter DEF IInv
  <2>2. /\ snapshot' \in Snapshot /\ snapshot'.generation = sequence + 1
        /\ snapshot'.phase = "STOPPING" /\ snapshot'.stop
    <3>1. Shown(sequence + 1, "STOPPING", TRUE)
      BY <2>1, Numbers, WritersShown
    <3> QED
      BY <3>1, Numbers DEF Shown
  <2> HIDE DEF fences, publishes
  <2>3. TypeOK'
    BY <1>1, <1>4, <1>6, <1>7, <2>1, <2>2 DEF IInv, TypeOK, Snapshot, Gen
  <2>4. Numbered' /\ StartsOnce'
    <3>1. Numbered'
      BY <1>1, <2>1, <2>2, Numbers DEF IInv, Numbered, Gen
    <3>2. StartsKept
      BY <1>1 DEF StartsKept
    <3> QED
      BY <1>1, <2>1, <3>1, <3>2, Numbers, StartsOnceKept
  <2>5. StopsFenced'
    <3>1. \A h \in Gen : Stopped(h) => h <= sequence /\ h \in Nat /\ confirm[h] = "idle"
      BY Numbers DEF IInv, StopsFenced, Gen
    <3> QED
      BY <1>1, <1>5, <1>7, <2>1, <2>2, <3>1, Numbers, NextUnconfirmed DEF StopsFenced
  <2>6. ConfirmShape'
    <3>1. confirm'[sequence + 1] = "idle"
      BY <1>7, <2>1, NextUnconfirmed
    <3> QED
      BY <1>1, <1>7, <1>9, <2>1, <2>2, <3>1 DEF IInv, ConfirmShape
  <2>7. DisconnectedShape' /\ ConnectedShape'
    BY <2>2 DEF DisconnectedShape, ConnectedShape
  <2>8. DisconnectedStays
    BY <2>2, Numbers DEF DisconnectedStays
  <2> QED
    BY <1>8, <2>3, <2>4, <2>5, <2>6, <2>7, <2>8 DEF IInv
<1>11. CASE ~fences
  <2>1. UNCHANGED <<sequence, latestStopGeneration, snapshot>>
    BY <1>2, <1>11
  <2>2. ~(/\ mayContinue(sequence) /\ pipeline[sequence] \in Answered
          /\ sequence > latestStopGeneration /\ confirm[sequence] # "failed")
    BY <1>11, LiveSessionIsFenced
  <2>3. \A h \in Gen : Stopped(h)' => Stopped(h)
    BY <1>5, <1>11
  <2> HIDE DEF fences, publishes
  <2>4. TypeOK'
    BY <1>1, <1>4, <1>6, <1>7, <2>1 DEF IInv, TypeOK
  <2>5. Numbered' /\ StartsOnce'
    <3>1. Numbered'
      BY <1>1, <2>1, Numbers DEF IInv, Numbered
    <3>2. StartsKept
      BY <1>1 DEF StartsKept
    <3> QED
      BY <1>1, <2>1, <3>1, <3>2, Numbers, StartsOnceKept
  <2>6. StopsFenced'
    BY <1>7, <2>1, <2>3 DEF IInv, StopsFenced
  <2>7. Backed(sequence) /\ confirm[sequence] # "failed" => sequence \in struck
    BY <2>2 DEF Backed
  <2>8. ConfirmShape'
    <3>1. \A h \in Gen : confirm'[h] \in {"gated", "verifying"} /\ h = sequence => h \in struck
      BY <1>7, <2>7 DEF IInv, ConfirmShape
    <3>2. \A h \in Gen : confirm'[h] # "idle" => pipeline[h] # "none"
      BY <1>7 DEF IInv, ConfirmShape
    <3>3. \A h \in Gen : confirm'[h] = "failed" /\ snapshot.generation = h
                           => snapshot.phase # "CONNECTED"
      BY <1>7 DEF IInv, ConfirmShape
    <3> QED
      BY <1>1, <1>9, <2>1, <3>1, <3>2, <3>3 DEF ConfirmShape, Backed
  <2>9. DisconnectedShape' /\ DisconnectedStays
    BY <1>1, <2>1 DEF IInv, DisconnectedShape, DisconnectedStays, Settled
  <2>10. ConnectedShape'
    <3> SUFFICES ASSUME snapshot.phase = "CONNECTED", snapshot.generation = sequence
                 PROVE  sequence \in struck
      BY <1>1, <2>1 DEF ConnectedShape, Backed
    <3>1. Backed(sequence)
      BY DEF IInv, ConnectedShape
    <3>2. sequence \in Gen
      BY <3>1 DEF Backed, mayContinue, isCurrent, IInv, TypeOK, Gen
    <3>3. confirm[sequence] # "failed"
      BY <3>2 DEF IInv, ConfirmShape
    <3> QED
      BY <2>7, <3>1, <3>3
  <2> QED
    BY <1>8, <2>4, <2>5, <2>6, <2>8, <2>9, <2>10 DEF IInv
<1> QED
  BY <1>10, <1>11

(* Every step preserves the invariant and takes no DISCONNECTED back.       *)
LEMMA StepPreserves == IInv /\ [Next]_vars => IInv' /\ DisconnectedStays
<1> SUFFICES ASSUME IInv, [Next]_vars
             PROVE  IInv' /\ DisconnectedStays
  OBVIOUS
<1>1. CASE connect \/ deliverStatus
  BY <1>1, CounterPreserves
<1>2. CASE stop \/ stopSameGeneration
  <2>1. sequence + 1 \in Gen
    BY <1>2, BoundedCounter DEF stop, stopSameGeneration, MayAskToStop, IInv
  <2> QED
    BY <1>2, <2>1, StopsPreserve
<1>3. CASE onDestroy
  BY <1>3, OnDestroyPreserves
<1>4. ASSUME NEW g \in Gen,
             \/ onCreate(g) \/ onStartCommand(g) \/ replaceSession(g) \/ closeEnds(g)
             \/ replaceTimesOut(g)
      PROVE  IInv' /\ DisconnectedStays
  BY <1>4, OnCreatePreserves, OnStartCommandPreserves, ReplacePreserves, CloseEndsPreserves,
     StopsPreserve
<1>5. ASSUME NEW g \in Gen, SessionStep(g)
      PROVE  IInv' /\ DisconnectedStays
  BY <1>5, TestPreserves, AcquireCorePreserves, StartWritesPreserves, OpenTunPreserves,
     ConfirmPreserves
  DEF SessionStep
<1>6. ASSUME NEW g \in Gen, SessionContinues(g)
      PROVE  IInv' /\ DisconnectedStays
  <2>1. CASE alertReturns(g)
    BY <2>1, AftermathPreserves
  <2> QED
    BY <1>6, <2>1, AlertPublishesPreserves, AlertClosesPreserves, VerifyPreserves,
       PublishConnectedPreserves, UnprovenPreserves
    DEF SessionContinues
<1>7. ASSUME NEW g \in Gen, release(g) \/ fallbackDelay(g) \/ terminalFallback(g)
      PROVE  IInv' /\ DisconnectedStays
  BY <1>7, AftermathPreserves, FallbackPreserves
<1>8. ASSUME NEW j \in destroyJobs, finishDestroy(j)
      PROVE  IInv' /\ DisconnectedStays
  <2>1. j[1] \in Gen
    BY DEF IInv, TypeOK
  <2> QED
    BY <1>8, <2>1, AftermathPreserves
<1>9. ASSUME NEW g \in Gen, receiveDirect(g) \/ receiveBroadcast(g) \/ publishAfterDestroy(g)
      PROVE  IInv' /\ DisconnectedStays
  BY <1>9, ReceivePreserves, AfterDestroyPreserves
<1>10. CASE terminalSettlementProbe
  BY <1>10, SettlementProbePreserves
<1>11. ASSUME NEW s \in 0 .. MaxGeneration, stopCompletes(s)
       PROVE  IInv' /\ DisconnectedStays
  BY <1>11, StopCompletesPreserves
<1>12. CASE UNCHANGED vars
  <2>1. UNCHANGED <<counterVars, serviceVars, runVars, snapshot, jobVars, postVars>>
    BY <1>12 DEF vars
  <2>2. settleProbe' \in BOOLEAN /\ probe' \in [Gen -> {"none", "delayed", "polling"}]
    BY <2>1 DEF postVars, IInv, TypeOK
  <2> QED
    BY <2>1, <2>2, ProbePreserves DEF postVars
<1>13. PostedStep => IInv' /\ DisconnectedStays
  BY <1>1, <1>4, <1>6, <1>8, <1>9, <1>10, <1>11 DEF PostedStep
<1> QED
  BY <1>1, <1>2, <1>3, <1>4, <1>5, <1>7, <1>12, <1>13 DEF Next

-----------------------------------------------------------------------------
(* The theorems.                                                            *)

(* The invariant holds in every state of every behaviour of BoxService.     *)
THEOREM Invariance == Spec => []IInv
<1>1. Init => IInv
  BY InitIInv
<1>2. IInv /\ [Next]_vars => IInv'
  BY StepPreserves
<1> QED
  BY <1>1, <1>2, PTL DEF Spec

(* Every register of the service, its jobs and its posts keeps its type.    *)
THEOREM TypesHold == Spec => []TypeOK
<1>1. IInv => TypeOK
  BY DEF IInv
<1> QED
  BY <1>1, Invariance, PTL

(* publishDisconnected, from whichever publisher, is true and stays true:   *)
(* no session, no core and no TUN is left, but a core that a start has      *)
(* taken after its session's close had begun.                               *)
THEOREM DisconnectedIsSettledAlways == Spec => []DisconnectedIsSettled
<1>1. IInv => DisconnectedIsSettled
  BY DEF IInv, DisconnectedShape, Settled, DisconnectedIsSettled
<1> QED
  BY <1>1, Invariance, PTL

(* CONNECTED, which confirmCoreStarted claims after its wait, is shown for  *)
(* the current generation only while its session accepts operations, or     *)
(* when the failure of an older start has closed it.                        *)
THEOREM ConnectedHasSessionAlways == Spec => []ConnectedHasSession
<1>1. IInv => ConnectedHasSession
  BY DEF IInv, ConnectedShape, Backed, ConnectedHasSession, mayContinue
<1> QED
  BY <1>1, Invariance, PTL

(* No late answer, failure or confirmation of a start takes back the        *)
(* DISCONNECTED that has ended it, but the one write that the start had     *)
(* decided before; and no step decides on another.                          *)
THEOREM DisconnectedIsTerminalAlways == Spec => DisconnectedIsTerminal
<1> DEFINE Terminal ==
             snapshot.phase = "DISCONNECTED" /\ snapshot.generation \in Gen
               /\ snapshot'.generation = snapshot.generation
               => LET g == snapshot.generation
                  IN  /\ snapshot'.phase \in {"DISCONNECTED", "STOPPING"} \cup pendingWrites(g)
                      /\ pendingWrites(g)' \subseteq pendingWrites(g)
<1>1. ASSUME IInv, [Next]_vars
      PROVE  Terminal
  <2>1. DisconnectedStays
    BY <1>1, StepPreserves
  <2>2. \A g : pendingWrites(g) = Pending(pipeline[g])
    BY PendingMeans DEF pendingWrites
  <2> SUFFICES ASSUME snapshot.phase = "DISCONNECTED", snapshot.generation \in Gen,
                      snapshot'.generation = snapshot.generation
               PROVE  /\ snapshot'.phase \in {"DISCONNECTED", "STOPPING"}
                                               \cup pendingWrites(snapshot.generation)
                      /\ pendingWrites(snapshot.generation)'
                           \subseteq pendingWrites(snapshot.generation)
    OBVIOUS
  <2>3. pendingWrites(snapshot.generation)' = Pending(pipeline'[snapshot.generation])
    BY PendingMeans DEF pendingWrites
  <2> QED
    BY <2>1, <2>2, <2>3 DEF DisconnectedStays
<1>2. IInv /\ [Next]_vars => [Terminal]_vars
  BY <1>1
<1> QED
  BY <1>2, Invariance, PTL DEF Spec, DisconnectedIsTerminal
=============================================================================
