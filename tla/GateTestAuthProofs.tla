------------------------- MODULE GateTestAuthProofs -------------------------
(***************************************************************************)
(* The theorems about three smaller components that do not interact: the   *)
(* Xray gate, the test sessions and the recovery of VPN authentication.    *)
(***************************************************************************)
EXTENDS XrayGate, TestRunner, VpnAuth, TLAPS

(***************************************************************************)
(* The gate, for any number of connections, instances and start attempts.  *)
(***************************************************************************)

\* g.mu is held by exactly the connection that starts an instance, in an open, cold gate.
Locking ==
    /\ mu # None => mu \in Conns /\ pc[mu] = "starting"
    /\ \A c \in Conns : pc[c] = "starting" => mu = c
    /\ mu # None => instance = None /\ ~closed /\ ~cooling

\* The gate, the sweeper and Close() hold different instances, all started before.
Ownership ==
    /\ {instance, swept, closing} \subseteq spent \cup {None}
    /\ live \subseteq spent
    /\ instance # None => instance \in live /\ instance # swept /\ instance # closing
    /\ sweeper # "took" => swept = None
    /\ NoOrphanInstance

\* A connection is counted from before ensure() until it leaves.
Counted ==
    \A c \in Conns : pc[c] \in {"counted", "starting", "ensured", "dialed", "relaying",
        "leaving"} => c \in active

\* What Close() has done so far.
Phases ==
    /\ closed <=> closer # "none"
    /\ dropped <=> closer \in {"dropped", "done"}
    /\ closer = "none" => closing = None
    /\ closed => instance = None

\* A connection's sockets are in g.conns until Close() takes and closes them.
Tracked ==
    \A c \in Conns :
        /\ pc[c] \in {"tracked", "counted", "starting", "ensured", "dialed", "relaying"} =>
             in(c) \in (IF dropped THEN cut ELSE conns)
        /\ pc[c] = "relaying" => up(c) \in (IF dropped THEN cut ELSE conns)

\* The starts tried since the last success or cooldown are those of the loop under way.
Tries ==
    /\ mu # None => attempt >= 1 /\ tries = attempt - 1
    /\ mu = None /\ ~cooling => tries = 0
    /\ tries <= gateStartAttempts

IndInv ==
    TypeOK /\ Locking /\ Ownership /\ Counted /\ HandedInstanceStays /\ Phases /\ Tracked /\ Tries

\* StartGate has bound the ports: nothing runs, nobody waits.
LEMMA InitLemma == Init => IndInv
<1> SUFFICES ASSUME Init PROVE IndInv
  OBVIOUS
<1>1. TypeOK
  <2>1. {instance, swept, closing} \subseteq Instances \cup {None} /\ {closed, listening, cooling, dropped,
      idle} \subseteq BOOLEAN
    BY Zenon DEF Init
  <2>2. mu \in Conns \cup {None} /\ conns \subseteq Sockets /\ cut \subseteq Sockets /\ active \subseteq Conns
        /\ live \subseteq Instances /\ spent \subseteq Instances
    BY DEF Init
  <2>3. pc \in [Conns -> Stages] /\ target \in [Conns -> Instances \cup {None}]
    BY DEF Init, Stages
  <2>4. attempt \in 0..gateStartAttempts /\ tries \in Nat
    BY AttemptsAssumption DEF Init
  <2>5. sweeper \in {"waiting", "checked", "took", "stopped"} /\ closer \in {"none", "marked",
      "unlistened", "dropped", "done"}
    BY DEF Init
  <2> QED BY <2>1, <2>2, <2>3, <2>4, <2>5 DEF TypeOK
<1>2. Locking /\ Ownership /\ Counted /\ HandedInstanceStays /\ Phases
  <2>1. Locking
    BY NoneAssumption DEF Init, Locking
  <2>2. Ownership
    BY NoneAssumption DEF Init, Ownership, NoOrphanInstance
  <2>3. Counted /\ HandedInstanceStays
    BY DEF Init, Counted, HandedInstanceStays
  <2>4. Phases
    BY DEF Init, Phases
  <2> QED BY <2>1, <2>2, <2>3, <2>4
<1>3. Tracked /\ Tries
  BY AttemptsAssumption DEF Init, Tracked, Tries
<1> QED BY <1>1, <1>2, <1>3 DEF IndInv

\* Every step keeps the types.
LEMMA TypeStep ==
  ASSUME IndInv, [Next]_vars
  PROVE  TypeOK'
<1> USE AttemptsAssumption DEF IndInv, TypeOK, Stages, Sockets, in, up, At, Goto
<1>1. ASSUME NEW c \in Conns, serve(c) PROVE TypeOK'
  BY <1>1 DEF serve, gate, workers, world
<1>2. ASSUME NEW c \in Conns, track(c) PROVE TypeOK'
  BY <1>2 DEF track, workers, world
<1>3. ASSUME NEW c \in Conns, count(c) PROVE TypeOK'
  BY <1>3 DEF count, workers, world
<1>4. ASSUME NEW c \in Conns, ensure(c) PROVE TypeOK'
  BY <1>4 DEF ensure, workers, world
<1>5. ASSUME NEW c \in Conns, NEW i \in Instances, startInstance(c, i) PROVE TypeOK'
  BY <1>5 DEF startInstance, workers
<1>6. ASSUME NEW c \in Conns, NEW b \in BOOLEAN, startFails(c, b) PROVE TypeOK'
  <2>1. CASE b /\ attempt < gateStartAttempts
    <3>1. attempt' = attempt + 1 /\ tries' = tries + 1 /\ UNCHANGED <<mu, cooling, pc>>
      BY <1>6, <2>1 DEF startFails
    <3>2. attempt' \in 0..gateStartAttempts /\ tries' \in Nat
      BY <3>1, <2>1
    <3> QED BY <1>6, <3>1, <3>2 DEF startFails, workers
  <2>2. CASE ~(b /\ attempt < gateStartAttempts)
    <3>1. mu' = None /\ cooling' = TRUE /\ Goto(c, "leaving") /\ attempt' = attempt /\ tries' = tries + 1
      BY <1>6, <2>2 DEF startFails
    <3>2. tries' \in Nat /\ pc' \in [Conns -> Stages]
      BY <3>1
    <3> QED BY <1>6, <3>1, <3>2 DEF startFails, workers
  <2> QED BY <2>1, <2>2
<1>7. ASSUME NEW c \in Conns, NEW b \in BOOLEAN, dial(c, b) PROVE TypeOK'
  BY <1>7 DEF dial, gate, workers, world
<1>8. ASSUME NEW c \in Conns, trackUpstream(c) PROVE TypeOK'
  BY <1>8 DEF trackUpstream, workers, world
<1>9. ASSUME NEW c \in Conns, relayEnds(c) PROVE TypeOK'
  BY <1>9 DEF relayEnds, gate, workers, world
<1>10. ASSUME NEW c \in Conns, uncount(c) PROVE TypeOK'
  BY <1>10 DEF uncount, workers, world
<1>11. ASSUME NEW c \in Conns, forget(c) PROVE TypeOK'
  BY <1>11 DEF forget, workers, world
<1>12. CASE Sweep
  BY <1>12 DEF Sweep, sweepTick, sweepTake, sweepClose, sweepStops, gate, handlers, world
<1>13. CASE Close
  BY <1>13 DEF Close, handlers, world
<1>14. CASE CloseGate
  BY <1>14 DEF CloseGate, closeListeners, dropConns, closeInstance, gate, handlers, world
<1>15. CASE IdlePasses
  BY <1>15 DEF IdlePasses, handlers, workers, world
<1>16. CASE CooldownPasses
  BY <1>16 DEF CooldownPasses, handlers, workers
<1>17. CASE UNCHANGED vars
  BY <1>17 DEF vars, gate, handlers, workers, world
<1> QED
  BY <1>1, <1>2, <1>3, <1>4, <1>5, <1>6, <1>7, <1>8, <1>9, <1>10, <1>11, <1>12, <1>13, <1>14, <1>15, <1>16,
      <1>17
  DEF Next, Handle

\* One step per action for the rest of the invariant.
LEMMA SafetyStep ==
  ASSUME IndInv, [Next]_vars
  PROVE  (Locking /\ Ownership /\ Counted /\ HandedInstanceStays /\ Phases /\ Tracked /\ Tries)'
<1> DEFINE Safe == Locking /\ Ownership /\ Counted /\ HandedInstanceStays /\ Phases /\ Tracked /\ Tries
<1> USE NoneAssumption, AttemptsAssumption DEF IndInv, TypeOK, At, Goto
<1>1. ASSUME NEW c \in Conns, serve(c) \/ track(c) \/ count(c) \/ relayEnds(c) PROVE Safe'
  <2>1. Locking'
    BY <1>1 DEF serve, track, count, relayEnds, gate, workers, world, Locking
  <2>2. Ownership'
    BY <1>1 DEF serve, track, count, relayEnds, gate, workers, world, Ownership, NoOrphanInstance
  <2>3. Counted'
    BY <1>1 DEF serve, track, count, relayEnds, gate, workers, world, Counted
  <2>4. HandedInstanceStays' /\ Phases'
    BY <1>1 DEF serve, track, count, relayEnds, gate, workers, world, HandedInstanceStays, Phases
  <2>5. Tracked'
    BY <1>1 DEF serve, track, count, relayEnds, gate, workers, world, Tracked
  <2>6. Tries'
    BY <1>1 DEF serve, track, count, relayEnds, gate, workers, world, Tries
  <2> QED BY <2>1, <2>2, <2>3, <2>4, <2>5, <2>6
<1>2. ASSUME NEW c \in Conns, ensure(c) PROVE Safe'
  <2>1. Locking'
    BY <1>2 DEF ensure, Locking
  <2>2. Ownership'
    BY <1>2 DEF ensure, workers, world, Ownership, NoOrphanInstance
  <2>3. Counted'
    BY <1>2 DEF ensure, Counted
  <2>4. HandedInstanceStays' /\ Phases'
    BY <1>2 DEF ensure, workers, world, HandedInstanceStays, Phases, Ownership
  <2>5. Tracked'
    BY <1>2 DEF ensure, Tracked
  <2>6. Tries'
    BY <1>2 DEF ensure, world, Tries
  <2> QED BY <2>1, <2>2, <2>3, <2>4, <2>5, <2>6
<1>3. ASSUME NEW c \in Conns, NEW i \in Instances, startInstance(c, i) PROVE Safe'
  <2>1. Locking'
    BY <1>3 DEF startInstance, Locking
  <2>2. Ownership'
    BY <1>3 DEF startInstance, workers, Ownership, NoOrphanInstance, Locking
  <2>3. Counted'
    BY <1>3 DEF startInstance, Counted
  <2>4. HandedInstanceStays' /\ Phases'
    BY <1>3 DEF startInstance, workers, HandedInstanceStays, Phases, Ownership, Locking
  <2>5. Tracked'
    BY <1>3 DEF startInstance, Tracked
  <2>6. Tries'
    BY <1>3 DEF startInstance, Tries
  <2> QED BY <2>1, <2>2, <2>3, <2>4, <2>5, <2>6
<1>4. ASSUME NEW c \in Conns, NEW b \in BOOLEAN, startFails(c, b) PROVE Safe'
  <2>1. Locking'
    BY <1>4 DEF startFails, Locking
  <2>2. Ownership'
    BY <1>4 DEF startFails, workers, Ownership, NoOrphanInstance
  <2>3. Counted'
    BY <1>4 DEF startFails, Counted
  <2>4. HandedInstanceStays' /\ Phases'
    BY <1>4 DEF startFails, workers, HandedInstanceStays, Phases
  <2>5. Tracked'
    BY <1>4 DEF startFails, Tracked
  <2>6. Tries'
    BY <1>4 DEF startFails, Tries, Locking
  <2> QED BY <2>1, <2>2, <2>3, <2>4, <2>5, <2>6
<1>5. ASSUME NEW c \in Conns, NEW b \in BOOLEAN, dial(c, b) PROVE Safe'
  <2>1. Locking'
    BY <1>5 DEF dial, gate, Locking
  <2>2. Ownership'
    BY <1>5 DEF dial, gate, workers, world, Ownership, NoOrphanInstance
  <2>3. Counted'
    BY <1>5 DEF dial, gate, Counted
  <2>4. HandedInstanceStays' /\ Phases'
    BY <1>5 DEF dial, gate, workers, world, HandedInstanceStays, Phases
  <2>5. Tracked'
    BY <1>5 DEF dial, gate, Tracked
  <2>6. Tries'
    BY <1>5 DEF dial, gate, world, Tries
  <2> QED BY <2>1, <2>2, <2>3, <2>4, <2>5, <2>6
<1>6. ASSUME NEW c \in Conns, trackUpstream(c) \/ uncount(c) \/ forget(c) PROVE Safe'
  <2>1. Locking'
    BY <1>6 DEF trackUpstream, uncount, forget, Locking
  <2>2. Ownership'
    BY <1>6 DEF trackUpstream, uncount, forget, workers, world, Ownership, NoOrphanInstance
  <2>3. Counted'
    BY <1>6 DEF trackUpstream, uncount, forget, Counted
  <2>4. HandedInstanceStays' /\ Phases'
    BY <1>6 DEF trackUpstream, uncount, forget, workers, world, HandedInstanceStays, Phases
  <2>5. Tracked'
    <3>1. CASE trackUpstream(c)
      BY <1>6, <3>1 DEF trackUpstream, Tracked, in, up
    <3>2. CASE uncount(c)
      BY <1>6, <3>2 DEF uncount, Tracked, in, up
    <3>3. CASE forget(c)
      BY <1>6, <3>3 DEF forget, Tracked, in, up
    <3> QED BY <1>6, <3>1, <3>2, <3>3
  <2>6. Tries'
    BY <1>6 DEF trackUpstream, uncount, forget, world, Tries
  <2> QED BY <2>1, <2>2, <2>3, <2>4, <2>5, <2>6
<1>7. CASE sweepTick \/ sweepStops \/ closeListeners \/ IdlePasses
  <2>1. Locking' /\ Counted' /\ HandedInstanceStays' /\ Tries'
    BY <1>7 DEF sweepTick, sweepStops, closeListeners, IdlePasses, gate, handlers, workers, world,
                Locking, Counted, HandedInstanceStays, Tries
  <2>2. Ownership' /\ Phases' /\ Tracked'
    BY <1>7 DEF sweepTick, sweepStops, closeListeners, IdlePasses, gate, handlers, workers, world,
                Ownership, NoOrphanInstance, Phases, Tracked
  <2> QED BY <2>1, <2>2
<1>8. CASE sweepTake
  <2>1. Locking' /\ Counted' /\ Tries' /\ Tracked' /\ Phases'
    BY <1>8 DEF sweepTake, handlers, world, Locking, Counted, Tries, Tracked, Phases
  <2>2. Ownership'
    BY <1>8 DEF sweepTake, world, Ownership, NoOrphanInstance
  <2>3. HandedInstanceStays'
    BY <1>8 DEF sweepTake, idleNow, handlers, world, HandedInstanceStays, Counted
  <2> QED BY <2>1, <2>2, <2>3
<1>9. CASE sweepClose
  <2>1. Locking' /\ Counted' /\ Tries' /\ Tracked' /\ Phases'
    BY <1>9 DEF sweepClose, gate, handlers, Locking, Counted, Tries, Tracked, Phases
  <2>2. Ownership'
    BY <1>9 DEF sweepClose, gate, Ownership, NoOrphanInstance
  <2>3. HandedInstanceStays'
    BY <1>9 DEF sweepClose, gate, handlers, HandedInstanceStays, Ownership
  <2> QED BY <2>1, <2>2, <2>3
<1>10. CASE Close
  <2>1. Locking' /\ Counted' /\ Tries' /\ Tracked'
    BY <1>10 DEF Close, handlers, world, Locking, Counted, Tries, Tracked
  <2>3. Phases'
    BY <1>10 DEF Close, Phases
  <2>4. HandedInstanceStays'
    BY <1>10 DEF Close, handlers, HandedInstanceStays
  <2>2. Ownership'
    BY <1>10 DEF Close, world, Ownership, NoOrphanInstance, Phases
  <2> QED BY <2>1, <2>2, <2>3, <2>4
<1>11. CASE dropConns
  <2>1. Locking' /\ Counted' /\ Tries' /\ Phases' /\ HandedInstanceStays'
    BY <1>11 DEF dropConns, world, Locking, Counted, Tries, Phases, HandedInstanceStays
  <2>2. Ownership'
    BY <1>11 DEF dropConns, world, Ownership, NoOrphanInstance
  <2>3. Tracked'
    BY <1>11 DEF dropConns, Tracked, Phases
  <2> QED BY <2>1, <2>2, <2>3
<1>12. CASE closeInstance
  <2>1. Locking' /\ Counted' /\ Tries' /\ Tracked' /\ Phases'
    BY <1>12 DEF closeInstance, gate, handlers, Locking, Counted, Tries, Tracked, Phases
  <2>2. Ownership' /\ HandedInstanceStays'
    BY <1>12 DEF closeInstance, gate, handlers, Ownership, NoOrphanInstance, HandedInstanceStays, Phases
  <2> QED BY <2>1, <2>2
<1>13. CASE CooldownPasses
  BY <1>13 DEF CooldownPasses, handlers, workers, Locking, Ownership, NoOrphanInstance, Counted,
               HandedInstanceStays, Phases, Tracked, Tries
<1>14. CASE UNCHANGED vars
  BY <1>14 DEF vars, gate, handlers, workers, world, Locking, Ownership, NoOrphanInstance, Counted,
               HandedInstanceStays, Phases, Tracked, Tries
<1> QED
  BY <1>1, <1>2, <1>3, <1>4, <1>5, <1>6, <1>7, <1>8, <1>9, <1>10, <1>11, <1>12, <1>13, <1>14
  DEF Next, Handle, Sweep, CloseGate

\* Both together.
LEMMA StepLemma == IndInv /\ [Next]_vars => IndInv'
  BY TypeStep, SafetyStep DEF IndInv

-----------------------------------------------------------------------------
\* The gate's fields, its goroutines and the instances keep their types.
THEOREM TypeCorrect == Spec => []TypeOK
<1>1. IndInv => TypeOK
  BY DEF IndInv
<1> QED BY <1>1, InitLemma, StepLemma, PTL DEF Spec

\* No interleaving of ensure(), sweep() and Close() leaves an instance nobody will close.
THEOREM NoOrphan == Spec => []NoOrphanInstance
<1>1. IndInv => NoOrphanInstance
  BY DEF IndInv, Ownership
<1> QED BY <1>1, InitLemma, StepLemma, PTL DEF Spec

\* The sweeper never takes an instance a connection was handed.
THEOREM HandedStays == Spec => []HandedInstanceStays
<1>1. IndInv => HandedInstanceStays
  BY DEF IndInv
<1> QED BY <1>1, InitLemma, StepLemma, PTL DEF Spec

\* Close() closes both sockets of every connection that is relayed when it drops them.
THEOREM CloseReachesAll == Spec => []CloseCutsAll
<1>1. IndInv => CloseCutsAll
  BY DEF IndInv, Tracked, CloseCutsAll, At
<1> QED BY <1>1, InitLemma, StepLemma, PTL DEF Spec

\* A failed start is tried at most gateStartAttempts times before a cooldown.
THEOREM FailuresShared == Spec => []FailureIsShared
<1>1. IndInv => FailureIsShared
  BY DEF IndInv, Tries, FailureIsShared
<1> QED BY <1>1, InitLemma, StepLemma, PTL DEF Spec

-----------------------------------------------------------------------------
(***************************************************************************)
(* Stale results and late stops of a test session, for any number of       *)
(* requests, batches, tags and stops.                                      *)
(*                                                                         *)
(* RightProfile depends on three facts that the code never states in one   *)
(* place: whoever works through batches holds the session (Holders); what  *)
(* the core has published and nobody has drained belongs to the Test in    *)
(* progress (Published); and a poller of the current generation is that of *)
(* the current batch, except in the moment between the lock of a new       *)
(* session and the move of its generation, when there is nothing to drain  *)
(* (Current).  StopIsHonoured needs the flag to stay set for as long as    *)
(* the stopped run, once past its own reset, holds the session (Stopped).  *)
(***************************************************************************)

Holding == {"locked", "moved", "loop", "probe", "call", "rpc"}
Places  == Holding \cup {"idle", "queued", "unlocked", "clearing", "done"}
Ticks   == {"off", "sleep", "query", "answered", "apply"}

RunnerTypes ==
  /\ session \in Runs \cup {NoRun}
  /\ sessionGen \in Nat
  /\ place \in [Runs -> Places]
  /\ batch \in [Runs -> Nat]
  /\ DOMAIN poller = Batches
  /\ \A b \in Batches : poller[b].pc \in Ticks /\ poller[b].gen \in Nat
  /\ stopped \subseteq Runs
  /\ after \in [Runs -> Nat]

\* session_ is held by the run that works through its batches.
Holders == \A r \in Runs : place[r] \in Holding <=> session = r

\* Undrained results are those of the Test in progress; without one there are
\* none, although a batch may end with results nobody has polled.
Published ==
  /\ \A r \in Runs : place[r] = "rpc" => job.of = <<r, batch[r]>>
  /\ \A x \in reporter : x.of = job.of
  /\ reporter # {} => \E r \in Runs : place[r] = "rpc"
  /\ job.left # {} => \E r \in Runs : place[r] = "rpc"

\* The generation moves with every batch and every session, so a poller whose
\* generation is still the current one is that of the batch in work, unless a
\* new session has just been locked, and what it has drained is its batch's.
Current ==
  \A b \in Batches : poller[b].pc # "off" =>
    /\ poller[b].gen <= sessionGen
    /\ poller[b].gen = sessionGen /\ session # NoRun /\ place[session] # "locked" => b = <<session, batch[session]>>
    /\ poller[b].gen = sessionGen /\ poller[b].pc = "answered" => \A x \in poller[b].hand : x.of = b

\* A run that was stopped keeps the flag until it gives the session back, and
\* having begun a Test since, it is past the steps that lead to another.
Stopped ==
  \A r \in Runs :
    /\ r \in stopped => place[r] \notin {"idle", "queued"}
    /\ r \in stopped /\ session = r => stopRequested
    /\ place[r] \in {"idle", "queued", "locked", "moved"} => after[r] = 0
    /\ after[r] <= 1
    /\ after[r] = 1 => r \in stopped /\ place[r] \notin {"probe", "call"}

RunnerIInv == RunnerTypes /\ Holders /\ Published /\ Current /\ RightProfile /\ Stopped

-----------------------------------------------------------------------------
\* A fresh runner satisfies the invariant.
LEMMA RunnerInitLemma == RunnerInit => RunnerIInv
<1> SUFFICES ASSUME RunnerInit PROVE RunnerIInv
  OBVIOUS
<1> USE RunnerAssumption DEF RunnerInit, Off, Holding, Places, Ticks
<1>1. RunnerTypes
  BY DEF RunnerTypes
<1>2. Holders /\ Stopped
  BY DEF Holders, Stopped
<1>3. Published
  BY DEF Published, NoJob
<1>4. Current /\ RightProfile
  BY DEF Current, RightProfile
<1> QED BY <1>1, <1>2, <1>3, <1>4 DEF RunnerIInv

\* Whoever takes the session finds no undrained results, and no poller whose
\* generation is current can bring any.
LEMMA TakeLemma ==
  ASSUME RunnerIInv, NEW r \in Runs, TakeSession(r), place[r] \in {"idle", "queued"},
         place' = [place EXCEPT ![r] = "locked"],
         UNCHANGED <<sessionGen, stopRequested, batch, poller, after, job, reporter, stopped>>
  PROVE  RunnerIInv'
<1> USE RunnerAssumption DEF RunnerIInv, Holding, Places, TakeSession
<1>1. \A q \in Runs : place[q] \notin Holding /\ place'[q] # "rpc"
  BY DEF Holders, RunnerTypes
<1>2. RunnerTypes'
  BY DEF RunnerTypes
<1>3. Holders'
  <2>1. \A q \in Runs : q # r => place'[q] = place[q]
    BY DEF RunnerTypes
  <2>2. place'[r] = "locked" /\ session' = r
    BY DEF RunnerTypes
  <2> QED BY <1>1, <2>1, <2>2 DEF Holders
<1>4. Published'
  BY <1>1 DEF Published, RunnerTypes
<1>5. Current'
  BY DEF Current, RunnerTypes
<1>6. RightProfile'
  BY DEF RightProfile
<1>7. Stopped'
  BY DEF Stopped, RunnerTypes
<1> QED BY <1>2, <1>3, <1>4, <1>5, <1>6, <1>7

\* Every step of a request, from taking the session to its end.
LEMMA RunLemma ==
  ASSUME RunnerIInv, NEW r \in Runs, Run(r) \/ RunNothing(r) \/ Queue(r) \/ RunStep(r)
  PROVE  RunnerIInv'
<1> USE RunnerAssumption DEF RunnerIInv, RunnerTypes, Holders, Published, Current, RightProfile, Stopped,
      Holding, Places, Ticks, Moves, Core, Stopping
<1>1. CASE Run(r)
  <2>1. CASE TakeSession(r)
    BY <1>1, <2>1, TakeLemma DEF Run
  <2>2. CASE session # NoRun
    BY <1>1, <2>2 DEF Run, TakeSession
  <2> QED BY <1>1, <2>1, <2>2 DEF Run
<1>2. CASE RunNothing(r)
  BY <1>2 DEF RunNothing
<1>3. CASE Queue(r)
  BY <1>3 DEF Queue
<1>4. CASE Queued(r)
  BY <1>4, TakeLemma DEF Queued
<1>13. CASE MoveGen(r)
  BY <1>13 DEF MoveGen
<1>14. CASE ResetStop(r)
  BY <1>14 DEF ResetStop
<1>5. CASE NextBatch(r)
  BY <1>5 DEF NextBatch
<1>6. CASE Probe(r)
  BY <1>6 DEF Probe
<1>7. CASE CallTest(r)
  BY <1>7 DEF CallTest
<1>8. CASE TestReturns(r)
  <2> USE <1>8 DEF TestReturns, StopPoller, NoJob, Off
  <2>1. session = r /\ reporter' = {} /\ job'.left = {}
    OBVIOUS
  <2>2. RunnerTypes' /\ Holders' /\ Stopped'
    OBVIOUS
  <2>3. Published'
    BY <2>1
  <2>4. Current' /\ RightProfile'
    OBVIOUS
  <2> QED BY <2>2, <2>3, <2>4
<1>9. CASE TestFails(r)
  BY <1>9 DEF TestFails, StopPoller, NoJob, Off
<1>10. CASE LoopEnds(r)
  BY <1>10 DEF LoopEnds
<1>11. CASE Finish(r)
  BY <1>11 DEF Finish
<1>12. CASE Clear(r)
  BY <1>12 DEF Clear
<1> QED BY <1>1, <1>2, <1>3, <1>4, <1>5, <1>6, <1>7, <1>8, <1>9, <1>10, <1>11, <1>12, <1>13, <1>14
     DEF RunStep

\* stop(), and the core's own steps.
LEMMA StopLemma ==
  ASSUME RunnerIInv, Stop \/ StopTest \/ Measure
  PROVE  RunnerIInv'
<1> USE RunnerAssumption DEF RunnerIInv, RunnerTypes, Holders, Published, Current, RightProfile, Stopped,
      Holding, Places, Ticks, Core, Stopping
<1>1. CASE Stop
  BY <1>1 DEF Stop
<1>2. CASE StopTest
  BY <1>2 DEF StopTest
<1>3. CASE Measure
  BY <1>3 DEF Measure
<1> QED BY <1>1, <1>2, <1>3

\* A tick of a poller, whose batch may be long over.
LEMMA PollLemma ==
  ASSUME RunnerIInv, NEW b \in Batches, PollStep(b)
  PROVE  RunnerIInv'
<1> USE RunnerAssumption DEF RunnerIInv, RunnerTypes, Holders, Published, Current, RightProfile, Stopped,
      Holding, Places, Ticks, Core, Stopping, Polls, Asleep, Off
<1>1. CASE PollBegins(b)
  BY <1>1 DEF PollBegins
<1>2. CASE PollQueries(b)
  BY <1>2 DEF PollQueries
<1>3. CASE PollAccepts(b)
  BY <1>3 DEF PollAccepts
<1>4. CASE PollApplies(b)
  BY <1>4 DEF PollApplies
<1> QED BY <1>1, <1>2, <1>3, <1>4 DEF PollStep

\* The invariant holds of every behaviour of the runner.
THEOREM RunnerInvariance == RunnerSpec => []RunnerIInv
<1>1. RunnerIInv /\ [RunnerNext]_runnerVars => RunnerIInv'
  <2> SUFFICES ASSUME RunnerIInv, [RunnerNext]_runnerVars PROVE RunnerIInv'
    OBVIOUS
  <2>1. CASE UNCHANGED runnerVars \/ AllDone
    BY <2>1 DEF AllDone, runnerVars, RunnerIInv, RunnerTypes, Holders, Published, Current, RightProfile, Stopped
  <2> QED BY <2>1, RunLemma, StopLemma, PollLemma DEF RunnerNext
<1> QED BY <1>1, RunnerInitLemma, PTL DEF RunnerSpec

\* A result is stored only for the profile it was measured on, however long a
\* poll has sat in its RPC.
THEOREM RightProfileAlways == RunnerSpec => []RightProfile
<1>1. RunnerIInv => RightProfile
  BY DEF RunnerIInv
<1> QED BY <1>1, RunnerInvariance, PTL

\* A stop ends the session it meets past the reset of the flag: at most the one
\* Test that was already on its way is begun after it.
THEOREM StopAlwaysHonoured == RunnerSpec => []StopIsHonoured
<1>1. RunnerIInv => StopIsHonoured
  BY DEF RunnerIInv, Stopped, StopIsHonoured
<1> QED BY <1>1, RunnerInvariance, PTL

-----------------------------------------------------------------------------
(***************************************************************************)
(* The budgets of VpnAuth bound what happens without the user, for any     *)
(* profiles, endpoints and budgets.                                        *)
(*                                                                         *)
(* RecoveryIsBounded compares the history with the limits.  What makes it  *)
(* hold is that the history never gets ahead of the controller's own       *)
(* counters (CountsAgree), which is the case because the stop inside a restart*)
(* is recognised: m_vpnAuthRestartID names the running profile for as long *)
(* as the controller's own start is under way (Marked).  Marked fails      *)
(* after a restart that was refused while another was under way, and the   *)
(* property with it; that is what history.lost records.                    *)
(***************************************************************************)

Counts == [Vpns -> Nat]

AuthTypes ==
  /\ running \in Profiles \cup {NoProfile} /\ starting \in Profiles \cup {NoProfile}
  /\ restarts \in Counts /\ prompted \in Counts
  /\ history \in [restarts : Counts, prompts : Counts, lost : BOOLEAN]
  /\ todo \subseteq Vpns /\ stopping \in {"no", "user", "switch", "crash"}

\* The stop of a switch is part of a start.
Switching == stopping = "switch" => starting # NoProfile /\ running # NoProfile

\* The controller's own start is known by its mark until the run it replaces
\* has been stopped.
Marked == ~history.lost /\ auto /\ starting # NoProfile /\ running # NoProfile => restartId = running

\* The controller's counters stay within the budgets, and count at least what
\* has happened since the user last acted.
Within  == \A v \in Vpns : restarts[v] <= MaxRestarts /\ prompted[v] <= MaxPrompts
CountsAgree ==
  ~history.lost => \A v \in Vpns : history.restarts[v] <= restarts[v] /\ history.prompts[v] <= prompted[v]

AuthIInv == AuthTypes /\ Switching /\ Marked /\ Within /\ CountsAgree

-----------------------------------------------------------------------------
\* Nothing has happened yet.
LEMMA AuthInitLemma == AuthInit => AuthIInv
  BY VpnAssumption DEF AuthInit, AuthIInv, AuthTypes, Switching, Marked, Within, CountsAgree, Counts,
      NoTries, Zero

\* A step that leaves alone what the budgets depend on keeps the invariant.
LEMMA Quiet ==
  ASSUME AuthIInv, UNCHANGED <<running, starting, stopping, restarts, prompted, restartId, auto, history>>,
         todo' \subseteq Vpns
  PROVE  AuthIInv'
  BY DEF AuthIInv, AuthTypes, Switching, Marked, Within, CountsAgree, Counts

\* A start asked for by the user, or answered by the user in a dialog, begins
\* a new count.
LEMMA UserLemma ==
  ASSUME AuthIInv, NEW p \in Profiles \cup {NoProfile}, NEW mark, RequestStart(p, mark, FALSE),
         history' = NoTries,
         UNCHANGED <<running, stopping, restarts, prompted, todo>>
  PROVE  AuthIInv'
<1> USE VpnAssumption DEF AuthIInv, AuthTypes, Switching, Within, Counts, NoTries, Zero
<1>1. auto' = FALSE /\ starting' \in {starting, p} /\ (starting # NoProfile => starting' = starting)
  BY DEF RequestStart
<1>2. history' \in [restarts : Counts, prompts : Counts, lost : BOOLEAN] /\ history'.lost = FALSE
      /\ \A v \in Vpns : history'.restarts[v] = 0 /\ history'.prompts[v] = 0
  OBVIOUS
<1>3. AuthTypes' /\ Switching' /\ Within'
  BY <1>1, <1>2
<1>4. Marked'
  BY <1>1 DEF Marked
<1>5. CountsAgree'
  BY <1>2 DEF CountsAgree
<1> QED BY <1>3, <1>4, <1>5

\* A restart for a new code, or a prompt, is counted by the controller and by
\* the history alike.
LEMMA FailureLemma ==
  ASSUME AuthIInv, NEW v \in Vpns, Failure(v)
  PROVE  AuthIInv'
<1> USE VpnAssumption
<1>t. UNCHANGED <<running, stopping>> /\ todo' \subseteq Vpns
  BY DEF Failure, AuthIInv, AuthTypes
<1>1. CASE UNCHANGED <<starting, auto, restartId, budget, history>>
  BY <1>1, <1>t, Quiet DEF budget
<1>2. CASE Restartable(v) /\ running # NoProfile /\ ~cooldown /\ autoRestartForAuth(v)
  <2> USE <1>2, <1>t DEF autoRestartForAuth, Restartable, AuthIInv
  <2>1. /\ restarts' = [restarts EXCEPT ![v] = @ + 1] /\ restarts[v] < MaxRestarts
        /\ UNCHANGED prompted
        /\ RequestStart(running, running, TRUE)
        /\ history' = [history EXCEPT !.restarts[v] = Up(@, MaxRestarts),
                                  !.lost = @ \/ (auto /\ starting # NoProfile /\ restartId' = NoProfile)]
    OBVIOUS
  <2>2. /\ history'.prompts = history.prompts
        /\ history'.restarts = [history.restarts EXCEPT ![v] = Up(@, MaxRestarts)]
        /\ history'.lost = (history.lost \/ (auto /\ starting # NoProfile /\ restartId' = NoProfile))
    BY <2>1 DEF AuthTypes
  <2>3. Up(history.restarts[v], MaxRestarts) \in {history.restarts[v], history.restarts[v] + 1}
    BY DEF Up
  <2>4. history' \in [restarts : Counts, prompts : Counts, lost : BOOLEAN]
    <3>1. history'.restarts \in Counts
      BY <2>2, <2>3 DEF AuthTypes, Counts
    <3>2. history'.lost \in BOOLEAN
      BY <2>2
    <3> QED BY <2>1, <2>2, <3>1, <3>2 DEF AuthTypes
  <2>5. AuthTypes'
    <3>1. starting' \in {starting, running}
      BY <2>1 DEF RequestStart
    <3>2. restarts' \in Counts
      BY <2>1 DEF AuthTypes, Counts
    <3> QED BY <2>1, <2>4, <3>1, <3>2 DEF AuthTypes
  <2>6. Switching'
    BY <2>1 DEF Switching, RequestStart
  <2>7. Marked'
    BY <2>1, <2>2 DEF Marked, RequestStart, AuthTypes
  <2>8. Within'
    BY <2>1 DEF Within, AuthTypes, Counts
  <2>9. CountsAgree'
    BY <2>1, <2>2, <2>3 DEF CountsAgree, AuthTypes, Counts
  <2> QED BY <2>5, <2>6, <2>7, <2>8, <2>9
<1>3. CASE /\ prompted[v] < MaxPrompts /\ prompted' = [prompted EXCEPT ![v] = @ + 1]
           /\ history' = [history EXCEPT !.prompts[v] = Up(@, MaxPrompts)]
           /\ UNCHANGED <<starting, auto, restartId, restarts>>
  <2> USE <1>3, <1>t DEF AuthIInv
  <2>2. /\ history'.restarts = history.restarts /\ history'.lost = history.lost
        /\ history'.prompts = [history.prompts EXCEPT ![v] = Up(@, MaxPrompts)]
    BY DEF AuthTypes
  <2>3. Up(history.prompts[v], MaxPrompts) \in {history.prompts[v], history.prompts[v] + 1}
    BY DEF Up
  <2>4. history' \in [restarts : Counts, prompts : Counts, lost : BOOLEAN]
    <3>1. history'.prompts \in Counts
      BY <2>2, <2>3 DEF AuthTypes, Counts
    <3> QED BY <2>2, <3>1 DEF AuthTypes
  <2>5. AuthTypes'
    BY <2>4 DEF AuthTypes, Counts
  <2>6. Switching' /\ Marked'
    BY <2>2 DEF Switching, Marked
  <2>7. Within'
    BY DEF Within, AuthTypes, Counts
  <2>8. CountsAgree'
    BY <2>2, <2>3 DEF CountsAgree, AuthTypes, Counts
  <2> QED BY <2>5, <2>6, <2>7, <2>8
<1> QED BY <1>1, <1>2, <1>3 DEF Failure, autoRestartForAuth, budget

\* The teardown of a run drops the budgets for a stop of the user's, and then
\* the history starts anew with them; the stop inside a restart keeps both.
LEMMA StoppedLemma ==
  ASSUME AuthIInv, noteRunStopped
  PROVE  AuthIInv'
<1> USE VpnAssumption DEF AuthIInv
<1>1. /\ running' = NoProfile /\ stopping' = "no" /\ UNCHANGED <<starting, auto, todo>>
      /\ history' = IF stopping = "user" \/ (stopping = "switch" /\ ~auto) THEN NoTries ELSE history
  BY DEF noteRunStopped
<1>2. Switching' /\ Marked'
  BY <1>1 DEF Switching, Marked
<1>3. history' \in [restarts : Counts, prompts : Counts, lost : BOOLEAN]
  BY <1>1 DEF AuthTypes, NoTries, Zero, Counts
<1>4. CASE Clears(running, stopping # "crash")
  <2>1. restarts' = Zero /\ prompted' = Zero
    BY <1>4 DEF noteRunStopped, clearCredentialOverrides
  <2>2. AuthTypes' /\ Within'
    BY <1>1, <1>3, <2>1 DEF AuthTypes, Within, Zero, Counts
  <2>3. history' = NoTries \/ history'.lost
    <3>1. running # restartId /\ stopping # "no" /\ stopping # "crash"
      BY <1>4 DEF Clears, OwnStop, noteRunStopped
    <3>2. stopping = "switch" /\ auto => history.lost
      BY <3>1 DEF Switching, Marked
    <3>3. stopping \in {"user", "switch"}
      BY <3>1 DEF AuthTypes
    <3> QED BY <1>1, <3>2, <3>3
  <2>4. CountsAgree'
    BY <2>1, <2>3 DEF CountsAgree, NoTries, Zero
  <2> QED BY <1>2, <2>2, <2>4
<1>5. CASE ~Clears(running, stopping # "crash")
  <2>1. UNCHANGED <<restarts, prompted>>
    BY <1>5 DEF noteRunStopped, budget
  <2>2. AuthTypes' /\ Within'
    BY <1>1, <1>3, <2>1 DEF AuthTypes, Within
  <2>3. CountsAgree'
    BY <1>1, <2>1 DEF CountsAgree, AuthTypes, Counts, NoTries, Zero
  <2> QED BY <1>2, <2>2, <2>3
<1> QED BY <1>4, <1>5

\* The other steps of starts and stops.
LEMMA StartLemma ==
  ASSUME AuthIInv, SwitchStops \/ StartEnds \/ UserStops
  PROVE  AuthIInv'
<1>1. UNCHANGED <<restarts, prompted, restartId, auto, history, todo>>
  BY DEF SwitchStops, StartEnds, UserStops, budget, polls
<1>2. Within' /\ CountsAgree'
  BY <1>1 DEF AuthIInv, Within, CountsAgree
<1>3. AuthTypes' /\ Switching' /\ Marked'
  BY <1>1, VpnAssumption DEF AuthIInv, AuthTypes, Switching, Marked, SwitchStops, StartEnds, UserStops
<1> QED BY <1>2, <1>3 DEF AuthIInv

\* The invariant holds of every behaviour.
THEOREM AuthInvariance == AuthSpec => []AuthIInv
<1>1. AuthIInv /\ [AuthNext]_authVars => AuthIInv'
  <2> SUFFICES ASSUME AuthIInv, [AuthNext]_authVars PROVE AuthIInv'
    OBVIOUS
  <2>t. todo \subseteq Vpns
    BY DEF AuthIInv, AuthTypes
  <2>1. CASE SwitchStops \/ StartEnds \/ UserStops \/ noteRunStopped
    BY <2>1, StartLemma, StoppedLemma
  <2>2. CASE PollStarts \/ PollAsks \/ PollLands
    BY <2>2, <2>t, Quiet DEF PollStarts, PollAsks, PollLands, core, budget
  <2>3. CASE CooldownEnds
    BY <2>3, <2>t, Quiet DEF CooldownEnds, core, polls
  <2>4. CASE DialogEnds
    <3>1. CASE /\ running = dialog.run /\ RequestStart(running, running, FALSE) /\ history' = NoTries
      BY <2>4, <3>1, UserLemma DEF DialogEnds, budget, polls, AuthIInv, AuthTypes
    <3>2. CASE UNCHANGED <<starting, auto, restartId, history>>
      BY <2>4, <3>2, <2>t, Quiet DEF DialogEnds, budget, polls
    <3> QED BY <2>4, <3>1, <3>2 DEF DialogEnds
  <2>5. ASSUME NEW p \in Profiles, UserStarts(p) PROVE AuthIInv'
    BY <2>5, UserLemma DEF UserStarts, budget, polls
  <2>6. ASSUME NEW v \in Vpns, EndpointMoves(v) \/ Challenge(v) \/ Answered(v) PROVE AuthIInv'
    BY <2>6, <2>t, Quiet DEF EndpointMoves, Challenge, Answered, core, budget, polls
  <2>7. CASE UNCHANGED authVars
    BY <2>7, <2>t, Quiet DEF authVars, core, budget, polls
  <2> QED BY <2>1, <2>2, <2>3, <2>4, <2>5, <2>6, <2>7, FailureLemma DEF AuthNext
<1> QED BY <1>1, AuthInitLemma, PTL DEF AuthSpec

\* Without the user an endpoint gets no more restarts and prompts than the
\* budgets allow, although every restart stops the run and starts it again.
THEOREM RecoveryAlwaysBounded == AuthSpec => []RecoveryIsBounded
<1>1. AuthIInv => RecoveryIsBounded
  BY VpnAssumption DEF AuthIInv, AuthTypes, Counts, Within, CountsAgree, RecoveryIsBounded, Bounded
<1> QED BY <1>1, AuthInvariance, PTL
=============================================================================
