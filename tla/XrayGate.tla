------------------------------ MODULE XrayGate ------------------------------
(***************************************************************************)
(* A gate in front of a lazily started Xray instance (core/internal/xray). *)
(* The gate owns the inbound ports; each accepted connection runs handle() *)
(* in a goroutine of its own and starts the instance if none is up; the    *)
(* sweeper stops an instance nobody has used for a while; Close() ends it  *)
(* all.  g.mu guards the instance and is held while one starts; g.connsMu  *)
(* guards conns; active and lastUse are atomics.                           *)
(***************************************************************************)
EXTENDS Integers, FiniteSets

CONSTANTS
    Conns,               \* the connections that may arrive
    Instances, None,     \* the instances that may be started, and nil
    gateStartAttempts

ASSUME NoneAssumption == None \notin Instances \cup Conns
ASSUME AttemptsAssumption == gateStartAttempts \in Nat \ {0}

VARIABLES
    mu,          \* the connection whose ensure() holds g.mu while it starts an instance
    instance,    \* g.instance; targets is set together with it
    closed, listening,
    cooling,     \* g.failure is set and gateStartCooldown has not passed
    attempt,     \* ensure's loop counter
    conns,       \* g.conns: the sockets to close; see dropped
    dropped,     \* g.conns is nil
    cut,         \* sockets Close() has closed
    active,      \* the connections counted in g.active
    idle,        \* g.idle has passed since lastUse
    pc,          \* where each connection's handle() is
    target,      \* the instance ensure() handed it
    sweeper,     \* where sweep() is
    swept,       \* the instance it took
    closer,      \* where Close() is
    closing,     \* the instance it took
    live,        \* instances started and not yet closed
    spent,       \* instances started so far
    tries        \* history: starts tried since a success or the end of a cooldown

gate == <<mu, instance, closed, listening, cooling, attempt, conns, dropped, active, idle>>
handlers == <<pc, target, cut>>
workers == <<sweeper, swept, closer, closing>>
world == <<live, spent, tries>>
vars == <<gate, handlers, workers, world>>

Stages == {"none", "accepted", "tracked", "counted", "starting", "ensured", "dialed", "relaying",
           "leaving", "uncounted", "done"}

\* A connection's two sockets: the accepted one and the one dialed to the instance.
in(c) == <<c, "in">>
up(c) == <<c, "up">>
Sockets == Conns \X {"in", "up"}

TypeOK ==
    /\ mu \in Conns \cup {None}
    /\ {instance, swept, closing} \subseteq Instances \cup {None}
    /\ {closed, listening, cooling, dropped, idle} \subseteq BOOLEAN
    /\ attempt \in 0..gateStartAttempts
    /\ conns \subseteq Sockets /\ cut \subseteq Sockets /\ active \subseteq Conns
    /\ pc \in [Conns -> Stages]
    /\ target \in [Conns -> Instances \cup {None}]
    /\ sweeper \in {"waiting", "checked", "took", "stopped"}
    /\ closer \in {"none", "marked", "unlistened", "dropped", "done"}
    /\ live \subseteq Instances /\ spent \subseteq Instances
    /\ tries \in Nat

\* StartGate has bound every inbound port.
Init ==
    /\ mu = None /\ instance = None /\ closed = FALSE /\ listening = TRUE /\ cooling = FALSE /\ attempt = 0
    /\ conns = {} /\ dropped = FALSE /\ cut = {} /\ active = {} /\ idle = FALSE
    /\ pc = [c \in Conns |-> "none"] /\ target = [c \in Conns |-> None]
    /\ sweeper = "waiting" /\ swept = None /\ closer = "none" /\ closing = None
    /\ live = {} /\ spent = {} /\ tries = 0

At(c, stage) == pc[c] = stage
Goto(c, stage) == pc' = [pc EXCEPT ![c] = stage]

-----------------------------------------------------------------------------
(* handle(), for the connection c.                                         *)

\* serve: the connection is accepted, and handle() starts in its own goroutine.
serve(c) ==
    /\ listening /\ At(c, "none") /\ Goto(c, "accepted")
    /\ UNCHANGED <<gate, target, cut, workers, world>>

track(c) ==
    /\ At(c, "accepted")
    /\ IF dropped THEN Goto(c, "done") /\ UNCHANGED conns
       ELSE Goto(c, "tracked") /\ conns' = conns \cup {in(c)}
    /\ UNCHANGED <<mu, instance, closed, listening, cooling, attempt, dropped, active, idle,
                   target, cut, workers, world>>

\* Counted before the instance is up.
count(c) ==
    /\ At(c, "tracked") /\ Goto(c, "counted")
    /\ active' = active \cup {c} /\ idle' = FALSE
    /\ UNCHANGED <<mu, instance, closed, listening, cooling, attempt, conns, dropped,
                   target, cut, workers, world>>

\* Mutation: a connection that waited for the lock while the gate closed starts an instance.
MutEnsureWhenClosed(c) ==
    /\ At(c, "counted") /\ mu = None
    /\ \/ /\ instance = None /\ cooling /\ Goto(c, "leaving")
          /\ UNCHANGED <<mu, attempt, target>>
       \/ /\ instance # None /\ Goto(c, "ensured")
          /\ target' = [target EXCEPT ![c] = instance]
          /\ UNCHANGED <<mu, attempt>>
       \/ /\ instance = None /\ ~cooling /\ Goto(c, "starting")
          /\ mu' = c /\ attempt' = 1
          /\ UNCHANGED target
    /\ UNCHANGED <<instance, closed, listening, cooling, conns, dropped, active, idle, cut, workers, world>>

\* ensure(): the running instance is handed out, or this connection starts one, under g.mu.
ensure(c) ==
    /\ At(c, "counted") /\ mu = None
    /\ \/ /\ closed \/ (instance = None /\ cooling)
          /\ Goto(c, "leaving")
          /\ UNCHANGED <<mu, attempt, target>>
       \/ /\ ~closed /\ instance # None
          /\ Goto(c, "ensured")
          /\ target' = [target EXCEPT ![c] = instance]
          /\ UNCHANGED <<mu, attempt>>
       \/ /\ ~closed /\ instance = None /\ ~cooling
          /\ Goto(c, "starting")
          /\ mu' = c /\ attempt' = 1
          /\ UNCHANGED target
    /\ UNCHANGED <<instance, closed, listening, cooling, conns, dropped, active, idle, cut, workers, world>>

startInstance(c, i) ==
    /\ At(c, "starting") /\ i \in Instances \ spent
    /\ Goto(c, "ensured")
    /\ instance' = i /\ target' = [target EXCEPT ![c] = i]
    /\ cooling' = FALSE /\ mu' = None
    /\ live' = live \cup {i} /\ spent' = spent \cup {i} /\ tries' = 0
    /\ UNCHANGED <<closed, listening, attempt, conns, dropped, active, idle, cut, workers>>

\* Mutation: the failure is not remembered for the connections that wait behind it.
MutNoCooldown(c, inUse) ==
    /\ At(c, "starting")
    /\ tries' = tries + 1
    /\ IF inUse /\ attempt < gateStartAttempts
       THEN attempt' = attempt + 1 /\ UNCHANGED <<mu, pc>>
       ELSE mu' = None /\ Goto(c, "leaving") /\ UNCHANGED attempt
    /\ UNCHANGED <<instance, closed, listening, cooling, conns, dropped, active, idle, target, cut,
                   workers, live, spent>>

\* startInstance fails and has closed what it created; a port taken meanwhile is tried again.
startFails(c, inUse) ==
    /\ At(c, "starting")
    /\ tries' = tries + 1
    /\ IF inUse /\ attempt < gateStartAttempts
       THEN attempt' = attempt + 1 /\ UNCHANGED <<mu, cooling, pc>>
       ELSE mu' = None /\ cooling' = TRUE /\ Goto(c, "leaving") /\ UNCHANGED attempt
    /\ UNCHANGED <<instance, closed, listening, conns, dropped, active, idle, target, cut,
                   workers, live, spent>>

dial(c, ok) ==
    /\ At(c, "ensured")
    /\ ok => target[c] \in live
    /\ Goto(c, IF ok THEN "dialed" ELSE "leaving")
    /\ UNCHANGED <<gate, target, cut, workers, world>>

trackUpstream(c) ==
    /\ At(c, "dialed")
    /\ IF dropped THEN Goto(c, "leaving") /\ UNCHANGED conns
       ELSE Goto(c, "relaying") /\ conns' = conns \cup {up(c)}
    /\ UNCHANGED <<mu, instance, closed, listening, cooling, attempt, dropped, active, idle,
                   target, cut, workers, world>>

\* Both directions are done: the peers have closed, or Close() has.
relayEnds(c) ==
    /\ At(c, "relaying") /\ Goto(c, "leaving")
    /\ UNCHANGED <<gate, target, cut, workers, world>>

\* Mutation: a connection that ends stays counted.
MutStaysCounted(c) ==
    /\ At(c, "leaving") /\ Goto(c, "uncounted")
    /\ conns' = conns \ {up(c)}
    /\ UNCHANGED <<mu, instance, closed, listening, cooling, attempt, dropped, active, idle, target, cut, workers, world>>

\* The deferred calls, last one first.
uncount(c) ==
    /\ At(c, "leaving") /\ Goto(c, "uncounted")
    /\ conns' = conns \ {up(c)} /\ active' = active \ {c}
    /\ UNCHANGED <<mu, instance, closed, listening, cooling, attempt, dropped, idle,
                   target, cut, workers, world>>

forget(c) ==
    /\ At(c, "uncounted") /\ Goto(c, "done")
    /\ idle' = FALSE /\ conns' = conns \ {in(c)}
    /\ UNCHANGED <<mu, instance, closed, listening, cooling, attempt, dropped, active,
                   target, cut, workers, world>>

-----------------------------------------------------------------------------
(* Time.                                                                   *)

\* A gate with idle 0 never takes this step: its instance stays.
IdlePasses ==
    /\ ~idle /\ idle' = TRUE
    /\ UNCHANGED <<mu, instance, closed, listening, cooling, attempt, conns, dropped, active,
                   handlers, workers, world>>

CooldownPasses ==
    /\ cooling /\ cooling' = FALSE /\ tries' = 0
    /\ UNCHANGED <<mu, instance, closed, listening, attempt, conns, dropped, active, idle,
                   handlers, workers, live, spent>>

-----------------------------------------------------------------------------
(* sweep() and Close().                                                    *)

idleNow == active = {} /\ idle

\* The ticker, and the check without the lock; it may win over a closed g.stopped.
sweepTick ==
    /\ sweeper = "waiting" /\ idleNow
    /\ sweeper' = "checked"
    /\ UNCHANGED <<gate, handlers, swept, closer, closing, world>>

\* Mutation: the check is not repeated under the lock.
MutCheckOnce ==
    /\ sweeper = "checked" /\ mu = None
    /\ sweeper' = "took" /\ swept' = instance /\ instance' = None
    /\ UNCHANGED <<mu, closed, listening, cooling, attempt, conns, dropped, active, idle,
                   handlers, closer, closing, world>>

\* The check under the lock.
sweepTake ==
    /\ sweeper = "checked" /\ mu = None
    /\ IF idleNow /\ instance # None
       THEN sweeper' = "took" /\ swept' = instance /\ instance' = None
       ELSE sweeper' = "waiting" /\ UNCHANGED <<swept, instance>>
    /\ UNCHANGED <<mu, closed, listening, cooling, attempt, conns, dropped, active, idle,
                   handlers, closer, closing, world>>

sweepClose ==
    /\ sweeper = "took"
    /\ sweeper' = "waiting" /\ swept' = None /\ live' = live \ {swept}
    /\ UNCHANGED <<gate, handlers, closer, closing, spent, tries>>

sweepStops ==
    /\ sweeper = "waiting" /\ closer \notin {"none", "marked"}
    /\ sweeper' = "stopped"
    /\ UNCHANGED <<gate, handlers, swept, closer, closing, world>>

\* Close() takes the instance under g.mu, so it waits for a start under way.
Close ==
    /\ closer = "none" /\ mu = None
    /\ closer' = "marked"
    /\ closed' = TRUE /\ closing' = instance /\ instance' = None
    /\ UNCHANGED <<mu, listening, cooling, attempt, conns, dropped, active, idle,
                   handlers, sweeper, swept, world>>

closeListeners ==
    /\ closer = "marked"
    /\ closer' = "unlistened" /\ listening' = FALSE
    /\ UNCHANGED <<mu, instance, closed, cooling, attempt, conns, dropped, active, idle,
                   handlers, sweeper, swept, closing, world>>

\* Mutation: Close waits for the connections to end by themselves.
MutWaitForConns ==
    /\ closer = "unlistened" /\ conns = {}
    /\ closer' = "dropped"
    /\ dropped' = TRUE
    /\ UNCHANGED <<mu, instance, closed, listening, cooling, attempt, conns, active, idle,
                   handlers, sweeper, swept, closing, world>>

dropConns ==
    /\ closer = "unlistened"
    /\ closer' = "dropped"
    /\ dropped' = TRUE /\ conns' = {} /\ cut' = cut \cup conns
    /\ UNCHANGED <<mu, instance, closed, listening, cooling, attempt, active, idle,
                   pc, target, sweeper, swept, closing, world>>

closeInstance ==
    /\ closer = "dropped"
    /\ closer' = "done" /\ closing' = None /\ live' = live \ {closing}
    /\ UNCHANGED <<gate, handlers, sweeper, swept, spent, tries>>

-----------------------------------------------------------------------------
Handle(c) ==
    \/ track(c) \/ count(c) \/ ensure(c) \/ trackUpstream(c) \/ uncount(c) \/ forget(c)
    \/ \E i \in Instances : startInstance(c, i)
    \/ \E b \in BOOLEAN : startFails(c, b) \/ dial(c, b)

Sweep == sweepTick \/ sweepTake \/ sweepClose \/ sweepStops

CloseGate == closeListeners \/ dropConns \/ closeInstance

Next ==
    \/ \E c \in Conns : serve(c) \/ Handle(c) \/ relayEnds(c)
    \/ Sweep \/ Close \/ CloseGate \/ IdlePasses \/ CooldownPasses

\* Goroutines run, time passes and closed sockets end their relay.  Nobody has to connect,
\* hang up or close the gate.
Fairness ==
    /\ \A c \in Conns : WF_vars(Handle(c)) /\ WF_vars(relayEnds(c) /\ {in(c), up(c)} \subseteq cut)
    /\ WF_vars(Sweep) /\ WF_vars(CloseGate) /\ WF_vars(IdlePasses)

Spec == Init /\ [][Next]_vars /\ Fairness

-----------------------------------------------------------------------------
\* No instance is orphaned: one that runs is the open gate's, or somebody is about to close it.
\* (ensure, sweep and Close hand it over under g.mu.)
NoOrphanInstance == live \subseteq {swept, closing} \cup (IF closed THEN {} ELSE {instance})

\* "A connection counted after the first check must not be handed an instance about to close":
\* until the gate closes, what a connection was handed is the gate's running instance.
HandedInstanceStays ==
    \A c \in Conns : pc[c] \in {"ensured", "dialed", "relaying"} /\ ~closed =>
        target[c] = instance /\ instance \in live

\* Close() misses no socket: the two of a connection that is still relayed are closed, so the
\* relay ends.
CloseCutsAll == \A c \in Conns : dropped /\ At(c, "relaying") => {in(c), up(c)} \subseteq cut

\* "Connections queued behind a failed start share its error instead of each rebuilding the
\* instance": between two cooldowns at most gateStartAttempts starts are tried.
FailureIsShared == tries <= gateStartAttempts

\* A closed gate drains: every connection ends and every instance is closed.
ClosedGateDrains ==
    closed ~> (live = {} /\ \A c \in Conns : pc[c] \in {"none", "done"})

\* An instance nobody uses any more is stopped.
UnusedIsSwept ==
    <>[](\A c \in Conns : pc[c] \in {"none", "done"}) => <>[](instance = None)
=============================================================================
