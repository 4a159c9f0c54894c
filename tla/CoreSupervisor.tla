--------------------------- MODULE CoreSupervisor ---------------------------
(***************************************************************************)
(* The supervision of the core process.  Two threads of the GUI share it:  *)
(* the main thread owns the fields of Engine::CoreSupervisor (the record   *)
(* sup) and decides when the core is restarted; the thread DS_cores owns   *)
(* the QProcess, runs the tasks the main thread posts (start, Restart,     *)
(* Kill) and posts the process's start and exit back.  The core connects   *)
(* to the local server once; the main thread accepts that connection.      *)
(*                                                                         *)
(* A generation numbers each CoreProcess::Start; the main thread uses the  *)
(* generations it has handled, accepted and timed out to tell the reports  *)
(* of a replaced core from those of the current one.                       *)
(***************************************************************************)
EXTENDS Integers, Sequences, FiniteSets, SequencesExt

CONSTANTS
    Profiles, NoProfile,   \* profile ids and Configs::NoProfileId (-1)
    kGiveUpAfter,          \* failures before the supervisor gives up
    MaxGen,                \* bound: generations of the core
    MaxTasks,              \* bound: tasks waiting on DS_cores, before the one of the exit
    MaxEvents              \* bound: requests of the user and misbehaviour of the core

ASSUME ProfilesAssumption == NoProfile \notin Profiles
ASSUME BoundsAssumption ==
    kGiveUpAfter \in Nat \ {0} /\ MaxGen \in Nat \ {0} /\ MaxTasks \in Nat /\ MaxEvents \in Nat

VARIABLES
    sup,                  \* main thread: the fields of CoreSupervisor
    accepting,            \* main thread: the connection onNewConnection has in hand
    posted,               \* calls DS_cores posted to the main thread, in order
    deadQueued,           \* restartDeadCore posted by killForPrivilegeChange
    probes,               \* generations whose privilege probe has not been answered
    process,              \* DS_cores: the CoreProcess
    tasks,                \* DS_cores: tasks posted to it, in order
    frame,                \* DS_cores: the handler that waits in StopRunningProfile, if one does
    conns,                \* pids of cores whose connection waits in the server
    m_expectedExitGen,    \* shared: the generation whose exit was asked for
    core_running, started_id, prepare_exit, kill_switch,   \* shared: settings
    identityUnsupported,  \* KillSwitch::identityUnsupported()
    running,              \* the profile ConnectionManager runs
    intent,               \* history: what the user asked for last
    resumed,              \* history: profile of the last coreStarted since then
    counted,              \* history: generations counted in m_failures
    events

mainVars == <<sup, accepting, posted, deadQueued, probes>>
coreVars == <<process, tasks, frame, conns, m_expectedExitGen>>
settings == <<core_running, started_id, prepare_exit, kill_switch, identityUnsupported>>
history == <<intent, resumed, counted>>
vars == <<mainVars, coreVars, settings, running, history, events>>

Profile == Profiles \cup {NoProfile}
Gens == 0..MaxGen
CoreStates == {"NotStarted", "Starting", "Connected", "Backoff", "GaveUp", "ListenFailed", "ShuttingDown"}

SupervisorFields ==
    [m_state : CoreStates, m_startWhenUp : Profile, m_probing : BOOLEAN,
     m_failures : Gens, m_startFailures : Gens,
     m_handledExitGen : Gens, m_acceptedGen : Gens, m_connectGen : Gens, m_timedOutGen : Gens,
     m_restartTimer : BOOLEAN, m_connectTimer : BOOLEAN,   \* the timers run
     m_profileCrashTimer : BOOLEAN]                        \* the elapsed timer is valid

\* none: QProcess::NotRunning.  launching: Starting.  up: Running.  doomed: Running, but
\* killed by a Restart() whose wait it outlived.  pid numbers the processes.
ProcessFields ==
    [state : {"none", "launching", "up", "doomed"}, pid : Gens, generation : Gens,
     dialed : BOOLEAN,          \* the core has connected; it never does again
     guard_identity : BOOLEAN, restarting : BOOLEAN]

Report == [call : {"onCoreExited"}, gen : Gens, failedToStart : BOOLEAN, identity : BOOLEAN]
Posted == Report \cup [call : {"onCoreSpawned"}, gen : Gens]
NoFrame == [op |-> "none"]
NoAccept == [pid |-> 0, gen |-> 0, verified |-> FALSE]

StopRestarts == [op : {"StopRestart"}, manual : BOOLEAN]
Task == [op : {"Start", "Restart", "Reset", "Kill", "ExitKill"}] \cup StopRestarts \cup [op : {"KillGen"}, gen : Gens]

TypeOK ==
    /\ sup \in SupervisorFields
    /\ accepting \in [pid : Gens, gen : Gens, verified : BOOLEAN]
    /\ posted \in Seq(Posted)
    /\ deadQueued \in BOOLEAN
    /\ probes \subseteq Gens
    /\ process \in ProcessFields
    /\ tasks \in Seq(Task)
    /\ frame \in Task \cup Report \cup {NoFrame}
    /\ conns \subseteq Gens
    /\ m_expectedExitGen \in Gens
    /\ {core_running, prepare_exit, kill_switch, identityUnsupported} \subseteq BOOLEAN
    /\ {started_id, running} \subseteq Profile
    /\ resumed \in Profile
    /\ intent \in {"start", "cancel", "reset"}
    /\ counted \subseteq Gens
    /\ events \in 0..MaxEvents

Init ==
    /\ sup = [m_state |-> "NotStarted", m_startWhenUp |-> NoProfile, m_probing |-> FALSE,
              m_failures |-> 0, m_startFailures |-> 0,
              m_handledExitGen |-> 0, m_acceptedGen |-> 0, m_connectGen |-> 0, m_timedOutGen |-> 0,
              m_restartTimer |-> FALSE, m_connectTimer |-> FALSE, m_profileCrashTimer |-> FALSE]
    /\ accepting = NoAccept /\ posted = <<>> /\ deadQueued = FALSE /\ probes = {}
    /\ process = [state |-> "none", pid |-> 0, generation |-> 0, dialed |-> FALSE,
                  guard_identity |-> FALSE, restarting |-> FALSE]
    /\ tasks = <<>> /\ frame = NoFrame /\ conns = {} /\ m_expectedExitGen = 0
    /\ core_running = FALSE /\ started_id = NoProfile /\ prepare_exit = FALSE
    /\ kill_switch \in BOOLEAN /\ identityUnsupported = FALSE
    /\ running = NoProfile /\ intent = "start" /\ resumed = NoProfile /\ counted = {} /\ events = 0

-----------------------------------------------------------------------------
(* Member functions of CoreSupervisor on the main thread.                  *)

exiting == sup.m_state = "ShuttingDown" \/ prepare_exit
canStartCore == sup.m_state \notin {"ListenFailed", "ShuttingDown"}

currentGeneration == process.generation

Larger(a, b) == IF a > b THEN a ELSE b

beginRestart(s) ==
    [s EXCEPT !.m_probing = FALSE, !.m_restartTimer = FALSE, !.m_connectTimer = FALSE,
              !.m_failures = 0, !.m_startFailures = 0, !.m_state = "Starting"]

\* Mutation: the backoff's timer is not started.
MutBackoffWithoutTimer(s) == [s EXCEPT !.m_state = "Backoff"]

scheduleRestart(s) == [s EXCEPT !.m_state = "Backoff", !.m_restartTimer = TRUE]

\* Mutation: the exit of the core about to be spawned is marked as well.
MutNextIsHandled(s) == [s EXCEPT !.m_handledExitGen = Larger(@, currentGeneration + 1)]

\* postProcessRestart marks the current core's exit as handled and posts the Restart().
Superseded(s) == [s EXCEPT !.m_handledExitGen = Larger(@, currentGeneration)]

Post(task) == Len(tasks) < MaxTasks /\ tasks' = Append(tasks, task)

postProcessRestart(s, task) ==
    /\ sup' = Superseded(s)
    /\ Post(task)

\* The main thread runs one handler at a time.
Main == accepting = NoAccept

Event == events < MaxEvents /\ events' = events + 1

\* A new request of the user replaces what the history says of the last one.
Asked(what) == intent' = what /\ resumed' = NoProfile

-----------------------------------------------------------------------------
(* Requests.                                                               *)

\* EngineHost::start, with the profile to resume, after listen().
start(p) ==
    /\ Main /\ sup.m_state = "NotStarted"
    /\ sup' = [sup EXCEPT !.m_state = "Starting", !.m_startWhenUp = p]
    /\ Post([op |-> "Start"])
    /\ UNCHANGED <<accepting, posted, deadQueued, probes, process, frame, conns, m_expectedExitGen,
                   settings, running, history, events>>

listenFails ==
    /\ Main /\ sup.m_state = "NotStarted"
    /\ sup' = [sup EXCEPT !.m_state = "ListenFailed"]
    /\ UNCHANGED <<accepting, posted, deadQueued, probes, coreVars, settings, running, history, events>>

Requested ==
    /\ Main
    /\ sup.m_state # "NotStarted" /\ canStartCore /\ ~exiting
    /\ Event

\* "Restart Core".  An exit already handled is followed by a Restart(), any other by Kill().
resetCore ==
    /\ Requested
    /\ Asked("reset")
    /\ counted' = {}
    /\ IF sup.m_state \in {"Backoff", "GaveUp"}
       THEN /\ postProcessRestart([beginRestart(sup) EXCEPT !.m_startWhenUp = NoProfile],
                                  [op |-> "StopRestart", manual |-> TRUE])
            /\ started_id' = NoProfile
       ELSE /\ sup' = beginRestart(sup)
            /\ Post([op |-> "Reset"])
            /\ UNCHANGED started_id
    /\ UNCHANGED <<accepting, posted, deadQueued, probes, process, frame, conns, m_expectedExitGen,
                   core_running, prepare_exit, kill_switch, identityUnsupported, running>>

\* A profile is started while the core is not listening.
restartNotListening(p) ==
    /\ Requested
    /\ ~sup.m_probing /\ ~core_running
    /\ Asked("start")
    /\ counted' = {}
    /\ postProcessRestart([beginRestart(sup) EXCEPT !.m_startWhenUp = p], [op |-> "Restart"])
    /\ UNCHANGED <<accepting, posted, deadQueued, probes, process, frame, conns, m_expectedExitGen,
                   settings, running>>

\* A profile is started while the accepted core is probed: it waits for coreStarted.
setStartWhenUp(p) ==
    /\ Requested
    /\ sup.m_probing
    /\ Asked("start")
    /\ sup' = [sup EXCEPT !.m_startWhenUp = p]
    /\ UNCHANGED <<accepting, posted, deadQueued, probes, coreVars, settings, running, counted>>

\* The guard is armed and the core runs outside its group: restart it, keeping the profile.
restartForGuard ==
    /\ Requested
    /\ kill_switch /\ core_running /\ ~process.guard_identity /\ ~identityUnsupported
    /\ counted' = {}
    /\ LET kept == IF sup.m_probing /\ sup.m_startWhenUp # NoProfile THEN sup.m_startWhenUp ELSE started_id
       IN  postProcessRestart([beginRestart(sup) EXCEPT !.m_startWhenUp = kept],
                              [op |-> "StopRestart", manual |-> FALSE])
    /\ UNCHANGED <<accepting, posted, deadQueued, probes, process, frame, conns, m_expectedExitGen,
                   settings, running, intent, resumed>>

\* The core got or lost its privileges: it restarts and resumes the started profile.
killForPrivilegeChange ==
    /\ Requested
    /\ IF sup.m_state \in {"Backoff", "GaveUp"}
       THEN deadQueued' = TRUE /\ UNCHANGED tasks
       ELSE Post([op |-> "Kill"]) /\ UNCHANGED deadQueued
    /\ UNCHANGED <<sup, accepting, posted, probes, process, frame, conns, m_expectedExitGen,
                   settings, running, history>>

\* A profile starts at once in a core that is up (ConnectionManager's worker).
startProfile(p) ==
    /\ Requested
    /\ core_running /\ ~sup.m_probing /\ frame = NoFrame   \* else refused: another stop is under way
    /\ Asked("start")
    /\ running' = p /\ started_id' = p
    /\ UNCHANGED <<mainVars, coreVars, core_running, prepare_exit, kill_switch, identityUnsupported, counted>>

\* A user stop: of the running profile, or of the resume that waits for the core.
stopProfile ==
    /\ Requested
    /\ running # NoProfile /\ frame = NoFrame
    /\ Asked("start")
    /\ running' = NoProfile /\ started_id' = NoProfile
    /\ UNCHANGED <<mainVars, coreVars, core_running, prepare_exit, kill_switch, identityUnsupported, counted>>

\* Mutation: only the waiting start is forgotten.
MutKeepStarted ==
    /\ Requested
    /\ running = NoProfile
    /\ Asked("cancel")
    /\ sup' = [sup EXCEPT !.m_startWhenUp = NoProfile]
    /\ UNCHANGED <<accepting, posted, deadQueued, probes, coreVars, settings, running, counted>>

cancelResume ==
    /\ Requested
    /\ running = NoProfile
    /\ Asked("cancel")
    /\ sup' = [sup EXCEPT !.m_startWhenUp = NoProfile]
    /\ started_id' = NoProfile
    /\ UNCHANGED <<accepting, posted, deadQueued, probes, coreVars,
                   core_running, prepare_exit, kill_switch, identityUnsupported, running, counted>>

changeKillSwitch ==
    /\ Requested
    /\ kill_switch' = ~kill_switch
    /\ identityUnsupported' = (identityUnsupported /\ kill_switch')
    /\ UNCHANGED <<mainVars, coreVars, core_running, started_id, prepare_exit, running, history>>

BeginExit ==
    /\ Main /\ sup.m_state # "NotStarted" /\ ~prepare_exit
    /\ prepare_exit' = TRUE
    /\ UNCHANGED <<mainVars, coreVars, core_running, started_id, kill_switch, identityUnsupported,
                   running, history, events>>

\* shutdown() and killForExit(): no timer may spawn a core any more; the core is killed.
shutdown ==
    /\ Main /\ prepare_exit /\ sup.m_state # "ShuttingDown"
    /\ sup' = [sup EXCEPT !.m_state = "ShuttingDown", !.m_probing = FALSE,
                          !.m_restartTimer = FALSE, !.m_connectTimer = FALSE]
    /\ tasks' = Append(tasks, [op |-> "ExitKill"])
    /\ UNCHANGED <<accepting, posted, deadQueued, probes, process, frame, conns, m_expectedExitGen,
                   settings, running, history, events>>

-----------------------------------------------------------------------------
(* The main thread's own handlers.                                         *)

\* onNewConnection in three steps, as DS_cores runs meanwhile: the generation is read ...
TakeConnection(pid) ==
    /\ Main /\ pid \in conns
    /\ conns' = conns \ {pid}
    /\ accepting' = [pid |-> pid, gen |-> currentGeneration, verified |-> FALSE]
    /\ UNCHANGED <<sup, posted, deadQueued, probes, process, tasks, frame, m_expectedExitGen,
                   settings, running, history, events>>

\* ... the peer's pid is compared with the process's ...
verifyCorePid ==
    /\ ~Main /\ ~accepting.verified
    /\ accepting' = IF process.state # "none" /\ process.pid = accepting.pid
                    THEN [accepting EXCEPT !.verified = TRUE] ELSE NoAccept
    /\ UNCHANGED <<sup, posted, deadQueued, probes, coreVars, settings, running, history, events>>

\* A core whose restart or kill is already queued is refused.
Outdated(gen) == gen <= sup.m_handledExitGen \/ gen <= sup.m_timedOutGen

\* ... and the connection becomes the RPC channel.  On Windows the probe is local and
\* coreStarted follows at once; elsewhere it follows onPrivilegeProbed.
onNewConnection ==
    /\ accepting.verified
    /\ accepting' = NoAccept
    /\ core_running' = (core_running \/ ~Outdated(accepting.gen))
    /\ IF Outdated(accepting.gen) \/ exiting
       THEN UNCHANGED <<sup, probes>>
       ELSE LET gen == Larger(sup.m_acceptedGen, accepting.gen)
            IN  /\ sup' = [sup EXCEPT !.m_acceptedGen = gen, !.m_connectTimer = FALSE,
                                      !.m_state = "Connected", !.m_probing = TRUE]
                /\ probes' = probes \cup {gen}
    /\ UNCHANGED <<posted, deadQueued, coreVars, started_id, prepare_exit, kill_switch, identityUnsupported,
                   running, history, events>>

\* The first probe's answer, or its timeout; dropped: no answer because the channel is gone.
\* coreStarted hands the waiting profile to ConnectionManager, which starts it or fails to.
onPrivilegeProbed(gen, dropped, starts) ==
    /\ Main /\ gen \in probes
    /\ dropped => process.state = "none" \/ process.generation # gen
    /\ probes' = probes \ {gen}
    /\ IF ~sup.m_probing \/ gen # sup.m_acceptedGen \/ sup.m_state # "Connected" \/ exiting \/ dropped
       THEN UNCHANGED <<sup, resumed, running, started_id>>
       ELSE LET p == sup.m_startWhenUp
            IN  /\ sup' = [sup EXCEPT !.m_probing = FALSE, !.m_startFailures = 0, !.m_startWhenUp = NoProfile]
                /\ resumed' = p
                /\ IF p # NoProfile /\ starts
                   THEN running' = p /\ started_id' = p ELSE UNCHANGED <<running, started_id>>
    /\ UNCHANGED <<accepting, posted, deadQueued, coreVars, core_running, prepare_exit, kill_switch,
                   identityUnsupported, intent, counted, events>>

onCoreSpawned ==
    /\ Main /\ posted # <<>> /\ Head(posted).call = "onCoreSpawned"
    /\ posted' = Tail(posted)
    /\ LET gen == Head(posted).gen
       IN  sup' = IF sup.m_state # "Starting" \/ gen <= sup.m_acceptedGen \/ exiting THEN sup
                  ELSE [sup EXCEPT !.m_connectGen = gen, !.m_connectTimer = TRUE]
    /\ UNCHANGED <<accepting, deadQueued, probes, coreVars, settings, running, history, events>>

\* The exit was asked for: restart, with the profile that was started.
expectedExit(s, wasProbing) ==
    scheduleRestart([s EXCEPT !.m_failures = 0, !.m_startFailures = 0,
                     !.m_startWhenUp = IF wasProbing /\ @ # NoProfile THEN @ ELSE started_id])

\* The exit was not: count it, decide what to resume, back off or give up.
unexpectedExit(s, wasConnected, stable, frequent) ==
    LET failures == (IF wasConnected /\ stable THEN 0 ELSE s.m_failures) + 1
        startFailures == IF wasConnected THEN s.m_startFailures ELSE s.m_startFailures + 1
        tooFrequent == wasConnected /\ s.m_profileCrashTimer /\ frequent
        resume == IF wasConnected \/ s.m_startWhenUp = NoProfile
                  THEN IF tooFrequent THEN NoProfile ELSE started_id
                  ELSE s.m_startWhenUp
        giveUp == \/ failures >= kGiveUpAfter /\ resume = NoProfile
                  \/ ~wasConnected /\ startFailures >= kGiveUpAfter
        t == [s EXCEPT !.m_failures = failures, !.m_startFailures = startFailures,
                       !.m_profileCrashTimer = IF wasConnected THEN ~tooFrequent ELSE @]
    IN  IF giveUp THEN [t EXCEPT !.m_startWhenUp = NoProfile, !.m_state = "GaveUp"]
        ELSE scheduleRestart([t EXCEPT !.m_startWhenUp = resume])

\* A profile that keeps crashing the core, or a core given up on, is resumed by no later restart.
Declined(s, t, wasConnected, frequent) ==
    t.m_state = "GaveUp" \/ (wasConnected /\ s.m_profileCrashTimer /\ frequent)

\* Mutation: the second report of one exit is taken for another exit.
MutHandledTwice(gen) == gen < sup.m_handledExitGen

\* stateChanged and errorOccurred can both report one exit; a replaced core's is late.
Handled(gen) == gen <= sup.m_handledExitGen

\* stable: the core had been up for kStableMs.  frequent: the last crash of a connected core
\* was less than kProfileCrashWindowMs ago.
onCoreExited(stable, frequent) ==
    /\ Main /\ posted # <<>> /\ Head(posted).call = "onCoreExited"
    /\ posted' = Tail(posted)
    /\ LET r == Head(posted)
           wasProbing == sup.m_probing /\ r.gen = sup.m_acceptedGen
           s == [sup EXCEPT !.m_handledExitGen = r.gen, !.m_probing = @ /\ ~wasProbing]
           q == [s EXCEPT !.m_connectTimer = FALSE]
           wasConnected == ~r.failedToStart /\ r.gen = sup.m_acceptedGen /\ ~wasProbing
           t == unexpectedExit(q, wasConnected, stable, frequent)
       IN  \/ /\ Handled(r.gen)
              /\ UNCHANGED <<sup, started_id, identityUnsupported, counted>>
           \/ /\ ~Handled(r.gen) /\ exiting
              /\ sup' = s
              /\ UNCHANGED <<started_id, identityUnsupported, counted>>
           \/ /\ ~Handled(r.gen) /\ ~exiting /\ m_expectedExitGen = r.gen
              /\ sup' = expectedExit(q, wasProbing)
              /\ counted' = {}
              /\ UNCHANGED <<started_id, identityUnsupported>>
           \/ /\ ~Handled(r.gen) /\ ~exiting /\ m_expectedExitGen # r.gen
              /\ IF ~wasConnected /\ r.identity /\ ~identityUnsupported
                 THEN /\ sup' = scheduleRestart(q)
                      /\ identityUnsupported' = kill_switch   \* apply() clears it when the setting is off
                      /\ UNCHANGED <<started_id, counted>>
                 ELSE /\ sup' = t
                      /\ counted' = (IF wasConnected /\ stable THEN {} ELSE counted) \cup {r.gen}
                      /\ started_id' = IF Declined(q, t, wasConnected, frequent) THEN NoProfile ELSE started_id
                      /\ UNCHANGED identityUnsupported
    /\ UNCHANGED <<accepting, deadQueued, probes, coreVars, core_running, prepare_exit, kill_switch,
                   running, intent, resumed, events>>

\* The restart timer: postRestart.
postRestart ==
    /\ Main /\ sup.m_restartTimer
    /\ LET s == [sup EXCEPT !.m_restartTimer = FALSE]
       IN  IF sup.m_state # "Backoff" \/ exiting
           THEN sup' = s /\ UNCHANGED tasks
           ELSE postProcessRestart([s EXCEPT !.m_state = "Starting"], [op |-> "Restart"])
    /\ UNCHANGED <<accepting, posted, deadQueued, probes, process, frame, conns, m_expectedExitGen,
                   settings, running, history, events>>

\* kConnectTimeoutMs after the spawn: the core is killed, and that exit counts.
onConnectTimeout ==
    /\ Main /\ sup.m_connectTimer
    /\ LET s == [sup EXCEPT !.m_connectTimer = FALSE]
           gen == sup.m_connectGen
       IN  IF \/ sup.m_state # "Starting" \/ exiting
              \/ gen <= sup.m_acceptedGen \/ gen # currentGeneration
           THEN sup' = s /\ UNCHANGED tasks
           ELSE /\ sup' = [s EXCEPT !.m_timedOutGen = gen]
                /\ Post([op |-> "KillGen", gen |-> gen])
    /\ UNCHANGED <<accepting, posted, deadQueued, probes, process, frame, conns, m_expectedExitGen,
                   settings, running, history, events>>

restartDeadCore ==
    /\ Main /\ deadQueued
    /\ deadQueued' = FALSE
    /\ IF sup.m_state \notin {"Backoff", "GaveUp"} \/ exiting
       THEN UNCHANGED <<sup, tasks, counted>>
       ELSE /\ postProcessRestart([beginRestart(sup) EXCEPT !.m_startWhenUp = started_id], [op |-> "Restart"])
            /\ counted' = {}
    /\ UNCHANGED <<accepting, posted, probes, process, frame, conns, m_expectedExitGen,
                   settings, running, intent, resumed, events>>

-----------------------------------------------------------------------------
(* The thread DS_cores.                                                    *)

\* Inside Restart() the thread serves no event; elsewhere it does, also while a handler
\* waits in StopRunningProfile, whose nested loop runs the tasks behind it.
DsFree == ~process.restarting

\* StopRunningProfile waits only when there is a profile to stop and no other stop runs.
Blocks == running # NoProfile /\ frame = NoFrame

ExitReport(failed, identity) ==
    [call |-> "onCoreExited", gen |-> process.generation, failedToStart |-> failed, identity |-> identity]

\* CoreProcess::Start.  A process that outlived Restart() keeps QProcess::start from starting.
Start(proc) ==
    LET gen == proc.generation + 1
        q == [proc EXCEPT !.generation = gen, !.restarting = FALSE,
                          !.guard_identity = kill_switch /\ ~identityUnsupported]
    IN  IF proc.state = "doomed" THEN q
        ELSE [q EXCEPT !.state = "launching", !.pid = gen, !.dialed = FALSE]

\* Restart(), up to the wait's end; the exit it causes is not reported.
BeginRestart(outlives) ==
    /\ process.generation < MaxGen
    /\ outlives => process.state \in {"up", "doomed"}
    /\ process' = [process EXCEPT !.restarting = TRUE, !.state = IF outlives THEN "doomed" ELSE "none"]
    /\ core_running' = (core_running /\ outlives)
    /\ IF outlives THEN Event ELSE UNCHANGED events

\* Restart(), from the wait's end on.
FinishRestart ==
    /\ process.restarting
    /\ process' = Start(process)
    /\ UNCHANGED <<mainVars, tasks, frame, conns, m_expectedExitGen, settings, running, history, events>>

Spawned == [call |-> "onCoreSpawned", gen |-> process.generation]

\* The process is gone: the stateChanged handler cleans up, with or without a wait, and
\* posts the report.  A process that ends while launching is first reported as started.
NotRunning(report, blocks) ==
    LET before == IF process.state = "launching" THEN Append(posted, Spawned) ELSE posted
        posts == ~prepare_exit /\ ~blocks
    IN  /\ process' = [process EXCEPT !.state = "none"]
        /\ core_running' = FALSE
        /\ frame' = IF ~prepare_exit /\ blocks THEN report ELSE frame
        /\ posted' = IF posts THEN Append(before, report) ELSE before

Kill(blocks) ==
    IF process.state = "none"
    THEN UNCHANGED <<process, core_running, posted, frame>>
    ELSE NotRunning(ExitReport(FALSE, FALSE), blocks)

RunTask(op) == DsFree /\ tasks # <<>> /\ Head(tasks).op = op /\ tasks' = Tail(tasks)

DsOnly == UNCHANGED <<sup, accepting, deadQueued, probes, conns, prepare_exit, kill_switch,
                      identityUnsupported, history>>

TaskStart ==
    /\ RunTask("Start")
    /\ process' = Start(process)
    /\ UNCHANGED <<mainVars, frame, conns, m_expectedExitGen, settings, running, history, events>>

\* The task of postProcessRestart; one that stops the running profile first may wait for it.
TaskRestart(outlives) ==
    /\ RunTask("Restart") \/ RunTask("StopRestart")
    /\ IF prepare_exit
       THEN UNCHANGED <<process, core_running, frame, events>>
       ELSE IF Head(tasks).op = "StopRestart" /\ Blocks
       THEN frame' = Head(tasks) /\ UNCHANGED <<process, core_running, events>>
       ELSE BeginRestart(outlives) /\ UNCHANGED frame
    /\ UNCHANGED <<posted, m_expectedExitGen, started_id, running>>
    /\ DsOnly

\* resetCore's task after its stop: nothing is left to resume, and the exit is expected.
KillForReset(after) ==
    /\ started_id' = NoProfile
    /\ m_expectedExitGen' = process.generation
    /\ frame' = after
    /\ IF process.state = "none"
       THEN UNCHANGED <<process, core_running, posted>>
       ELSE /\ process' = [process EXCEPT !.state = "none"]
            /\ core_running' = FALSE
            /\ posted' = (IF process.state = "launching" THEN Append(posted, Spawned) ELSE posted)
                         \o (IF prepare_exit THEN <<>> ELSE <<ExitReport(FALSE, FALSE)>>)

TaskReset ==
    /\ RunTask("Reset")
    /\ IF Blocks
       THEN frame' = Head(tasks) /\ UNCHANGED <<posted, process, m_expectedExitGen, core_running, started_id>>
       ELSE KillForReset(frame)
    /\ UNCHANGED <<running, events>>
    /\ DsOnly

TaskKill ==
    /\ RunTask("Kill")
    /\ m_expectedExitGen' = process.generation
    /\ Kill(Blocks)
    /\ UNCHANGED <<started_id, running, events>>
    /\ DsOnly

TaskKillGen ==
    /\ RunTask("KillGen")
    /\ IF process.generation = Head(tasks).gen THEN Kill(Blocks)
       ELSE UNCHANGED <<process, core_running, posted, frame>>
    /\ UNCHANGED <<m_expectedExitGen, started_id, running, events>>
    /\ DsOnly

TaskExitKill ==
    /\ RunTask("ExitKill")
    /\ Kill(Blocks)
    /\ UNCHANGED <<m_expectedExitGen, started_id, running, events>>
    /\ DsOnly

\* The stop a handler waited for is over; the handler goes on.
Unblocked == DsFree /\ frame # NoFrame /\ running' = NoProfile

CleanedUp ==
    /\ Unblocked /\ frame \in Report
    /\ frame' = NoFrame
    /\ posted' = Append(posted, frame)
    /\ UNCHANGED <<process, tasks, m_expectedExitGen, core_running, started_id, events>>
    /\ DsOnly

StoppedForRestart(outlives) ==
    /\ Unblocked /\ frame \in StopRestarts
    /\ frame' = NoFrame
    /\ started_id' = IF frame.manual THEN NoProfile ELSE started_id
    /\ BeginRestart(outlives)
    /\ UNCHANGED <<posted, tasks, m_expectedExitGen>>
    /\ DsOnly

StoppedForReset ==
    /\ Unblocked /\ frame = [op |-> "Reset"]
    /\ KillForReset(NoFrame)
    /\ UNCHANGED <<tasks, events>>
    /\ DsOnly

\* QProcess::started.
Started ==
    /\ DsFree /\ process.state = "launching"
    /\ process' = [process EXCEPT !.state = "up"]
    /\ posted' = Append(posted, Spawned)
    /\ UNCHANGED <<tasks, frame, m_expectedExitGen, core_running, started_id, running, events>>
    /\ DsOnly

\* The program cannot be run.  stateChanged and errorOccurred may both report it.
LaunchFails(twice) ==
    /\ DsFree /\ process.state = "launching" /\ ~process.dialed
    /\ Event
    /\ process' = [process EXCEPT !.state = "none"]
    /\ core_running' = FALSE
    /\ posted' = posted \o (IF twice THEN <<ExitReport(TRUE, FALSE), ExitReport(TRUE, FALSE)>>
                            ELSE <<ExitReport(TRUE, FALSE)>>)
    /\ UNCHANGED <<tasks, frame, m_expectedExitGen, started_id, running>>
    /\ DsOnly

-----------------------------------------------------------------------------
(* The core process, as seen from here.                                    *)

Connect ==
    /\ process.state \in {"launching", "up"} /\ ~process.dialed
    /\ process' = [process EXCEPT !.dialed = TRUE]
    /\ conns' = conns \cup {process.pid}
    /\ UNCHANGED <<mainVars, tasks, frame, m_expectedExitGen, settings, running, history, events>>

\* The core exits: it crashes, is killed from outside, or cannot join the guard's group.
CoreExits(identity) ==
    /\ DsFree /\ process.state = "up"
    /\ identity => process.guard_identity /\ ~process.dialed
    /\ Event
    /\ NotRunning(ExitReport(FALSE, identity), Blocks)
    /\ UNCHANGED <<tasks, m_expectedExitGen, started_id, running>>
    /\ DsOnly

\* The core that outlived Restart() dies at last, and is reported under the new generation.
DoomedExits ==
    /\ DsFree /\ process.state = "doomed"
    /\ NotRunning(ExitReport(FALSE, FALSE), Blocks)
    /\ UNCHANGED <<tasks, m_expectedExitGen, started_id, running, events>>
    /\ DsOnly

-----------------------------------------------------------------------------
Request ==
    \/ \E p \in Profile : start(p)
    \/ \E p \in Profiles : restartNotListening(p) \/ setStartWhenUp(p) \/ startProfile(p)
    \/ listenFails \/ resetCore \/ restartForGuard \/ killForPrivilegeChange \/ stopProfile \/ cancelResume
    \/ changeKillSwitch \/ BeginExit \/ shutdown

MainStep ==
    \/ \E pid \in conns : TakeConnection(pid)
    \/ verifyCorePid \/ onNewConnection \/ onCoreSpawned \/ postRestart \/ onConnectTimeout \/ restartDeadCore
    \/ \E gen \in probes, dropped \in BOOLEAN, starts \in BOOLEAN : onPrivilegeProbed(gen, dropped, starts)
    \/ \E stable \in BOOLEAN, frequent \in BOOLEAN : onCoreExited(stable, frequent)

CoresStep ==
    \/ TaskStart \/ TaskReset \/ TaskKill \/ TaskKillGen \/ TaskExitKill
    \/ CleanedUp \/ StoppedForReset \/ FinishRestart \/ Started
    \/ \E outlives \in BOOLEAN : TaskRestart(outlives) \/ StoppedForRestart(outlives)
    \/ \E twice \in BOOLEAN : LaunchFails(twice)

CoreStep == Connect \/ DoomedExits \/ \E identity \in BOOLEAN : CoreExits(identity)

Next == Request \/ MainStep \/ CoresStep \/ CoreStep

\* Both event loops serve what is posted to them, timers fire, a killed process dies.  The
\* core itself promises nothing: it may never connect.
Fairness ==
    /\ WF_vars(MainStep) /\ WF_vars(CoresStep) /\ WF_vars(DoomedExits)
    /\ WF_vars(postRestart) /\ WF_vars(onConnectTimeout)

Spec == Init /\ [][Next]_vars /\ Fairness

-----------------------------------------------------------------------------
(* What the supervision promises.                                          *)

Operating == sup.m_state \in {"Starting", "Connected", "Backoff"} /\ ~exiting

PendingOps == {tasks[i].op : i \in DOMAIN tasks} \cup (IF frame \in Task THEN {frame.op} ELSE {})

\* A core is about to be spawned.
Respawning == process.restarting \/ PendingOps \cap {"Start", "Restart", "StopRestart"} # {}

\* An exit the main thread will act on is on its way to it.
ExitPending ==
    \E r \in Range(posted) \cup {frame} : r \in Report /\ r.gen > sup.m_handledExitGen

\* The current process's exit will be acted on.
LiveAndMinded == process.state # "none" /\ process.generation > sup.m_handledExitGen

\* The core is never forgotten: as long as the supervisor operates, a process lives whose
\* exit will be acted on, or a respawn, a restart timer or an exit report is under way.
\* (onCoreExited's and postProcessRestart's use of m_handledExitGen, across both threads.)
NeverForgotten == Operating => LiveAndMinded \/ Respawning \/ ExitPending \/ sup.m_restartTimer

\* While a core is being waited for, it is watched: a core that is up and has not connected
\* has its timer, or the report that starts the timer, or its end is on the way.  (A core
\* that hangs must not leave the supervisor in Starting.)
UnconnectedIsWatched ==
    /\ Operating /\ sup.m_state = "Starting" /\ Main
    /\ process.state = "up" /\ process.generation > sup.m_acceptedGen /\ process.pid \notin conns
    => \/ sup.m_connectTimer /\ sup.m_connectGen = process.generation
       \/ \E i \in DOMAIN posted : posted[i].call = "onCoreSpawned" /\ posted[i].gen = process.generation
       \/ PendingOps # {} \/ ExitPending \/ sup.m_restartTimer

\* The supervisor keeps track of the core: it has one, is about to, or will hear of its end,
\* and one that never connects does not go unnoticed.
CoreIsTracked == NeverForgotten /\ UnconnectedIsWatched

\* One exit is counted once, whichever of stateChanged and errorOccurred reports it.
CountedOncePerCore == sup.m_failures <= Cardinality(counted)

\* "A user stop while nothing runs: the profile waiting for the core to come back is not
\* started."  (cancelResume, against exits and restarts under way.)
StopCancelsResume == intent = "cancel" => resumed = NoProfile

\* shutdown(): "stops every restart, then waits ... until the core is killed": once it has
\* returned, no core runs.
NoCoreAfterShutdown ==
    sup.m_state = "ShuttingDown" /\ "ExitKill" \notin PendingOps => process.state \in {"none", "doomed"}

\* The core comes up, or the supervisor gives up: it does not try for ever.
Settles ==
    sup.m_state \in {"Starting", "Backoff"} ~>
        (sup.m_state \in {"Connected", "GaveUp"} \/ exiting \/ process.generation = MaxGen)
=============================================================================
