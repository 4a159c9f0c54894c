-------------------------- MODULE ConnectionManager --------------------------
(***************************************************************************)
(* Starting, switching and stopping the running profile.                   *)
(*                                                                         *)
(* Engine::ConnectionManager lives on the main thread, which runs one      *)
(* handler at a time; a start that passes the checks of start() continues  *)
(* on a worker thread (starter), a stop on another (stopper).  mu_starting *)
(* and mu_stopping keep each of the two single.  The thread DS_cores stops *)
(* the running profile as well, when the core died or is to be replaced.   *)
(*                                                                         *)
(* A start request may wait in five places before the worker takes it: for *)
(* the direct DNS, for the kill switch to settle, for the core to come up, *)
(* for a ranking sweep, and in the queue of the main thread with its       *)
(* answer.  start() runs again on the same request after each wait.        *)
(*                                                                         *)
(* The supervisor, the kill switch and the core appear here by what this   *)
(* class sees of them; CoreSupervisor, KillSwitch and CoreLifecycle model  *)
(* them in full.                                                           *)
(***************************************************************************)
EXTENDS Integers, Sequences, FiniteSets, SequencesExt

CONSTANTS
    Profiles, NoProfile,  \* profile ids and -1
    MaxRequests,          \* bound: start requests with a serial somebody waits for
    MaxEvents,            \* bound: the user's other acts, kill switch changes, exits of the core, ...
    MaxOvertaken          \* bound: queued calls that an input event or a timer may overtake

ASSUME ProfilesAssumption == NoProfile \notin Profiles
ASSUME BoundsAssumption == MaxRequests \in Nat \ {0} /\ MaxEvents \in Nat /\ MaxOvertaken \in Nat

VARIABLES
    calling,                    \* main thread: the request start() is running on
    rankedFor,                  \* main thread: that call resumes a ranked start
    posted,                     \* calls other threads queued to the main thread
    dnsSelect,                  \* the request the running DnsAutoSelect continues
    m_killSwitchDeferredStart,
    m_coreStartRequest,
    rankingInFlight, rankReq,   \* a sweep runs; the request it resumes
    m_guardCoreRestart,         \* the guard restart window is open
    m_bootSerial,
    m_profileConnecting, m_profileDisconnecting,
    mu_starting, mu_stopping,
    starter, stopper,           \* the two workers
    m_running, started_id, prepare_exit,
    killSwitch,                 \* KillSwitch::state()
    sup,                        \* the supervisor: m_state, m_probing, m_startWhenUp
    core,                       \* the core process and what it runs
    core_running,
    tasks, exit,                \* DS_cores: posted restarts; the cleanup of a core that died
    answers,                    \* history: startFinished emitted, by serial
    lastSerial, events

waits == <<dnsSelect, m_killSwitchDeferredStart, m_coreStartRequest, rankingInFlight, rankReq>>
shown == <<m_profileConnecting, m_profileDisconnecting>>
locks == <<mu_starting, mu_stopping>>
workers == <<starter, stopper>>
settings == <<started_id, prepare_exit>>
coreSide == <<core, core_running, tasks, exit>>
vars == <<calling, rankedFor, posted, waits, m_guardCoreRestart, m_bootSerial, shown, locks, workers,
          m_running, settings, killSwitch, sup, coreSide, answers, lastSerial, events>>

Profile == Profiles \cup {NoProfile}
Serials == 1..MaxRequests

\* Serial 0: an internal request, whose outcome nobody waits for.
Request(serial, p) == [serial |-> serial, profile |-> p, dnsChecked |-> FALSE]
NoRequest == Request(0, NoProfile)
StartRequest == {NoRequest} \cup [serial : {0} \cup Serials, profile : Profiles, dnsChecked : BOOLEAN]
Waiting(r) == r.profile # NoProfile

KillSwitchStates == {"Off", "Arming", "Armed", "Failed"}
SupervisorFields ==
    [m_state : {"Starting", "Connected", "Backoff", "GaveUp", "ListenFailed", "ShuttingDown"},
     m_probing : BOOLEAN, m_startWhenUp : Profile]

\* unsure: a Start or Stop of this core was not answered, or was answered with an error.
CoreFields ==
    [state : {"none", "launching", "up"}, profile : Profile, guard_identity : BOOLEAN, accepted : BOOLEAN,
     unsure : BOOLEAN]
NoCore == [state |-> "none", profile |-> NoProfile, guard_identity |-> FALSE, accepted |-> FALSE, unsure |-> FALSE]

StarterFields ==
    [pc : {"none", "begin", "await", "rpc", "started", "record", "unlock"}, req : StartRequest, profile : Profile]
NoStarter == [pc |-> "none", req |-> NoRequest, profile |-> NoProfile]
StopperFields == [pc : {"none", "rpc", "clear", "finish"}, crash : BOOLEAN, manual : BOOLEAN]
NoStopper == [pc |-> "none", crash |-> FALSE, manual |-> FALSE]
Exit == [pc : {"none", "cleanup", "waiting"}, connected : BOOLEAN, moot : BOOLEAN]
NoExit == [pc |-> "none", connected |-> FALSE, moot |-> FALSE]

Call(kind, serial) == [call |-> kind, serial |-> serial, connected |-> FALSE]
Exited(connected) == [call |-> "Exited", serial |-> 0, connected |-> connected]
Calls == [call : {"Finished", "StartDone", "Disconnecting", "Exited", "Moot"},
          serial : {0} \cup Serials, connected : BOOLEAN]

TypeOK ==
    /\ {calling, dnsSelect, m_killSwitchDeferredStart, m_coreStartRequest, rankReq} \subseteq StartRequest
    /\ {rankedFor, rankingInFlight, m_guardCoreRestart, m_profileConnecting, m_profileDisconnecting,
        mu_starting, mu_stopping, prepare_exit, core_running} \subseteq BOOLEAN
    /\ posted \in Seq(Calls)
    /\ {m_running, started_id} \subseteq Profile
    /\ m_bootSerial \in {0} \cup Serials
    /\ starter \in StarterFields /\ stopper \in StopperFields
    /\ killSwitch \in KillSwitchStates
    /\ sup \in SupervisorFields /\ core \in CoreFields /\ exit \in Exit
    /\ tasks \in Seq({"Restart", "StopRestart", "Stopping"})
    /\ answers \in [Serials -> Nat]
    /\ lastSerial \in 0..MaxRequests /\ events \in 0..MaxEvents

\* The core is being spawned, with a profile to resume or none; a headless boot has set its
\* request with setBootStart().  Or the local server could not listen.
Init ==
    /\ calling = NoRequest /\ rankedFor = FALSE /\ posted = <<>>
    /\ dnsSelect = NoRequest /\ m_killSwitchDeferredStart = NoRequest
    /\ rankingInFlight = FALSE /\ rankReq = NoRequest
    /\ m_guardCoreRestart = FALSE
    /\ m_profileConnecting = FALSE /\ m_profileDisconnecting = FALSE
    /\ mu_starting = FALSE /\ mu_stopping = FALSE
    /\ starter = NoStarter /\ stopper = NoStopper
    /\ m_running = NoProfile /\ started_id = NoProfile /\ prepare_exit = FALSE
    /\ killSwitch \in {"Off", "Arming"}
    /\ core_running = FALSE /\ tasks = <<>> /\ exit = NoExit
    /\ \E p \in Profile, serial \in {0, 1} :
          /\ serial = 1 => p # NoProfile
          /\ m_coreStartRequest = IF serial = 1 THEN Request(1, p) ELSE NoRequest
          /\ m_bootSerial = serial /\ lastSerial = serial
          /\ \/ /\ sup = [m_state |-> "Starting", m_probing |-> FALSE, m_startWhenUp |-> p]
                /\ core = [NoCore EXCEPT !.state = "launching", !.guard_identity = (killSwitch # "Off")]
             \/ /\ serial = 0 /\ p = NoProfile
                /\ sup = [m_state |-> "ListenFailed", m_probing |-> FALSE, m_startWhenUp |-> NoProfile]
                /\ core = NoCore
    /\ answers = [s \in Serials |-> 0]
    /\ events = 0

-----------------------------------------------------------------------------
(* Helpers.                                                                *)

\* The main thread is between two handlers.
Main == ~Waiting(calling)

\* It takes up something else than a queued call, overtaking those that are queued.
Loop == Main /\ Len(posted) <= MaxOvertaken
Event == events < MaxEvents /\ events' = events + 1

\* emit startFinished for the requests rs.
startFinished(rs) == answers' = [s \in Serials |-> answers[s] + (IF \E r \in rs : r.serial = s THEN 1 ELSE 0)]

connectionState ==
    IF m_profileConnecting THEN "Connecting"
    ELSE IF m_profileDisconnecting THEN "Stopping"
    ELSE IF m_running # NoProfile THEN "Running" ELSE "Idle"

canStartCore == sup.m_state \notin {"ListenFailed", "ShuttingDown"}
runningWithoutGuardIdentity == core_running /\ ~core.guard_identity

\* deferStartToCore: the request that waited for the core is superseded.
superseded == IF Waiting(m_coreStartRequest) THEN {m_coreStartRequest} ELSE {}

\* Mutation: the request that waited is dropped without an answer.
MutDropSuperseded(r) == m_coreStartRequest' = r /\ UNCHANGED answers

deferStartToCore(r) == m_coreStartRequest' = r /\ startFinished(superseded)

\* postProcessRestart: the exit of the core that is to be replaced is moot, and so is its report
\* if that is on the way (m_handledExitGen).
Moot(c) == IF c.call = "Exited" THEN [c EXCEPT !.call = "Moot"] ELSE c
PostRestart(task) ==
    /\ tasks' = Append(tasks, task)
    /\ exit' = [exit EXCEPT !.moot = (exit.pc # "none")]
    /\ posted' = [n \in DOMAIN posted |-> Moot(posted[n])]

beginRestart == [sup EXCEPT !.m_state = "Starting", !.m_probing = FALSE]

\* restartCoreForGuard: wait for the core, which is restarted unless that was asked already.  (A
\* core that runs, or was restarted for the guard, is there: haveCore.)
restartCoreForGuard(r) ==
    /\ deferStartToCore(IF Waiting(r) THEN r ELSE NoRequest)
    /\ m_guardCoreRestart' = TRUE
    /\ IF m_guardCoreRestart
       THEN sup' = [sup EXCEPT !.m_startWhenUp = r.profile] /\ UNCHANGED <<tasks, exit, posted>>
       ELSE sup' = [beginRestart EXCEPT !.m_startWhenUp = r.profile] /\ PostRestart("StopRestart")

\* The part of stop() on the caller's thread.  A stop() with nothing running, or while another
\* stop has mu_stopping, does nothing more.
stops == m_running # NoProfile /\ ~mu_stopping
stop(crash, manual) ==
    IF stops
    THEN mu_stopping' = TRUE /\ stopper' = [pc |-> "rpc", crash |-> crash, manual |-> manual]
    ELSE UNCHANGED <<mu_stopping, stopper>>

-----------------------------------------------------------------------------
(* start() on the main thread, one action per way out.                     *)

\* The call is over.
Return == calling' = NoRequest /\ rankedFor' = FALSE
StartUntouched == UNCHANGED <<m_bootSerial, workers, m_running, settings, killSwitch,
                              core, core_running, lastSerial, events>>

\* startFinished with no other effect.
Fail ==
    /\ Return /\ startFinished({calling})
    /\ UNCHANGED <<posted, waits, m_guardCoreRestart, shown, locks, sup, tasks, exit>>
    /\ StartUntouched

\* The program exits, or the profile is gone.
StartRefused == Waiting(calling) /\ Fail

\* The group is gone or archived.
StartGroupUnavailable == Waiting(calling) /\ ~prepare_exit /\ Fail

\* direct_dns_auto is on; a server given by address, PastDns, does what the other setting would.
ChecksDns == ~calling.dnsChecked

\* The server's name is to be resolved first; a second request meanwhile is refused.
deferStartForDns ==
    /\ Waiting(calling) /\ ~prepare_exit /\ ChecksDns
    /\ Return
    /\ IF Waiting(dnsSelect)
       THEN startFinished({calling}) /\ UNCHANGED dnsSelect
       ELSE dnsSelect' = [calling EXCEPT !.dnsChecked = TRUE] /\ UNCHANGED answers
    /\ UNCHANGED <<posted, m_killSwitchDeferredStart, m_coreStartRequest, rankingInFlight, rankReq,
                   m_guardCoreRestart, shown, locks, sup, tasks, exit>>
    /\ StartUntouched

\* DNS is not checked, was checked, or the server is given by address.
PastDns == Waiting(calling) /\ ~prepare_exit /\ (ChecksDns => ~Waiting(dnsSelect))

\* Only the latest request waits for the kill switch to settle.
StartWhileArming ==
    /\ PastDns /\ killSwitch = "Arming"
    /\ Return
    /\ startFinished(IF Waiting(m_killSwitchDeferredStart) THEN {m_killSwitchDeferredStart} ELSE {})
    /\ m_killSwitchDeferredStart' = calling
    /\ UNCHANGED <<posted, dnsSelect, m_coreStartRequest, rankingInFlight, rankReq, m_guardCoreRestart,
                   shown, locks, sup, tasks, exit>>
    /\ StartUntouched

StartKillSwitchInactive == PastDns /\ killSwitch = "Failed" /\ Fail

Unguarded == m_guardCoreRestart \/ (killSwitch = "Armed" /\ runningWithoutGuardIdentity)
PastKillSwitch == PastDns /\ killSwitch \in {"Off", "Armed"}

StartAfterGuardRestart ==
    /\ PastKillSwitch /\ Unguarded
    /\ Return
    /\ restartCoreForGuard(calling)
    /\ UNCHANGED <<dnsSelect, m_killSwitchDeferredStart, rankingInFlight, rankReq, shown, locks>>
    /\ StartUntouched

PastGuard == PastKillSwitch /\ ~Unguarded

\* An auto selector whose pool needs ranking; not while a sweep runs, nor right after one.
rankBeforeStart ==
    /\ PastGuard /\ ~rankingInFlight /\ ~rankedFor
    /\ Return
    /\ rankingInFlight' = TRUE /\ rankReq' = calling
    /\ UNCHANGED <<answers, posted, dnsSelect, m_killSwitchDeferredStart, m_coreStartRequest,
                   m_guardCoreRestart, shown, locks, sup, tasks, exit>>
    /\ StartUntouched

StartBuildFailed == PastGuard /\ Fail

StartBusy == PastGuard /\ (mu_starting \/ mu_stopping) /\ Fail

\* Mutation: a stop under way does not keep the worker from starting.
MutIgnoreStopping == PastGuard /\ ~mu_starting

PastLocks == PastGuard /\ ~mu_starting /\ ~mu_stopping

\* The accepted core is still probed: its coreStarted takes this request along.
StartWhileProbing ==
    /\ PastLocks /\ sup.m_probing
    /\ Return
    /\ deferStartToCore(calling)
    /\ sup' = [sup EXCEPT !.m_startWhenUp = calling.profile]
    /\ UNCHANGED <<posted, dnsSelect, m_killSwitchDeferredStart, rankingInFlight, rankReq, m_guardCoreRestart,
                   shown, locks, tasks, exit>>
    /\ StartUntouched

StartCoreUnavailable == PastLocks /\ ~sup.m_probing /\ ~core_running /\ ~canStartCore /\ Fail

\* restartNotListening.
StartRestartsCore ==
    /\ PastLocks /\ ~sup.m_probing /\ ~core_running /\ canStartCore
    /\ Return
    /\ deferStartToCore(calling)
    /\ sup' = [beginRestart EXCEPT !.m_startWhenUp = calling.profile]
    /\ PostRestart("Restart")
    /\ UNCHANGED <<dnsSelect, m_killSwitchDeferredStart, rankingInFlight, rankReq, m_guardCoreRestart, shown, locks>>
    /\ StartUntouched

\* The rest runs on the worker, which keeps mu_starting.
StartOnWorker ==
    /\ PastLocks /\ ~sup.m_probing /\ core_running
    /\ Return
    /\ mu_starting' = TRUE /\ m_profileConnecting' = TRUE
    /\ starter' = [pc |-> "begin", req |-> calling, profile |-> calling.profile]
    /\ UNCHANGED <<answers, posted, waits, m_guardCoreRestart, m_bootSerial,
                   m_profileDisconnecting, mu_stopping, stopper, m_running, settings, killSwitch, sup, coreSide,
                   lastSerial, events>>

start ==
    \/ StartRefused \/ StartGroupUnavailable \/ deferStartForDns \/ StartWhileArming
    \/ StartKillSwitchInactive \/ StartAfterGuardRestart \/ rankBeforeStart \/ StartBuildFailed
    \/ StartBusy \/ StartWhileProbing \/ StartCoreUnavailable \/ StartRestartsCore \/ StartOnWorker

-----------------------------------------------------------------------------
(* What calls start().                                                     *)

\* A click, a deep link or the remote API, whose serial waits for the outcome.
UserStart(p) ==
    /\ Loop /\ ~prepare_exit /\ lastSerial < MaxRequests
    /\ lastSerial' = lastSerial + 1
    /\ calling' = Request(lastSerial', p)
    /\ UNCHANGED <<rankedFor, posted, waits, m_guardCoreRestart, m_bootSerial, shown, locks, workers, m_running,
                   settings, killSwitch, sup, coreSide, answers, events>>

\* Requests of the engine itself: the mode and route changes and restartStartedProfile start
\* started_id anew; a retry once the geo files are there, or once a leftover Tun adapter is gone,
\* starts the profile that failed if nothing runs.
InternalStart(p) ==
    /\ Loop /\ Event /\ ~prepare_exit
    /\ p = started_id \/ connectionState = "Idle"
    /\ calling' = Request(0, p)
    /\ UNCHANGED <<rankedFor, posted, waits, m_guardCoreRestart, m_bootSerial, shown, locks, workers, m_running,
                   settings, killSwitch, sup, coreSide, answers, lastSerial>>

\* The DNS selection ends.  Nothing answered and Tun is on: the start fails.
DnsSelected(fails) ==
    /\ Loop /\ Waiting(dnsSelect)
    /\ dnsSelect' = NoRequest
    /\ IF fails THEN startFinished({dnsSelect}) /\ UNCHANGED calling
                ELSE calling' = dnsSelect /\ UNCHANGED answers
    /\ UNCHANGED <<rankedFor, posted, m_killSwitchDeferredStart, m_coreStartRequest, rankingInFlight, rankReq,
                   m_guardCoreRestart, m_bootSerial, shown, locks, workers, m_running, settings, killSwitch,
                   sup, coreSide, lastSerial, events>>

\* The sweep is over, or enough members work: the start resumes.
RankResumes(early) ==
    /\ Loop /\ Waiting(rankReq)
    /\ calling' = rankReq /\ rankedFor' = TRUE
    /\ rankReq' = NoRequest /\ rankingInFlight' = early
    /\ UNCHANGED <<posted, dnsSelect, m_killSwitchDeferredStart, m_coreStartRequest, m_guardCoreRestart,
                   m_bootSerial, shown, locks, workers, m_running, settings, killSwitch, sup, coreSide, answers,
                   lastSerial, events>>

\* finishEarlySweep: the best members changed while the early start ran on the others.
RankEnds(p) ==
    /\ Loop /\ rankingInFlight /\ ~Waiting(rankReq)
    /\ rankingInFlight' = FALSE
    /\ IF p = NoProfile THEN UNCHANGED events ELSE Event /\ connectionState = "Running" /\ p = m_running
    /\ calling' = Request(0, p) /\ rankedFor' = (p # NoProfile)
    /\ UNCHANGED <<posted, dnsSelect, m_killSwitchDeferredStart, m_coreStartRequest, rankReq, m_guardCoreRestart,
                   m_bootSerial, shown, locks, workers, m_running, settings, killSwitch, sup, coreSide, answers,
                   lastSerial>>

\* The kill switch goes to state k.  onKillSwitchStateChanged restarts a core that runs outside
\* the guard's group, with the start that waits for it or the started profile; then settle()
\* resumes the start that waited for the kill switch.
killSwitchChanges(k) ==
    /\ Loop /\ ~prepare_exit /\ k # killSwitch
    /\ killSwitch = "Off" => k = "Arming"
    /\ killSwitch = "Failed" => k \in {"Off", "Arming"}
    /\ IF killSwitch = "Arming" THEN UNCHANGED events ELSE Event
    /\ killSwitch' = k
    /\ IF k # "Arming" /\ Waiting(m_killSwitchDeferredStart)
       THEN calling' = m_killSwitchDeferredStart /\ m_killSwitchDeferredStart' = NoRequest
       ELSE UNCHANGED <<calling, m_killSwitchDeferredStart>>
    /\ IF k = "Armed" /\ ~m_guardCoreRestart /\ runningWithoutGuardIdentity
       THEN IF sup.m_probing /\ sup.m_startWhenUp # NoProfile
            THEN /\ m_coreStartRequest' = IF Waiting(m_coreStartRequest) THEN m_coreStartRequest
                                          ELSE Request(0, sup.m_startWhenUp)
                 /\ m_guardCoreRestart' = TRUE
                 /\ sup' = [beginRestart EXCEPT !.m_startWhenUp = m_coreStartRequest'.profile]
                 /\ PostRestart("StopRestart") /\ UNCHANGED answers
            ELSE restartCoreForGuard(Request(0, started_id))
       ELSE UNCHANGED <<m_coreStartRequest, m_guardCoreRestart, sup, tasks, exit, posted, answers>>
    /\ UNCHANGED <<rankedFor, dnsSelect, rankingInFlight, rankReq, m_bootSerial, shown, locks, workers, m_running,
                   settings, core, core_running, lastSerial>>

\* kGuardRestartWindowMs has passed.
GuardWindowEnds ==
    /\ Loop /\ m_guardCoreRestart
    /\ m_guardCoreRestart' = FALSE
    /\ UNCHANGED <<calling, rankedFor, posted, waits, m_bootSerial, shown, locks, workers, m_running, settings,
                   killSwitch, sup, coreSide, answers, lastSerial, events>>

\* emitCoreStarted after the probe, and the slot.  A kill switch that failed for want of the
\* privileges the new core may have is applied again.  held: headless, the Tun the boot needs could
\* not be restored, so the boot's own request is refused.
onCoreStarted(held) ==
    /\ Loop /\ sup.m_probing /\ ~prepare_exit
    /\ sup' = [sup EXCEPT !.m_probing = FALSE, !.m_startWhenUp = NoProfile]
    /\ killSwitch' \in {killSwitch} \cup (IF killSwitch = "Failed" THEN {"Arming"} ELSE {})
    /\ m_guardCoreRestart' = FALSE /\ m_coreStartRequest' = NoRequest /\ m_bootSerial' = 0
    /\ LET id      == sup.m_startWhenUp
           matches == m_coreStartRequest.profile = id
           next    == IF matches THEN m_coreStartRequest ELSE Request(0, id)
           refused == held /\ next.serial # 0 /\ next.serial = m_bootSerial
       IN  /\ held => refused
           /\ calling' = IF refused THEN NoRequest ELSE next
           /\ startFinished(IF ~matches THEN superseded ELSE IF refused THEN {next} ELSE {})
    /\ UNCHANGED <<rankedFor, posted, dnsSelect, m_killSwitchDeferredStart, rankingInFlight, rankReq, shown, locks,
                   workers, m_running, settings, coreSide, lastSerial, events>>

-----------------------------------------------------------------------------
(* Stops asked on the main thread.                                         *)

\* The user's: it cancels the resume that waits for the core when nothing runs.
UserStop ==
    /\ Loop /\ Event /\ ~prepare_exit
    /\ stop(FALSE, TRUE)
    /\ m_profileDisconnecting' = (m_profileDisconnecting \/ stops)
    /\ IF m_running = NoProfile
       THEN sup' = [sup EXCEPT !.m_startWhenUp = NoProfile] /\ started_id' = NoProfile
       ELSE UNCHANGED <<sup, started_id>>
    /\ UNCHANGED <<calling, rankedFor, posted, waits, m_guardCoreRestart, m_bootSerial, m_profileConnecting,
                   mu_starting, starter, m_running, prepare_exit,
                   killSwitch, coreSide, answers, lastSerial>>

\* ExitController::shutdown: the running profile stops ...
BeginExit ==
    /\ Loop /\ Event /\ ~prepare_exit
    /\ prepare_exit' = TRUE
    /\ stop(FALSE, FALSE)
    /\ m_profileDisconnecting' = (m_profileDisconnecting \/ stops)
    /\ UNCHANGED <<calling, rankedFor, posted, waits, m_guardCoreRestart, m_bootSerial, m_profileConnecting,
                   mu_starting, starter, m_running, started_id, killSwitch, sup, coreSide, answers,
                   lastSerial>>

\* ... then the core is killed.
EndExit ==
    /\ Loop /\ prepare_exit /\ stopper = NoStopper /\ sup.m_state # "ShuttingDown"
    /\ sup' = [sup EXCEPT !.m_state = "ShuttingDown", !.m_probing = FALSE]
    /\ core' = NoCore /\ core_running' = FALSE /\ tasks' = <<>>
    /\ UNCHANGED <<calling, rankedFor, posted, waits, m_guardCoreRestart, m_bootSerial, shown, locks, workers,
                   m_running, settings, killSwitch, exit, answers, lastSerial, events>>

-----------------------------------------------------------------------------
(* The start worker.                                                       *)

WorkerUntouched == UNCHANGED <<calling, rankedFor, waits, m_guardCoreRestart, m_bootSerial, shown,
                               prepare_exit, killSwitch, sup, tasks, exit, answers, lastSerial, events>>

Post(c) == posted' = Append(posted, c)

\* A running profile is stopped first; that stop may be another's.
WorkerBegins ==
    /\ starter.pc = "begin"
    /\ starter' = [starter EXCEPT !.pc = IF m_running # NoProfile THEN "await" ELSE "rpc"]
    /\ stop(FALSE, FALSE)
    /\ IF stops THEN Post(Call("Disconnecting", 0)) ELSE UNCHANGED posted
    /\ UNCHANGED <<mu_starting, m_running, started_id, core, core_running>> /\ WorkerUntouched

\* mu_stopping.lock(), unlock().
WorkerAwaitsStop ==
    /\ starter.pc = "await" /\ ~mu_stopping
    /\ starter' = [starter EXCEPT !.pc = "rpc"]
    /\ UNCHANGED <<posted, locks, stopper, m_running, started_id, core, core_running>> /\ WorkerUntouched

\* The core starts the profile and answers.
RpcStarts ==
    /\ starter.pc = "rpc" /\ core.state = "up" /\ core.profile = NoProfile
    /\ core' = [core EXCEPT !.profile = starter.profile]
    /\ starter' = [starter EXCEPT !.pc = "started"]
    /\ UNCHANGED <<posted, locks, stopper, m_running, started_id, core_running>> /\ WorkerUntouched

\* The extra core is not permitted, the core refuses, the channel is gone or the answer is late:
\* one outcome is posted.  late: the core starts the profile although nobody waits any more.
RpcFails(late) ==
    /\ starter.pc = "rpc"
    /\ late => core.state = "up" /\ core.profile = NoProfile
    /\ core' = IF late THEN [core EXCEPT !.profile = starter.profile, !.unsure = TRUE] ELSE core
    /\ Post(Call("Finished", starter.req.serial))
    /\ starter' = [starter EXCEPT !.pc = "unlock", !.req = NoRequest]
    /\ UNCHANGED <<locks, stopper, m_running, started_id, core_running>>
    /\ WorkerUntouched

\* UpdateStartedId ...
WorkerStarted ==
    /\ starter.pc = "started"
    /\ started_id' = starter.profile
    /\ starter' = [starter EXCEPT !.pc = "record"]
    /\ UNCHANGED <<posted, locks, stopper, m_running, core, core_running>> /\ WorkerUntouched

\* Mutation: the outcome of a success is left to the state change.
MutNoStarted ==
    /\ starter.pc = "record"
    /\ m_running' = starter.profile
    /\ starter' = [starter EXCEPT !.pc = "unlock", !.req = NoRequest]
    /\ UNCHANGED <<posted, locks, stopper, started_id, core, core_running>> /\ WorkerUntouched

\* ... and setRunning, then the outcome.
WorkerRecords ==
    /\ starter.pc = "record"
    /\ m_running' = starter.profile
    /\ Post(Call("Finished", starter.req.serial))
    /\ starter' = [starter EXCEPT !.pc = "unlock", !.req = NoRequest]
    /\ UNCHANGED <<locks, stopper, started_id, core, core_running>> /\ WorkerUntouched

\* mu_starting is free before the main thread hears of the end.
WorkerEnds ==
    /\ starter.pc = "unlock"
    /\ mu_starting' = FALSE
    /\ Post(Call("StartDone", 0))
    /\ starter' = NoStarter
    /\ UNCHANGED <<mu_stopping, stopper, m_running, started_id, core, core_running>> /\ WorkerUntouched

-----------------------------------------------------------------------------
(* The stop worker.                                                        *)

StopUntouched == UNCHANGED <<calling, rankedFor, posted, waits, m_guardCoreRestart, m_bootSerial, mu_starting,
                             starter, prepare_exit, killSwitch, sup, core_running, tasks, exit, answers,
                             lastSerial, events>>

\* The Stop RPC, not sent to a core that died.  Its failure changes nothing here.
StopRpc(done, ok) ==
    /\ stopper.pc = "rpc"
    /\ ok => done
    /\ stopper.crash => ~done
    /\ core' = [core EXCEPT !.profile = IF done THEN NoProfile ELSE @,
                            !.unsure = @ \/ (~ok /\ ~stopper.crash /\ core.state = "up")]
    /\ stopper' = [stopper EXCEPT !.pc = "clear"]
    /\ UNCHANGED <<shown, mu_stopping, m_running, started_id>> /\ StopUntouched

StopClears ==
    /\ stopper.pc = "clear"
    /\ m_running' = NoProfile
    /\ started_id' = IF stopper.manual THEN NoProfile ELSE started_id
    /\ stopper' = [stopper EXCEPT !.pc = "finish"]
    /\ UNCHANGED <<shown, mu_stopping, core>> /\ StopUntouched

\* The main thread's end of a stop, which the worker waits for.
StopFinishes ==
    /\ Main /\ stopper.pc = "finish" /\ Call("Disconnecting", 0) \notin Range(posted)
    /\ m_profileDisconnecting' = FALSE
    /\ mu_stopping' = FALSE
    /\ stopper' = NoStopper
    /\ UNCHANGED <<m_profileConnecting, m_running, started_id, core>> /\ StopUntouched

-----------------------------------------------------------------------------
(* The core, DS_cores and the supervisor.                                  *)

CoreUntouched == UNCHANGED <<rankedFor, dnsSelect, m_killSwitchDeferredStart, rankingInFlight, rankReq,
                             m_bootSerial, mu_starting, starter, m_running, prepare_exit, killSwitch,
                             lastSerial>>

\* The spawned core connects and is probed; the connection of one about to be replaced is refused.
CoreConnects ==
    /\ Loop /\ ~prepare_exit /\ core.state = "launching" /\ tasks = <<>>
    /\ core' = [core EXCEPT !.state = "up", !.accepted = TRUE]
    /\ core_running' = TRUE
    /\ sup' = [sup EXCEPT !.m_state = "Connected", !.m_probing = TRUE]
    /\ UNCHANGED <<calling, posted, m_coreStartRequest, m_guardCoreRestart, shown, mu_stopping, stopper, started_id,
                   tasks, exit, answers, events>>
    /\ CoreUntouched

CoreDies ==
    /\ Event /\ ~prepare_exit /\ core.state # "none" /\ exit = NoExit
    /\ core' = NoCore /\ core_running' = FALSE
    /\ exit' = [pc |-> "cleanup", connected |-> core.accepted, moot |-> tasks # <<>>]
    /\ UNCHANGED <<calling, posted, m_coreStartRequest, m_guardCoreRestart, shown, mu_stopping, stopper, started_id,
                   sup, tasks, answers>>
    /\ CoreUntouched

\* DS_cores stops the running profile ...
CleansUp ==
    /\ exit.pc = "cleanup"
    /\ stop(TRUE, FALSE)
    /\ IF stops THEN Post(Call("Disconnecting", 0)) ELSE UNCHANGED posted
    /\ exit' = [exit EXCEPT !.pc = "waiting"]
    /\ UNCHANGED <<calling, m_coreStartRequest, m_guardCoreRestart, shown, started_id, sup, core, core_running, tasks,
                   answers, events>>
    /\ CoreUntouched

\* ... and reports the exit, which is ignored once a restart was asked.
ReportsExit ==
    /\ exit.pc = "waiting" /\ (stopper = NoStopper \/ ~stopper.crash)
    /\ exit' = NoExit
    /\ IF exit.moot \/ prepare_exit THEN UNCHANGED posted ELSE Post(Exited(exit.connected))
    /\ UNCHANGED <<calling, m_coreStartRequest, m_guardCoreRestart, shown, mu_stopping, stopper, started_id, sup, core,
                   core_running, tasks, answers, events>>
    /\ CoreUntouched

\* The tasks of postProcessRestart: stop the running profile first for the guard, then Restart(),
\* which silences the exit of the core it kills.
RunTask ==
    /\ tasks # <<>> /\ ~prepare_exit /\ exit.pc # "cleanup"
    /\ Head(tasks) = "Stopping" => stopper = NoStopper \/ ~stopper.crash
    /\ IF Head(tasks) = "StopRestart"
       THEN /\ tasks' = <<"Stopping">> \o Tail(tasks)
            /\ stop(TRUE, FALSE)
            /\ IF stops THEN Post(Call("Disconnecting", 0)) ELSE UNCHANGED posted
            /\ UNCHANGED <<core, core_running>>
       ELSE /\ tasks' = Tail(tasks)
            /\ core' = [NoCore EXCEPT !.state = "launching", !.guard_identity = (killSwitch # "Off")]
            /\ core_running' = FALSE
            /\ UNCHANGED <<posted, mu_stopping, stopper>>
    /\ UNCHANGED <<calling, m_coreStartRequest, m_guardCoreRestart, shown, started_id, sup, exit, answers, events>>
    /\ CoreUntouched

\* The restart timer.
postRestart ==
    /\ Loop /\ ~prepare_exit /\ sup.m_state = "Backoff"
    /\ sup' = [sup EXCEPT !.m_state = "Starting"]
    /\ PostRestart("Restart")
    /\ UNCHANGED <<calling, m_coreStartRequest, m_guardCoreRestart, shown, mu_stopping, stopper, started_id, core,
                   core_running, answers, events>>
    /\ CoreUntouched

\* Mutation: the exit is handled without a word to who waits.
MutSilentGiveUp(connected, gives, declined) ==
    /\ sup' = [sup EXCEPT !.m_state = IF gives THEN "GaveUp" ELSE "Backoff", !.m_probing = FALSE,
                          !.m_startWhenUp = IF gives \/ declined THEN NoProfile ELSE @]
    /\ UNCHANGED <<started_id, m_guardCoreRestart, m_coreStartRequest, answers>>

\* onCoreExited of a core that was not asked to exit, and onCoreGaveUp when the supervisor gives
\* up.  declined: the profile brought the core down too often.
onCoreExited(connected, gives, declined) ==
    LET wasConnected == connected /\ ~sup.m_probing
        resumes      == IF declined THEN NoProfile ELSE started_id
        next         == IF wasConnected \/ sup.m_startWhenUp = NoProfile THEN resumes ELSE sup.m_startWhenUp
    IN  /\ declined => wasConnected
        /\ sup' = [sup EXCEPT !.m_state = IF gives THEN "GaveUp" ELSE "Backoff", !.m_probing = FALSE,
                              !.m_startWhenUp = IF gives THEN NoProfile ELSE next]
        /\ started_id' = IF gives \/ declined THEN NoProfile ELSE started_id
        /\ IF gives
           THEN m_guardCoreRestart' = FALSE /\ deferStartToCore(NoRequest)
           ELSE UNCHANGED <<m_guardCoreRestart, m_coreStartRequest, answers>>

-----------------------------------------------------------------------------
(* The main thread's queue.                                                *)

QueueUntouched == UNCHANGED <<calling, core, core_running, tasks, exit, mu_stopping, stopper, events,
                              rankedFor, dnsSelect, m_killSwitchDeferredStart, rankingInFlight, rankReq,
                              m_bootSerial, mu_starting, starter, m_running, prepare_exit, killSwitch, lastSerial>>
Take(kind) == Main /\ posted # <<>> /\ Head(posted).call = kind /\ posted' = Tail(posted)
SupervisorUntouched == UNCHANGED <<sup, started_id, m_guardCoreRestart, m_coreStartRequest>>

\* The outcome of a start on the worker, "Started" or why not.
Finished ==
    /\ Take("Finished") /\ startFinished({Head(posted)})
    /\ UNCHANGED shown /\ SupervisorUntouched /\ QueueUntouched

StartDone ==
    /\ Take("StartDone") /\ m_profileConnecting' = FALSE
    /\ UNCHANGED <<m_profileDisconnecting, answers>> /\ SupervisorUntouched /\ QueueUntouched

Disconnecting ==
    /\ Take("Disconnecting") /\ m_profileDisconnecting' = TRUE
    /\ UNCHANGED <<m_profileConnecting, answers>> /\ SupervisorUntouched /\ QueueUntouched

CoreExited(gives, declined) ==
    /\ Take("Exited")
    /\ IF prepare_exit THEN SupervisorUntouched /\ UNCHANGED answers
       ELSE onCoreExited(Head(posted).connected, gives, declined)
    /\ UNCHANGED shown /\ QueueUntouched

\* A report of an exit that was handled, or that a restart has made moot.
ExitHandled == Take("Moot") /\ UNCHANGED <<shown, answers>> /\ SupervisorUntouched /\ QueueUntouched

-----------------------------------------------------------------------------
Posts == Finished \/ StartDone \/ Disconnecting \/ ExitHandled \/ \E g, d \in BOOLEAN : CoreExited(g, d)
Resumes ==
    \/ \E f \in BOOLEAN : DnsSelected(f) \/ RankResumes(f)
    \/ \E p \in Profile : RankEnds(p)
    \/ \E h \in BOOLEAN : onCoreStarted(h)
Settles == killSwitch = "Arming" /\ \E k \in KillSwitchStates : killSwitchChanges(k)
StartWorker ==
    \/ WorkerBegins \/ WorkerAwaitsStop \/ RpcStarts \/ WorkerStarted \/ WorkerRecords \/ WorkerEnds
    \/ \E l \in BOOLEAN : RpcFails(l)
StopWorker == (\E d, o \in BOOLEAN : StopRpc(d, o)) \/ StopClears \/ StopFinishes
Cores == CoreConnects \/ CleansUp \/ ReportsExit \/ RunTask \/ postRestart

Next ==
    \/ start \/ Posts \/ Resumes \/ StartWorker \/ StopWorker \/ Cores
    \/ \E p \in Profiles : UserStart(p) \/ InternalStart(p)
    \/ \E k \in KillSwitchStates : killSwitchChanges(k)
    \/ UserStop \/ GuardWindowEnds \/ CoreDies \/ BeginExit \/ EndExit

Spec == Init /\ [][Next]_vars

\* The event loop and the threads make progress; every RPC, the DNS selection, the arming of the
\* kill switch, the probe and the connection of a core end within their timeouts.
Fairness ==
    /\ WF_vars(start) /\ WF_vars(Posts) /\ WF_vars(Settles)
    /\ WF_vars(\E h \in BOOLEAN : onCoreStarted(h))
    /\ WF_vars(\E f \in BOOLEAN : DnsSelected(f))
    /\ WF_vars(\E f \in BOOLEAN : RankResumes(f))
    /\ WF_vars(StartWorker) /\ WF_vars(StopWorker)
    /\ WF_vars(CoreConnects) /\ WF_vars(CleansUp) /\ WF_vars(ReportsExit) /\ WF_vars(RunTask)
    /\ WF_vars(postRestart)
FairSpec == Spec /\ Fairness

-----------------------------------------------------------------------------
(* Properties.                                                             *)

\* The places where the request with serial s waits, or its outcome does.
Places(s) ==
    {n \in 1..6 : <<calling, dnsSelect, m_killSwitchDeferredStart, m_coreStartRequest, rankReq, starter.req>>[n].serial = s}
Outcomes(s) == {n \in DOMAIN posted : posted[n].serial = s}

\* startFinished fires once per request: a request that was made is in exactly one place until
\* its outcome is emitted, and in none afterwards (ConnectionManager.h, start()).
OnceEach == \A s \in 1..lastSerial : Cardinality(Places(s)) + Cardinality(Outcomes(s)) + answers[s] = 1

\* A start that waits for the core waits for something the supervisor still owes: coreStarted of
\* a core being probed, spawned or restarted, or coreGaveUp (deferStartToCore's callers).
CoreOwesAnswer ==
    Waiting(m_coreStartRequest) /\ ~prepare_exit =>
        sup.m_probing \/ sup.m_state \in {"Starting", "Backoff"}

\* A Start reaches a core that runs nothing, unless an earlier RPC to that core failed or its
\* restart is queued: a switch stops the old profile first, whoever's stop that is.
StartsOnCleanCore == starter.pc = "rpc" /\ core.profile # NoProfile => core.unsure \/ tasks # <<>>

\* Every request is answered, unless the program exits.
RequestsAnswered == \A s \in Serials : s <= lastSerial ~> answers[s] > 0 \/ prepare_exit

=============================================================================
