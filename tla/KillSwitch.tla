----------------------------- MODULE KillSwitch -----------------------------
(***************************************************************************)
(* The kill switch: the object Sys::KillSwitch of the GUI (one thread, the *)
(* UI thread) together with the guard processes it spawns (the core binary *)
(* run with --guard).  A guard blocks all traffic outside the tunnel from  *)
(* the moment its backend is armed until its standard input is closed or   *)
(* it dies.  GUI and guard talk over two pipes: closing the guard's input  *)
(* asks it to leave, and its output carries READY, ERROR, FAIL and, last,  *)
(* the notice of its exit, in that order.                                  *)
(*                                                                         *)
(* The GUI's fields are the record ks, so that the private member          *)
(* functions, which call one another, are operators from a record to a     *)
(* record, and each signal handler is one action.                          *)
(***************************************************************************)
EXTENDS Naturals, Sequences, TLC

CONSTANTS
    Guards,      \* slots for guard processes; a slot is reused once its guard is deleted
    NoGuard,     \* the null GuardProcess pointer
    Configs,     \* distinct results of buildConfig()
    NoConfig,    \* the configuration of a slot without a guard
    MaxEvents    \* bound: settings changes, failures of guards and other events from outside

ASSUME GuardsAssumption == NoGuard \notin Guards
ASSUME ConfigsAssumption == NoConfig \notin Configs
ASSUME BoundAssumption == MaxEvents \in Nat

VARIABLES
    ks,            \* the fields of Sys::KillSwitch
    proc,          \* what each guard process is doing
    out,           \* lines of each guard's output the GUI has not read, the exit notice last
    kill_switch,   \* the setting
    cfg,           \* what buildConfig() returns now
    overridden_,   \* headless --no-kill-switch, set before the first apply()
    prepare_exit,  \* the program is tearing down
    applyQueued,   \* an apply() posted to the UI thread after a settings dialog
    portQueued,    \* the apply() posted by SetApiPort
    gui,           \* "up" or "gone"
    events         \* events from outside so far, bounded by MaxEvents

settings == <<kill_switch, cfg, overridden_, prepare_exit>>
queued == <<applyQueued, portQueued>>
vars == <<ks, proc, out, settings, queued, gui, events>>

States == {"Disabled", "Arming", "Armed", "Failed"}

\* "privilege" stands for privilege and config, which a respawn cannot cure either;
\* "internal" for internal, tampered, crash and timeout, which it may.
Codes == {"privilege", "unsupported", "internal", "overridden"}
GuardCodes == {"privilege", "unsupported", "internal"}
Recoverable(code) == code \notin {"privilege", "unsupported"}

WaiterKinds == {"settled", "idle"}

KillSwitchFields ==
    [state_ : States, failureCode_ : Codes \cup {""}, identityUnsupported_ : BOOLEAN,
     active_ : Guards \cup {NoGuard}, pending_ : Guards \cup {NoGuard}, shutdown_ : BOOLEAN,
     respawned : BOOLEAN,            \* lastRespawn_ is younger than kRespawnIntervalMs
     retry : BOOLEAN,                \* a 30 s re-apply timer of armFailed is running
     waiters : SUBSET WaiterKinds,   \* callbacks of whenSettled and whenIdle not yet run
     closing : SUBSET Guards,        \* GuardProcess::closing
     config : [Guards -> Configs \cup {NoConfig}]]   \* GuardProcess::config

\* free: no GuardProcess.  launching: QProcess::start called, "started" not handled.
\* starved: running, its input closed before a configuration was written.
\* configured: has its configuration, backend not armed yet.  enforcing: rules installed.
\* breached: the rules were removed from outside and the backend has not noticed.
\* failing: FAIL printed, disarming.  exited: gone, its exit notice is in out.
ProcStates == {"free", "launching", "starved", "configured", "enforcing", "breached", "failing", "exited"}
Live == {"launching", "starved", "configured", "enforcing", "breached", "failing"}

Ready == [verb |-> "READY", code |-> ""]
Exit == [verb |-> "EXIT", code |-> "internal"]
Lines == {Ready, Exit} \cup [verb : {"ERROR", "FAIL"}, code : GuardCodes]

TypeOK ==
    /\ ks \in KillSwitchFields
    /\ proc \in [Guards -> ProcStates]
    /\ out \in [Guards -> Seq(Lines)]
    /\ kill_switch \in BOOLEAN
    /\ cfg \in Configs
    /\ overridden_ \in BOOLEAN
    /\ prepare_exit \in BOOLEAN
    /\ applyQueued \in BOOLEAN
    /\ portQueued \in BOOLEAN
    /\ gui \in {"up", "gone"}
    /\ events \in 0..MaxEvents

NewKillSwitch ==
    [state_ |-> "Disabled", failureCode_ |-> "", identityUnsupported_ |-> FALSE,
     active_ |-> NoGuard, pending_ |-> NoGuard, shutdown_ |-> FALSE, respawned |-> FALSE,
     retry |-> FALSE, waiters |-> {}, closing |-> {}, config |-> [g \in Guards |-> NoConfig]]

Init ==
    /\ ks = NewKillSwitch
    /\ proc = [g \in Guards |-> "free"]
    /\ out = [g \in Guards |-> <<>>]
    /\ kill_switch \in BOOLEAN
    /\ cfg \in Configs
    /\ overridden_ \in BOOLEAN
    /\ prepare_exit = FALSE
    /\ applyQueued = TRUE      \* EngineHost::start applies the saved setting
    /\ portQueued = FALSE
    /\ gui = "up"
    /\ events = 0

-----------------------------------------------------------------------------
(* Member functions of KillSwitch, from the fields to the fields.          *)

settle(k) ==
    [k EXCEPT !.waiters = {w \in @ : IF w = "idle" THEN k.pending_ # NoGuard ELSE k.state_ = "Arming"}]

setState(k, s) ==
    [k EXCEPT !.state_ = s, !.failureCode_ = IF s # "Failed" THEN "" ELSE @]

fail(k, code) ==
    settle([k EXCEPT !.state_ = "Failed", !.failureCode_ = code])

\* As fail("unsupported"), but worded for a guard that goes on blocking.
failIdentity(k) ==
    settle([k EXCEPT !.state_ = "Failed", !.failureCode_ = "unsupported"])

closeGuard(k, g) ==
    IF g = NoGuard THEN k ELSE [k EXCEPT !.closing = @ \cup {g}]

deleteLater(k, g) == [k EXCEPT !.closing = @ \ {g}, !.config[g] = NoConfig]

closeActive(k) == [closeGuard(k, k.active_) EXCEPT !.active_ = NoGuard]
\* Mutation: the replaced guard is forgotten and never closed.
MutForgetPending(k) == [k EXCEPT !.pending_ = NoGuard]

closePending(k) == [closeGuard(k, k.pending_) EXCEPT !.pending_ = NoGuard]

FreeSlots == {g \in Guards : proc[g] = "free"}
freshSlot == CHOOSE g \in FreeSlots : TRUE

\* Mutation: the active guard is let go before its replacement is ready.
MutBreakBeforeMake(k, c) ==
    [closeActive(closePending(k)) EXCEPT !.pending_ = freshSlot, !.config[freshSlot] = c, !.state_ = "Arming"]

\* new GuardProcess.  On Windows a failed start is reported inside start(); that is
\* spawn followed at once by StartFailed, as nothing runs after spawn in its callers.
spawn(k, c) ==
    LET q == [closePending(k) EXCEPT !.pending_ = freshSlot, !.config[freshSlot] = c]
    IN  IF k.active_ = NoGuard /\ ~k.identityUnsupported_ THEN setState(q, "Arming") ELSE q

\* The setting is off: every guard is let go.
turnOff(k) ==
    settle(setState(closeActive(closePending([k EXCEPT !.identityUnsupported_ = FALSE])), "Disabled"))

\* Mutation: --no-kill-switch is taken for the setting being off.
MutOverrideIsOff(k) == turnOff(k)

\* --no-kill-switch with the setting on: nothing is armed and no profile may start.
refuseOverridden(k) == fail(closeActive(closePending(k)), "overridden")

\* apply() when the settings read: kill_switch is on, and buildConfig() returns c.
apply(k, on, c) ==
    LET q == IF k.identityUnsupported_ /\ k.state_ = "Armed" THEN failIdentity(k) ELSE k
    IN  IF k.shutdown_ THEN k
        ELSE IF ~on THEN turnOff(k)
        ELSE IF overridden_ THEN refuseOverridden(k)
        ELSE IF q.pending_ # NoGuard /\ q.config[q.pending_] = c THEN q
        ELSE IF q.active_ # NoGuard /\ q.config[q.active_] = c
             THEN IF q.pending_ # NoGuard THEN settle(closePending(q)) ELSE q
        ELSE spawn(q, c)

\* The retry timer is a flag: two running timers do no more than one that runs twice.
armFailed(k, code) ==
    IF k.active_ # NoGuard
    THEN settle([k EXCEPT !.retry = @ \/ Recoverable(code)])
    ELSE fail(k, code)

protectionLost(k, code) ==
    IF k.shutdown_ THEN k
    ELSE IF ~kill_switch THEN apply(k, FALSE, cfg)
    ELSE IF k.pending_ # NoGuard
         THEN settle(IF k.identityUnsupported_ THEN k ELSE setState(k, "Arming"))
    ELSE IF Recoverable(code) /\ ~k.respawned THEN spawn([k EXCEPT !.respawned = TRUE], cfg)
    ELSE fail(k, code)

\* Mutation: READY is taken from any guard, the one let go meanwhile included.
MutAnyReady(k, g) ==
    LET q == [closeActive(k) EXCEPT !.active_ = g, !.pending_ = NoGuard]
    IN  IF k.identityUnsupported_ THEN failIdentity(q) ELSE settle(setState(q, "Armed"))

onReady(k, g) ==
    IF g # k.pending_ THEN k
    ELSE LET q == [closeActive(k) EXCEPT !.active_ = g, !.pending_ = NoGuard]
         IN  IF k.identityUnsupported_ THEN failIdentity(q) ELSE settle(setState(q, "Armed"))

\* Mutation: only the loss of the active guard is reacted to.
MutPendingLossIgnored(k, g, code) ==
    IF g \in k.closing THEN k
    ELSE LET q == [closeGuard(k, g) EXCEPT !.active_ = IF @ = g THEN NoGuard ELSE @,
                                           !.pending_ = IF @ = g THEN NoGuard ELSE @]
         IN  IF g = k.active_ THEN protectionLost(q, code) ELSE q

\* A guard failed, exited or ran out of time: unless that was expected, detach it and react.
lose(k, g, code) ==
    IF g \in k.closing THEN k
    ELSE LET q == [closeGuard(k, g) EXCEPT !.active_ = IF @ = g THEN NoGuard ELSE @,
                                           !.pending_ = IF @ = g THEN NoGuard ELSE @]
         IN  IF g = k.active_ THEN protectionLost(q, code)
             ELSE IF g = k.pending_ THEN armFailed(q, code) ELSE q

handleLine(k, g, line) ==
    IF line.verb = "READY" THEN onReady(k, g) ELSE lose(k, g, line.code)

-----------------------------------------------------------------------------
(* The UI thread.  Every action is one handler run to completion.          *)

Up == gui = "up"

Event == events < MaxEvents /\ events' = events + 1

\* Bound: a handler that may spawn waits for a free slot.
SlotLeft == FreeSlots # {}

\* The handler leaves the fields k; the guard it spawned, if any, begins to launch.
Finish(k, procs) ==
    /\ ks' = k
    /\ proc' = IF k.pending_ \in FreeSlots
               THEN [procs EXCEPT ![k.pending_] = "launching"] ELSE procs

Change(on, c) ==
    /\ Up /\ ~prepare_exit
    /\ Event
    /\ kill_switch' = on /\ cfg' = c
    /\ UNCHANGED <<overridden_, prepare_exit>>

\* disableKillSwitch() and the settings registry: the change and apply() in one handler.
ChangeSettings(on, c) ==
    /\ SlotLeft
    /\ Change(on, c)
    /\ Finish(apply(ks, on, c), proc)
    /\ UNCHANGED <<out, queued, gui>>

\* A settings dialog: the change now, apply() in a task of its own.
AcceptDialog(on, c) ==
    /\ Change(on, c)
    /\ applyQueued' = TRUE
    /\ UNCHANGED <<ks, proc, out, portQueued, gui>>

RunQueuedApply ==
    /\ Up /\ SlotLeft
    /\ applyQueued
    /\ applyQueued' = FALSE
    /\ Finish(apply(ks, kill_switch, cfg), proc)
    /\ UNCHANGED <<out, settings, portQueued, gui, events>>

\* The API server moved to another port; its thread posts the re-apply.
SetApiPort(c) ==
    /\ c # cfg
    /\ Change(kill_switch, c)
    /\ portQueued' = TRUE
    /\ UNCHANGED <<ks, proc, out, applyQueued, gui>>

RunQueuedPort ==
    /\ Up /\ SlotLeft
    /\ portQueued
    /\ portQueued' = FALSE
    /\ IF \/ prepare_exit
          \/ ks.state_ \notin {"Arming", "Armed"} /\ ks.active_ = NoGuard /\ ks.pending_ = NoGuard
       THEN UNCHANGED <<ks, proc>>
       ELSE Finish(apply(ks, kill_switch, cfg), proc)
    /\ UNCHANGED <<out, settings, applyQueued, gui, events>>

\* The Retry button, and onCoreStarted after a privilege failure.
Retry ==
    /\ Up /\ SlotLeft
    /\ ks.state_ = "Failed"
    /\ Event
    /\ Finish(apply(ks, kill_switch, cfg), proc)
    /\ UNCHANGED <<out, settings, queued, gui>>

RetryTimeout ==
    /\ Up /\ SlotLeft
    /\ ks.retry
    /\ LET k == [ks EXCEPT !.retry = FALSE]
       IN  Finish(IF k.shutdown_ \/ k.pending_ # NoGuard \/ k.active_ = NoGuard \/ prepare_exit
                  THEN k ELSE apply(k, kill_switch, cfg), proc)
    /\ UNCHANGED <<out, settings, queued, gui, events>>

RespawnIntervalExpired ==
    /\ Up
    /\ ks.respawned
    /\ ks' = [ks EXCEPT !.respawned = FALSE]
    /\ UNCHANGED <<proc, out, settings, queued, gui, events>>

\* A core exited with kCoreIdentityExitCode.  It was launched while the setting was on, so
\* its exit notice is queued behind the apply() of the change that turned the setting on.
noteIdentityUnsupported ==
    /\ Up /\ SlotLeft
    /\ ~applyQueued
    /\ Event
    /\ Finish(apply([ks EXCEPT !.identityUnsupported_ = TRUE], kill_switch, cfg), proc)
    /\ UNCHANGED <<out, settings, queued, gui>>

\* A start deferred until the state leaves Arming; otherwise its callback runs at once.
whenSettled ==
    /\ Up
    /\ ks.state_ = "Arming"
    /\ ks' = [ks EXCEPT !.waiters = @ \cup {"settled"}]
    /\ UNCHANGED <<proc, out, settings, queued, gui, events>>

\* Windows: the extra core's path joins the configuration, and the worker thread waits
\* until no guard is pending (or gives up after 15 s, which leaves the waiter in place).
permitExtraCore(c) ==
    /\ SlotLeft
    /\ ks.state_ # "Disabled"
    /\ Change(kill_switch, c)
    /\ LET k == apply(ks, kill_switch, c)
       IN  Finish([k EXCEPT !.waiters = IF k.pending_ # NoGuard THEN @ \cup {"idle"} ELSE @], proc)
    /\ UNCHANGED <<out, queued, gui>>

\* QProcess::started: the configuration is written unless the guard was closed meanwhile.
Started(g) ==
    /\ Up
    /\ proc[g] = "launching"
    /\ proc' = [proc EXCEPT ![g] = IF g \in ks.closing THEN "starved" ELSE "configured"]
    /\ UNCHANGED <<ks, out, settings, queued, gui, events>>

onStartFailed(g) ==
    /\ Up
    /\ g = ks.active_ => SlotLeft
    /\ proc[g] = "launching"
    /\ Event
    /\ Finish(deleteLater(lose(ks, g, "internal"), g), [proc EXCEPT ![g] = "free"])
    /\ UNCHANGED <<out, settings, queued, gui>>

\* One line of output, or the exit notice, after which the GuardProcess is deleted.
onOutput(g) ==
    /\ Up
    /\ g = ks.active_ => SlotLeft
    /\ out[g] # <<>>
    /\ out' = [out EXCEPT ![g] = Tail(@)]
    /\ LET k == handleLine(ks, g, Head(out[g]))
       IN  IF Head(out[g]) = Exit
           THEN Finish(deleteLater(k, g), [proc EXCEPT ![g] = "free"])
           ELSE Finish(k, proc)
    /\ UNCHANGED <<settings, queued, gui, events>>

\* kReadyTimeoutMs passed without READY: the guard is let go and killed.
onReadyTimeout(g) ==
    /\ Up
    /\ g = ks.pending_
    /\ Finish(lose(ks, g, "internal"), proc)
    /\ UNCHANGED <<out, settings, queued, gui, events>>

BeginExit ==
    /\ Up /\ ~prepare_exit
    /\ prepare_exit' = TRUE
    /\ UNCHANGED <<ks, proc, out, kill_switch, cfg, overridden_, queued, gui, events>>

\* The core is gone: every guard is let go.
shutdown ==
    /\ Up
    /\ prepare_exit /\ ~ks.shutdown_
    /\ ks' = [ks EXCEPT !.shutdown_ = TRUE, !.waiters = {}, !.active_ = NoGuard, !.pending_ = NoGuard,
                        !.closing = @ \cup {g \in Guards : proc[g] # "free"}]
    /\ UNCHANGED <<proc, out, settings, queued, gui, events>>

\* The GUI process ends, after shutdown() or by a crash, and its memory with it.
GuiGone ==
    /\ Up
    /\ gui' = "gone"
    /\ ks' = NewKillSwitch
    /\ applyQueued' = FALSE /\ portQueued' = FALSE
    /\ UNCHANGED <<proc, out, settings, events>>

-----------------------------------------------------------------------------
(* The guard process, guard.Run.                                           *)

\* Mutation: the guard outlives a GUI that died without closing its pipe.
MutOrphanStays(g) == g \in ks.closing

\* The guard's input is at its end: the GUI closed it, or is gone (or watchParent saw it).
InputClosed(g) == g \in ks.closing \/ gui = "gone"

\* The guard prints the lines and moves to state s; an exit is noticed after them.
Report(g, lines, s) ==
    /\ proc' = [proc EXCEPT ![g] = s]
    /\ out' = [out EXCEPT ![g] = @ \o lines]
    /\ UNCHANGED <<ks, settings, queued, gui>>

\* What a guard does of itself is no event from outside.
NoEvent == UNCHANGED events

ErrorLine(code) == [verb |-> "ERROR", code |-> code]
FailLine(code) == [verb |-> "FAIL", code |-> code]

\* readConfig: the end of the input, or no configuration within 10 s.
ReadConfigFails(g) ==
    /\ proc[g] \in {"launching", "starved"}
    /\ IF InputClosed(g) THEN NoEvent ELSE Event
    /\ Report(g, <<ErrorLine("privilege"), Exit>>, "exited")

\* Arm returns once the whole ruleset is enforced.
ArmSucceeds(g) ==
    /\ proc[g] = "configured"
    /\ NoEvent
    /\ Report(g, <<Ready>>, "enforcing")

\* parseConfig, newBackend or Arm fails; Disarm leaves nothing installed.
ArmFails(g, code) ==
    /\ proc[g] = "configured"
    /\ Event
    /\ Report(g, <<ErrorLine(code), Exit>>, "exited")

\* Another program removes the rules; the backend's watcher notices later.
RulesRemoved(g) ==
    /\ proc[g] = "enforcing"
    /\ Event
    /\ Report(g, <<>>, "breached")

\* A fatal event of the backend, the watcher's or a panic's: FAIL is printed before Disarm.
FatalEvent(g) ==
    /\ proc[g] \in {"enforcing", "breached"}
    /\ IF proc[g] = "breached" THEN NoEvent ELSE Event
    /\ Report(g, <<FailLine("internal")>>, "failing")

FatalExit(g) ==
    /\ proc[g] = "failing"
    /\ NoEvent
    /\ Report(g, <<Exit>>, "exited")

\* The reader sees the end of the input, or a signal arrives: Disarm and exit.
DisarmAndExit(g) ==
    /\ proc[g] \in {"enforcing", "breached"}
    /\ InputClosed(g)
    /\ NoEvent
    /\ Report(g, <<Exit>>, "exited")

\* The guard dies: killed from outside, or a panic.  Its rules go with it (Linux: the
\* table's owner socket closes; Windows: the WFP session is dynamic).
Die(g) ==
    /\ proc[g] \in Live
    /\ Event
    /\ Report(g, <<Exit>>, "exited")

\* kCloseGraceMs after closeGuard, or in shutdown(): the GUI kills a guard that stays.
stopHard(g) ==
    /\ Up
    /\ g \in ks.closing
    /\ proc[g] \in Live
    /\ NoEvent
    /\ Report(g, <<Exit>>, "exited")

-----------------------------------------------------------------------------
UserStep ==
    \/ \E on \in BOOLEAN, c \in Configs : ChangeSettings(on, c) \/ AcceptDialog(on, c)
    \/ \E c \in Configs : SetApiPort(c) \/ permitExtraCore(c)
    \/ Retry \/ whenSettled \/ noteIdentityUnsupported
    \/ BeginExit \/ shutdown \/ GuiGone

UiStep ==
    \/ RunQueuedApply \/ RunQueuedPort \/ RetryTimeout \/ RespawnIntervalExpired
    \/ \E g \in Guards : Started(g) \/ onStartFailed(g) \/ onOutput(g) \/ onReadyTimeout(g)

GuardStep ==
    \E g \in Guards :
        \/ ReadConfigFails(g) \/ ArmSucceeds(g) \/ RulesRemoved(g) \/ FatalEvent(g) \/ FatalExit(g)
        \/ DisarmAndExit(g) \/ Die(g) \/ stopHard(g)
        \/ \E code \in GuardCodes : ArmFails(g, code)

Next == UserStep \/ UiStep \/ GuardStep

\* The event loop serves its queue, and each guard's pipe and timer; a guard whose input has
\* ended reads that end, and arming returns.
Fairness ==
    /\ WF_vars(RunQueuedApply) /\ WF_vars(RunQueuedPort)
    /\ \A g \in Guards :
         /\ WF_vars(onOutput(g))
         /\ WF_vars(onReadyTimeout(g) \/ stopHard(g))
         /\ WF_vars((InputClosed(g) /\ ReadConfigFails(g)) \/ ArmSucceeds(g) \/ DisarmAndExit(g) \/ FatalExit(g))

Spec == Init /\ [][Next]_vars /\ Fairness

-----------------------------------------------------------------------------
(* What the kill switch promises.                                          *)

Running == Up /\ ~ks.shutdown_

allowsStart == ks.state_ \in {"Disabled", "Armed"}

\* The GUI has yet to read that g failed or is gone.
LossUnread(g) == \E i \in DOMAIN out[g] : out[g][i].verb # "READY"

Enforced(g) == proc[g] = "enforcing"

\* g's rules are installed, or their loss is on its way to the GUI.
EnforcedOrReporting(g) == Enforced(g) \/ proc[g] = "breached" \/ LossUnread(g)

\* While the GUI shows Armed, and so lets profiles start, the active guard's rules are
\* installed; at most their loss has not been noticed or read yet.  (handleLine, onReady
\* and closeGuard, against a guard's late READY, FAIL and exit.)
ArmedIsEnforced ==
    Running /\ ks.state_ = "Armed" =>
        ks.active_ # NoGuard /\ ks.active_ \notin ks.closing /\ EnforcedOrReporting(ks.active_)

\* Arming is shown only while a guard is on its way and none is in force: the state
\* always has a timer or a process that will end it.
ArmingHasPending ==
    Running /\ ks.state_ = "Arming" => ks.pending_ # NoGuard /\ ks.active_ = NoGuard

\* A guard the GUI no longer counts on has had its input closed, so no forgotten process
\* keeps the machine blocked.  (spawn, onReady, apply, handleLine.)
NoStrayGuard ==
    Running => \A g \in Guards : proc[g] \in Live => g \in {ks.active_, ks.pending_} \cup ks.closing

\* Fail closed: once the setting is on and applied, a profile starts only behind an armed
\* guard, whatever fails and whichever guard is replaced.  (allowsStart.)
StartsOnlyArmed ==
    Running /\ kill_switch /\ ~applyQueued /\ allowsStart => ks.state_ = "Armed"

\* "sticky until kill_switch is turned off": a core that could not join the guard's group
\* keeps profiles refused, also when a later guard becomes ready.  (onReady, spawn.)
IdentityRefusesStarts ==
    Running /\ ks.identityUnsupported_ => ~allowsStart

\* The kill switch fails closed: a start that is allowed is behind an armed guard, and never
\* one the guard would not recognise.  (allowsStart, after any sequence of handlers.)
FailsClosed == StartsOnlyArmed /\ IdentityRefusesStarts

\* No callback of whenSettled or whenIdle is left behind: one that still waits waits for
\* something that will come.  (settle at the end of every resolving handler.)
WaitersHaveReason ==
    /\ "settled" \in ks.waiters => ks.state_ = "Arming"
    /\ "idle" \in ks.waiters => ks.pending_ # NoGuard

\* Make before break: with the setting on, the GUI lets go of a guard whose rules are
\* installed only when its replacement has reported READY.
ReplacedOnlyByReady ==
    [][\A g \in Guards :
         /\ g = ks.active_ /\ Enforced(g) /\ ~LossUnread(g) /\ g \in ks'.closing
         /\ kill_switch' /\ ~overridden_ /\ ~ks'.shutdown_
         => \E h \in Guards \ {g} : h = ks'.active_ /\ EnforcedOrReporting(h)']_vars

\* Arming ends: a guard becomes ready, fails or is timed out.
ArmingSettles == ks.state_ = "Arming" ~> (ks.state_ # "Arming" \/ ~Running)

\* A guard that was let go, or whose GUI is gone, takes its rules with it.
ClosedGuardLeaves ==
    \A g \in Guards : InputClosed(g) /\ proc[g] \in Live ~> proc[g] \notin Live

-----------------------------------------------------------------------------
(* The inductive invariant behind the theorems of KillSwitchProofs.        *)

\* How the state, the guards and the waiters fit together between two handlers.
Coherent(k) ==
    /\ k.shutdown_ => k.active_ = NoGuard /\ k.pending_ = NoGuard
    /\ ~k.shutdown_ =>
         /\ k.state_ = "Arming" => k.pending_ # NoGuard /\ k.active_ = NoGuard
         /\ k.state_ = "Armed" => k.active_ # NoGuard
         /\ k.state_ = "Disabled" => k.active_ = NoGuard /\ k.pending_ = NoGuard
    /\ "settled" \in k.waiters => k.state_ = "Arming"
    /\ "idle" \in k.waiters => k.pending_ # NoGuard

\* A core that could not join the guard's group keeps the switch from allowing starts.
Refusing(k) == ~k.shutdown_ /\ k.identityUnsupported_ => k.state_ \in {"Arming", "Failed"}

\* Which slots hold a guard, and in which role.
Slots(k) ==
    /\ k.active_ # NoGuard => k.active_ \notin FreeSlots \cup k.closing \cup {k.pending_}
    /\ k.pending_ # NoGuard => k.pending_ \notin k.closing
    /\ k.closing \cap FreeSlots = {}
    /\ Guards \ FreeSlots \subseteq {k.active_, k.pending_} \cup k.closing

\* A guard that does not run yet has no output, and its exit is the last thing read of it.
OutputEnds ==
    \A g \in Guards :
        /\ proc[g] \in {"free", "launching"} => out[g] = <<>>
        /\ \A i \in DOMAIN out[g] : out[g][i] = Exit => i = Len(out[g]) /\ proc[g] = "exited"

\* Every state of the program satisfies this and OutputEnds, and every step keeps both.
IndInv ==
    /\ TypeOK
    /\ Coherent(ks) /\ Refusing(ks)
    /\ Up => Slots(ks)
    /\ ks.pending_ \notin FreeSlots
    /\ Running /\ kill_switch /\ ~applyQueued => ks.state_ # "Disabled"
=============================================================================
