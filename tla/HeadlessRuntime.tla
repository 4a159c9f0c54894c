--------------------------- MODULE HeadlessRuntime ---------------------------
(***************************************************************************)
(* The life of the windowless program across its own crashes, and the      *)
(* record it keeps on disk so that a profile which brings it down at every *)
(* boot is not resumed for ever: src/engine/headless/ResumeGuard.cpp, the  *)
(* handlers of HeadlessRuntime.cpp and the end of HeadlessMain.cpp.        *)
(*                                                                         *)
(* One process after another runs on the same record.  A process may be    *)
(* killed between any two steps; every save() replaces the file as a whole *)
(* (QSaveFile).  The core and the connection manager, which have modules   *)
(* of their own, are here only the order of their signals.  A timer may    *)
(* fire at any moment after it was started.  Not modelled: a save that     *)
(* fails and a record that is edited or corrupted by hand.                 *)
(***************************************************************************)
EXTENDS Integers, FiniteSets

CONSTANTS Profiles,           \* the ids a start may name
          NoProfile,          \* -1
          StrikesToSuppress,  \* kStrikesToSuppress
          BootsToStayUp       \* kUnstableBootsToStayUp, also the model's bound on the streak

ASSUME HeadlessAssumption == /\ NoProfile \notin Profiles
                             /\ StrikesToSuppress \in Nat \ {0}
                             /\ BootsToStayUp \in Nat \ {0}

VARIABLES
  disk,        \* headless-state.json
  g,           \* the guard's fields in memory, of the same shape
  suppressed,  \* m_suppressed
  remember,    \* remember_id, in the database
  life,        \* how far the process is
  exit,        \* m_exitCode
  override,    \* m_stopOverride
  phase,       \* m_bootPhase
  bootId,      \* m_bootProfileId
  retryId,     \* m_retryResumeId
  request,     \* the boot start waits in m_coreStartRequest
  core,        \* "down", "up", "gaveUp"; "dead" and "failed": exited, not reported yet, after
               \* coreStarted and before it
  want,        \* the supervisor's m_startWhenUp
  start,       \* the dispatched start: its profile and whether it is the boot's
  run,         \* the running profile
  started,     \* started_id
  crashed,     \* the supervisor's m_profileCrashTimer runs and its window is not over
  stable,      \* the stable timer runs
  retrying,    \* the core retry timer runs
  bootTimer,   \* the survival check of the boot start: its profile
  runTimer,    \* the survival check of the current generation: its profile
  returned,    \* how the last process ended: the way it went and the code it returned
  row,         \* history: the profile the last boot that may resume was about
  harm,        \* history: boots in that row that its resume brought down for certain
  blame,       \* history: boots in that row that may have been its fault
  counted,     \* history: what this life has already added to them
  giveUps      \* history: exits 70 and 71 in a row of lives without a stable core

durable == <<disk, remember>>
boot    == <<phase, bootId, retryId, request>>
conn    == <<core, want, start, run, started, crashed>>
timers  == <<stable, retrying, bootTimer, runTimer>>
ghosts  == <<row, harm, blame, counted, giveUps>>
vars    == <<durable, g, suppressed, life, exit, override, boot, conn, timers, returned, ghosts>>

Maybe(S) == S \cup {NoProfile}
NoStart  == [profile |-> NoProfile, boot |-> FALSE]
Codes    == {"ok", "fatal", "gaveUp", "stuck", "restart"}
Least(a, b) == IF a < b THEN a ELSE b

(* What the guard saves: the resume record, the boot streak and last_exit. *)
Records == [profile  : Maybe(Profiles), strikes : 0 .. StrikesToSuppress, armed : BOOLEAN,
            open     : BOOLEAN, unstable : 0 .. BootsToStayUp, exit : Codes \cup {"none"}]
Fresh   == [profile  |-> NoProfile, strikes |-> 0, armed |-> FALSE,
            open     |-> FALSE, unstable |-> 0, exit |-> "none"]

Save(r)     == g' = r /\ disk' = r
StayUp      == g.unstable >= BootsToStayUp
Exiting     == life \in {"teardown", "after", "quitting", "quit"}
Terminating == exit # "none" \/ Exiting
ExitCode    == IF override THEN "ok" ELSE exit
Ended(way, code) == [way |-> way, code |-> code]

(* Once the engine is shut down no signal of it and no timer comes any more. *)
Silent == /\ phase' = "none" /\ bootId' = NoProfile /\ retryId' = NoProfile /\ request' = FALSE
          /\ core' = "down" /\ want' = NoProfile /\ start' = NoStart /\ run' = NoProfile
          /\ started' = NoProfile /\ crashed' = FALSE /\ stable' = FALSE /\ retrying' = FALSE
          /\ bootTimer' = NoProfile /\ runTimer' = NoProfile
          /\ suppressed' = FALSE /\ counted' = {}

(* A process that ends leaves the record and nothing else. *)
Gone == life' = "off" /\ g' = disk /\ exit' = "none" /\ override' = FALSE /\ Silent

Init == /\ disk = Fresh /\ g = Fresh /\ suppressed = FALSE
        /\ remember \in Maybe(Profiles)
        /\ life = "off" /\ exit = "none" /\ override = FALSE /\ returned = Ended("none", "none")
        /\ phase = "none" /\ bootId = NoProfile /\ retryId = NoProfile /\ request = FALSE
        /\ core = "down" /\ want = NoProfile /\ start = NoStart /\ run = NoProfile
        /\ started = NoProfile /\ crashed = FALSE /\ stable = FALSE /\ retrying = FALSE
        /\ bootTimer = NoProfile /\ runTimer = NoProfile
        /\ row = NoProfile /\ harm = 0 /\ blame = 0
        /\ counted = {} /\ giveUps = 0

-----------------------------------------------------------------------------
(* History.  The boot's profile is surely to blame when its start is being *)
(* carried out or its run has not passed the survival check yet, and may   *)
(* be to blame as long as this life dispatched its start.  The trial is     *)
(* over once that run survived, was stopped or lost its core.               *)

OnTrial == /\ "over" \notin counted
           /\ phase = "armed" \/ (bootTimer # NoProfile /\ run = bootTimer /\ start = NoStart)
Dispatched == bootId # NoProfile /\ (phase = "armed" \/ "dispatched" \in counted)

Count(h) == Least(h + 1, StrikesToSuppress + 1)
Harm(certain) ==
    /\ harm'  = IF certain /\ "harm" \notin counted THEN Count(harm) ELSE harm
    /\ blame' = IF Dispatched /\ "blame" \notin counted THEN Count(blame) ELSE blame
Hurt(certain) ==
    /\ Harm(certain)
    /\ counted' = counted \cup (IF certain THEN {"harm", "over"} ELSE {})
                          \cup (IF Dispatched THEN {"blame"} ELSE {})

-----------------------------------------------------------------------------
(* Boot. *)

(* The constructor reads the record and consumes the last exit. *)
Load ==
    /\ life = "off"
    /\ life' = "loaded"
    /\ Save([disk EXCEPT !.exit = "none"])
    /\ returned' = Ended("none", "none")
    /\ UNCHANGED <<suppressed, remember, exit, override, boot, conn, timers, ghosts>>

MutStreakOfArmed(r) == IF r.open /\ r.armed THEN Least(r.unstable + 1, BootsToStayUp) ELSE r.unstable \* mutant: a boot that dispatched nothing is not counted
Streak(r) == IF r.open THEN Least(r.unstable + 1, BootsToStayUp) ELSE r.unstable

MutStrikeKeepsArm(r) == [r EXCEPT !.strikes = Least(@ + 1, StrikesToSuppress)] \* mutant: a strike leaves the record armed
(* A strike also disarms, so that one crash is one strike. *)
Strike(r) == [r EXCEPT !.strikes = Least(@ + 1, StrikesToSuppress), !.armed = FALSE]
Disarm(r) == [r EXCEPT !.armed = FALSE]

Arm(r, p)  == [r EXCEPT !.profile = p, !.strikes = IF p = r.profile THEN @ ELSE 0, !.armed = TRUE]
Survived(r)   == [r EXCEPT !.strikes = 0, !.armed = FALSE]
MarkStable(r) == [r EXCEPT !.open = FALSE, !.unstable = 0]

(* bootStart() calls settlePrevious() first. *)
settlePrevious ==
    /\ life = "loaded"
    /\ life' = "settled"
    /\ LET r == [g EXCEPT !.unstable = Streak(g), !.open = TRUE]
       IN  Save(IF g.armed THEN Strike(r) ELSE r)
    /\ UNCHANGED <<suppressed, remember, exit, override, boot, conn, timers, returned, ghosts>>

MutDecideAnyway(p) == p # g.profile \/ g.strikes <= StrikesToSuppress \* mutant: > for >=
MayResume(p) == p # g.profile \/ g.strikes < StrikesToSuppress

(* A new candidate starts a record of its own, saved if there was one. *)
NewRecord(c) ==
    /\ g' = [g EXCEPT !.profile = c, !.strikes = 0, !.armed = FALSE]
    /\ disk' = IF g.profile # NoProfile THEN g' ELSE disk

(* ... then decide() on the remembered profile; candidate is NoProfile when *)
(* resuming is off or the profile is gone.  The row of another profile ends. *)
decide ==
    /\ life = "settled"
    /\ life' = "starting"
    /\ \E candidate \in {remember, NoProfile} :
         LET resume == candidate # NoProfile /\ MayResume(candidate)
             other  == candidate # NoProfile /\ candidate # g.profile
         IN  /\ suppressed' = (candidate # NoProfile /\ ~resume)
             /\ IF other THEN NewRecord(candidate) ELSE UNCHANGED <<g, disk>>
             /\ IF candidate \in {NoProfile, row} THEN UNCHANGED <<row, harm, blame>>
                                                ELSE row' = candidate /\ harm' = 0 /\ blame' = 0
             /\ bootId' = IF resume THEN candidate ELSE NoProfile
             /\ phase' = IF resume THEN "waiting" ELSE "done"
             /\ request' = resume
             /\ want' = bootId'
    /\ UNCHANGED <<crashed, remember, exit, override, retryId, core, start, run, started, timers, returned,
                   counted, giveUps>>

(* beforeExec()'s posted call: from here on a recorded exit is carried out. *)
ExecRuns ==
    /\ life = "starting"
    /\ life' = "exec"
    /\ UNCHANGED <<durable, g, suppressed, exit, override, boot, conn, timers, returned, ghosts>>

-----------------------------------------------------------------------------
(* The core and the starts it carries. *)

Serving == life = "exec"
Alive   == life \in {"exec", "teardown", "quitting"}

(* The core connects: the stable timer is started anew. *)
CoreConnects ==
    /\ Serving /\ core = "down"
    /\ core' = "up" /\ stable' = TRUE
    /\ UNCHANGED <<crashed, durable, g, suppressed, life, exit, override, boot, want, start, run, started,
                   retrying, bootTimer, runTimer, returned, ghosts>>

Arms(p) == p = bootId /\ phase = "waiting"

(* arm(): a start of the boot is marked on disk before its config is built. *)
Dispatch(p, isBoot) ==
    /\ start' = [profile |-> p, boot |-> isBoot]
    /\ retryId' = NoProfile /\ runTimer' = NoProfile
    /\ IF isBoot /\ Arms(p)
       THEN /\ phase' = "armed" /\ counted' = counted \cup {"dispatched"}
            /\ Save(Arm(g, p))
       ELSE UNCHANGED <<phase, counted, g, disk>>

(* coreStarted: the start that waited for the core is dispatched, or held   *)
(* because Tun could not be restored; a boot start nobody waits for any     *)
(* more is reported superseded.                                             *)
CoreStarted ==
    /\ Serving /\ core = "up" /\ start = NoStart /\ (want # NoProfile \/ request)
    /\ want' = NoProfile /\ request' = FALSE
    /\ \/ /\ want # NoProfile
          /\ Dispatch(want, request)
       \/ /\ request
          /\ phase' = IF Terminating THEN phase ELSE "done"
          /\ UNCHANGED <<start, retryId, runTimer, counted, g, disk>>
    /\ UNCHANGED <<crashed, remember, suppressed, life, exit, override, bootId, core, run, started, stable,
                   retrying, bootTimer, returned, harm, blame, giveUps, row>>

(* A start asked for over the API; without a core, or with one that has not *)
(* sent coreStarted yet, it waits in the place of the boot start.           *)
ApiStart(p) ==
    /\ Serving /\ start = NoStart
    /\ \/ /\ core = "up" /\ want = NoProfile /\ ~request
          /\ Dispatch(p, FALSE)
          /\ UNCHANGED <<want, request>>
          /\ UNCHANGED core
       \/ /\ core # "up" \/ want # NoProfile \/ request
          /\ want' = p /\ request' = FALSE
          /\ core' = IF core = "gaveUp" THEN "down" ELSE core
          /\ phase' = IF request /\ ~Terminating THEN "done" ELSE phase
          /\ UNCHANGED <<start, retryId, runTimer, counted, g, disk>>
    /\ UNCHANGED <<remember, suppressed, life, exit, override, bootId, run, started, crashed, stable,
                   retrying, bootTimer, returned, harm, blame, giveUps, row>>

(* A manual stop, also the one a switch starts with: nothing is remembered. *)
StopRun ==
    /\ Serving /\ run # NoProfile
    /\ run' = NoProfile /\ started' = NoProfile /\ remember' = NoProfile /\ runTimer' = NoProfile
    /\ counted' = IF phase = "done" THEN counted \cup {"over"} ELSE counted
    /\ UNCHANGED <<crashed, disk, g, suppressed, life, exit, override, boot, core, want, start, stable, retrying,
                   bootTimer, returned, harm, blame, giveUps, row>>

(* A stop with nothing running cancels the resume (resumeCancelled). *)
CancelResume ==
    /\ Serving /\ run = NoProfile
    /\ want' = NoProfile /\ started' = NoProfile /\ retryId' = NoProfile
    /\ UNCHANGED <<crashed, durable, g, suppressed, life, exit, override, phase, bootId, request, core, start,
                   run, timers, returned, ghosts>>

(* startFinished(Started): another profile than the record's lifts the      *)
(* suppression; the boot start gets its survival check.                     *)
Started ==
    /\ Alive /\ core = "up" /\ start # NoStart /\ run = NoProfile
    /\ LET p == start.profile
       IN  /\ run' = p /\ started' = p
           /\ remember' = IF life = "exec" THEN p ELSE remember
           /\ runTimer' = p
           /\ suppressed' = (suppressed /\ p = g.profile)
           /\ bootTimer' = IF start.boot /\ phase = "armed" /\ ~Terminating THEN p ELSE bootTimer
    /\ phase' = IF start.boot /\ ~Terminating THEN "done" ELSE phase
    /\ start' = NoStart /\ retryId' = NoProfile
    /\ UNCHANGED <<crashed, disk, g, life, exit, override, bootId, request, core, want, stable, retrying, returned,
                   ghosts>>

(* Any other outcome.  The boot start that ended because the core died is   *)
(* a strike, any other one is not; the exit report comes after it and is    *)
(* not counted again.                                                       *)
StartFailed ==
    /\ Alive /\ start # NoStart
    /\ IF start.boot /\ ~Terminating
       THEN /\ phase' = "done"
            /\ IF phase = "armed" /\ g.armed
               THEN Save(IF core # "up" THEN Strike(g) ELSE Disarm(g))
               ELSE UNCHANGED <<g, disk>>
            /\ IF core # "up" THEN Hurt(OnTrial) ELSE UNCHANGED <<harm, blame, counted>>
       ELSE UNCHANGED <<phase, g, disk, harm, blame, counted>>
    /\ start' = NoStart
    /\ UNCHANGED <<crashed, remember, suppressed, life, exit, override, bootId, retryId, request, core, want, run,
                   started, timers, returned, giveUps, row>>

-----------------------------------------------------------------------------
(* The end of a core. *)

(* The core process dies; the program learns of it later.  A start that     *)
(* still waits shows that the core had not sent coreStarted.                *)
CoreDies ==
    /\ Alive /\ core \in {"up", "down"} /\ (core = "down" => Serving)
    /\ core' = IF core = "down" \/ want # NoProfile \/ request THEN "failed" ELSE "dead"
    /\ IF core = "up" THEN Hurt(FALSE) ELSE UNCHANGED <<harm, blame, counted>>
    /\ UNCHANGED <<crashed, durable, g, suppressed, life, exit, override, boot, want, start, run, started,
                   timers, returned, giveUps, row>>

Blamed(id) == phase = "armed" \/ (bootId # NoProfile /\ id = bootId)

(* terminate(): the first exit wins, a stop turns a restart into a stop even *)
(* when the teardown has written the restart down, and a shutdown that no    *)
(* recorded exit began takes no exit any more.                               *)
MutTerminateQuietly(code) == \* mutant: the stop that overtakes a restart is not written down
    IF exit = "none"
    THEN ~Exiting /\ exit' = code /\ UNCHANGED <<override, g, disk>>
    ELSE /\ code = "ok" /\ exit = "restart" /\ ~override
         /\ override' = TRUE /\ UNCHANGED <<exit, g, disk>>

Terminate(code) ==
    IF exit = "none"
    THEN ~Exiting /\ exit' = code /\ UNCHANGED <<override, g, disk>>
    ELSE /\ code = "ok" /\ exit = "restart" /\ ~override
         /\ override' = TRUE /\ UNCHANGED exit
         /\ IF life \in {"teardown", "after"} THEN Save([Disarm(g) EXCEPT !.exit = "ok"])
                                             ELSE UNCHANGED <<g, disk>>

RetryAfterGiveUp == retrying \/ (StayUp /\ ~Terminating)

(* onCoreExited: the crash stop has run, started_id kept; a second crash    *)
(* within the window gives the profile up.  Then coreExited, and either a   *)
(* restart that resumes, or coreGaveUp: the waiting start ends              *)
(* CoreUnavailable, and the program exits 70, unless it stays up and tries  *)
(* the core again later.                                                    *)
CoreExited(gaveUp, tooFrequent) ==
    /\ Serving /\ core \in {"dead", "failed"}
    /\ run' = NoProfile /\ runTimer' = NoProfile /\ stable' = FALSE
    /\ tooFrequent => crashed /\ core = "dead"
    /\ crashed' = IF core = "dead" THEN ~tooFrequent ELSE crashed
    /\ started' = IF tooFrequent \/ gaveUp THEN NoProfile ELSE started
    /\ Hurt(OnTrial)
    /\ IF g.armed THEN Save(IF Blamed(IF tooFrequent THEN NoProfile ELSE started) THEN Strike(g) ELSE Disarm(g))
                  ELSE UNCHANGED <<g, disk>>
    /\ IF ~gaveUp
       THEN /\ core' = "down"
            /\ want' = IF core = "dead" \/ want = NoProfile THEN started' ELSE want
            /\ UNCHANGED <<phase, retryId, request, exit, retrying>>
       ELSE /\ core = "failed" \/ started = NoProfile \/ tooFrequent
            /\ core' = "gaveUp" /\ want' = NoProfile /\ request' = FALSE
            /\ phase' = IF request /\ ~Terminating THEN "done" ELSE phase
            /\ retryId' = IF request /\ ~Terminating /\ phase = "waiting" THEN bootId ELSE retryId
            /\ retrying' = RetryAfterGiveUp
            /\ exit' = IF ~StayUp /\ exit = "none" THEN "gaveUp" ELSE exit
    /\ UNCHANGED <<remember, suppressed, life, override, bootId, start, bootTimer, returned, giveUps, row>>

(* The retry timer: the core once more, with the boot start when a give-up  *)
(* ended it before it was dispatched.  It and the watchdog wait longer than *)
(* the crash window.                                                        *)
CoreRetry ==
    /\ Serving /\ retrying /\ core = "gaveUp" /\ ~Terminating
    /\ core' = "down" /\ crashed' = FALSE
    /\ IF retryId # NoProfile
       THEN request' = TRUE /\ phase' = "waiting" /\ want' = retryId
       ELSE UNCHANGED <<request, phase, want>>
    /\ UNCHANGED <<durable, g, suppressed, life, exit, override, bootId, retryId, start, run, started,
                   timers, returned, ghosts>>

(* The watchdog: a start or a stop that is stuck ends the program with 71,  *)
(* a core that is not usable with 70; in stay-up mode the core is reset     *)
(* instead.  Its limits are longer than the survival check's, which has     *)
(* therefore fired.                                                         *)
Watchdog ==
    /\ Serving /\ ~Terminating /\ bootTimer = NoProfile
    /\ \E code \in (IF start # NoStart \/ run # NoProfile THEN {"stuck"} ELSE {}) \cup (IF core # "up" THEN {"gaveUp"} ELSE {}) :
         IF ~StayUp
         THEN exit' = code /\ UNCHANGED <<crashed, core, run, started, want, runTimer, stable, harm, blame, counted>>
         ELSE /\ core' = "down" /\ crashed' = FALSE /\ run' = NoProfile /\ started' = NoProfile /\ want' = NoProfile
              /\ runTimer' = NoProfile /\ stable' = FALSE
              /\ Hurt(FALSE)
              /\ UNCHANGED exit
    /\ UNCHANGED <<durable, g, suppressed, life, override, boot, start, retrying, bootTimer, returned,
                   giveUps, row>>

-----------------------------------------------------------------------------
(* Timers. *)

(* survived() and liftSuppression(), for the profile that ran long enough. *)
NoteSurvived(p) ==
    /\ IF p = g.profile THEN Save(Survived(g)) ELSE UNCHANGED <<g, disk>>
    /\ suppressed' = FALSE
    /\ IF p = row THEN harm' = 0 /\ blame' = 0 ELSE UNCHANGED <<harm, blame>>
    /\ counted' = IF p = bootId THEN counted \cup {"over"} ELSE counted

BootSurvival ==
    /\ Alive /\ bootTimer # NoProfile
    /\ bootTimer' = NoProfile
    /\ IF g.armed /\ run = bootTimer /\ start = NoStart
       THEN NoteSurvived(bootTimer)
       ELSE /\ IF g.armed THEN Save(Disarm(g)) ELSE UNCHANGED <<g, disk>>
            /\ UNCHANGED <<suppressed, harm, blame, counted>>
    /\ UNCHANGED <<remember, life, exit, override, boot, conn, stable, retrying, runTimer, returned,
                   giveUps, row>>

RunSurvival ==
    /\ Alive /\ runTimer # NoProfile
    /\ runTimer' = NoProfile
    /\ NoteSurvived(runTimer)
    /\ UNCHANGED <<remember, life, exit, override, boot, conn, stable, retrying, bootTimer, returned,
                   giveUps, row>>

(* markStable(): the streak of boots ends, and so does stay-up mode. *)
CoreStable ==
    /\ Serving \/ life = "quitting"
    /\ stable /\ core \in {"up", "dead", "failed"}
    /\ stable' = FALSE
    /\ Save(MarkStable(g))
    /\ retrying' = (retrying /\ ~StayUp)
    /\ giveUps' = 0
    /\ UNCHANGED <<remember, suppressed, life, exit, override, boot, conn, bootTimer, runTimer, returned,
                   harm, blame, counted, row>>

-----------------------------------------------------------------------------
(* The end of the process. *)

(* A signal, the API or the bind retry asks for an exit. *)
AskExit(code) ==
    /\ life = "starting" \/ Serving \/ Exiting
    /\ Terminate(code)
    /\ UNCHANGED <<remember, suppressed, life, boot, conn, timers, returned, ghosts>>

KeepsArm(code) == code \in {"gaveUp", "stuck"}
NoteExit(r, code) == [IF KeepsArm(code) THEN r ELSE Disarm(r) EXCEPT !.exit = code]

(* No core comes up any more for a start that waits for one. *)
NoneWaits == request' = FALSE /\ want' = NoProfile /\ retryId' = NoProfile /\ crashed' = FALSE

(* runTerminate(): the exit is written down, then the teardown runs. *)
runTerminate ==
    /\ life = "exec" /\ exit # "none"
    /\ life' = "teardown"
    /\ Save(NoteExit(g, ExitCode))
    /\ stable' = FALSE /\ retrying' = FALSE
    /\ IF KeepsArm(ExitCode) THEN Hurt(OnTrial) ELSE UNCHANGED <<harm, blame, counted>>
    /\ giveUps' = IF KeepsArm(ExitCode) /\ g.open THEN giveUps + 1 ELSE giveUps
    /\ NoneWaits
    /\ UNCHANGED <<remember, suppressed, exit, override, phase, bootId, core, start, run, started,
                   bootTimer, runTimer, returned, row>>

(* A stray quit(): the loop ends without a shutdown, or before the queued    *)
(* runTerminate(), which then finds one running.  The teardown runs all the  *)
(* same, nothing is written down and the record stays as armed as it was.    *)
(* The handler of the retry timer does nothing from here on.                 *)
StrayQuit ==
    /\ life = "exec"
    /\ life' = "quitting"
    /\ retrying' = FALSE
    /\ Hurt(KeepsArm(ExitCode) /\ OnTrial)
    /\ giveUps' = IF KeepsArm(ExitCode) /\ g.open THEN giveUps + 1 ELSE giveUps
    /\ NoneWaits
    /\ UNCHANGED <<durable, g, suppressed, exit, override, phase, bootId, core, start, run, started,
                   stable, bootTimer, runTimer, returned, row>>

(* The teardown stops the run; settings are not saved any more. *)
TeardownStops ==
    /\ life \in {"teardown", "quitting"} /\ run # NoProfile
    /\ run' = NoProfile /\ runTimer' = NoProfile
    /\ UNCHANGED <<durable, g, suppressed, life, exit, override, boot, core, want, start, started, crashed,
                   stable, retrying, bootTimer, returned, ghosts>>

TeardownDone ==
    /\ life \in {"teardown", "quitting"} /\ run = NoProfile
    /\ life' = IF life = "teardown" THEN "after" ELSE "quit"
    /\ Silent
    /\ UNCHANGED <<durable, g, exit, override, returned, row, harm, blame, giveUps>>

Restarts == life \in {"after", "quit"} /\ exit = "restart" /\ ~override

(* A restart in place that cannot happen says so in last_exit. *)
ExecRefused ==
    /\ Restarts
    /\ Save(NoteExit(g, "restart"))
    /\ UNCHANGED <<remember, suppressed, life, exit, override, boot, conn, timers, returned, ghosts>>

(* The code is the recorded one; the loop's own, 0, when there is none. *)
ProcessEnds ==
    /\ life \in {"after", "quit"}
    /\ Gone
    /\ returned' = Ended(IF life = "after" THEN "decided" ELSE "quit", IF exit = "none" THEN "ok" ELSE ExitCode)
    /\ UNCHANGED <<durable, harm, blame, giveUps, row>>

(* A restart in place: execve() does not return; on Windows the successor is *)
(* started, waits for this process, and the code is 0.  (After ExecRefused   *)
(* too: the record is the same.)                                             *)
StartsAgain ==
    /\ Restarts
    /\ Gone
    /\ \E code \in {"none", "ok"} : returned' = Ended(IF life = "after" THEN "again" ELSE "quit", code)
    /\ UNCHANGED <<durable, harm, blame, giveUps, row>>

(* RunHeadless() returns before the loop runs: the API cannot be bound, or   *)
(* init() has left the core's listener ListenFailed.                         *)
EndsEarly ==
    /\ life \in {"loaded", "starting"}
    /\ Gone
    /\ returned' = Ended("early", "fatal")
    /\ UNCHANGED <<durable, harm, blame, giveUps, row>>

(* The process is killed, or the machine loses power. *)
Killed ==
    /\ life # "off"
    /\ Gone
    /\ returned' = CASE life \in {"teardown", "after"} -> Ended("decided", ExitCode)
                     [] life \in {"quitting", "quit"} -> Ended("quit", "none")
                     [] OTHER -> Ended("killed", "none")
    /\ IF life = "exec" THEN Harm(OnTrial) ELSE UNCHANGED <<harm, blame>>
    /\ UNCHANGED <<durable, giveUps, row>>

Next == \/ Load \/ settlePrevious \/ decide \/ ExecRuns
        \/ CoreConnects \/ CoreStarted \/ StopRun \/ CancelResume \/ Started \/ StartFailed
        \/ CoreDies \/ CoreRetry \/ Watchdog
        \/ BootSurvival \/ RunSurvival \/ CoreStable
        \/ runTerminate \/ StrayQuit \/ TeardownStops \/ TeardownDone \/ ExecRefused
        \/ ProcessEnds \/ StartsAgain \/ EndsEarly \/ Killed
        \/ \E p \in Profiles : ApiStart(p)
        \/ \E b, f \in BOOLEAN : CoreExited(b, f)
        \/ \E c \in {"ok", "fatal", "restart"} : AskExit(c)

Spec == Init /\ [][Next]_vars

-----------------------------------------------------------------------------
(* Every variable has its type. *)
TypeOK ==
    /\ disk \in Records /\ g \in Records
    /\ suppressed \in BOOLEAN /\ override \in BOOLEAN /\ request \in BOOLEAN /\ crashed \in BOOLEAN
    /\ remember \in Maybe(Profiles) /\ bootId \in Maybe(Profiles) /\ retryId \in Maybe(Profiles)
    /\ want \in Maybe(Profiles) /\ run \in Maybe(Profiles) /\ started \in Maybe(Profiles)
    /\ bootTimer \in Maybe(Profiles) /\ runTimer \in Maybe(Profiles)
    /\ life \in {"off", "loaded", "settled", "starting", "exec", "teardown", "after", "quitting", "quit"}
    /\ exit \in Codes \cup {"none"}
    /\ returned \in [way : {"none", "decided", "again", "early", "quit", "killed"}, code : Codes \cup {"none"}]
    /\ phase \in {"none", "waiting", "armed", "done"}
    /\ core \in {"down", "up", "dead", "failed", "gaveUp"}
    /\ start \in [profile : Maybe(Profiles), boot : BOOLEAN]
    /\ stable \in BOOLEAN /\ retrying \in BOOLEAN
    /\ row \in Maybe(Profiles) /\ harm \in Nat /\ blame \in Nat /\ giveUps \in Nat

(* No crash loop.  However a boot ends while its resumed profile is on      *)
(* trial - the core dies, the program is killed at any step, or exits 70 or *)
(* 71 - no profile is resumed after StrikesToSuppress such boots in a row.  *)
(* A stray quit() is not such an end, although it leaves the record armed.  *)
NoCrashLoop == harm <= StrikesToSuppress

(* A profile is never suppressed for what it did not do: a strike stands    *)
(* for a boot that dispatched it and was then killed, lost its core or      *)
(* exited 70 or 71, and no boot gives two, although strike(),               *)
(* settlePrevious() and the outcome of the start all see the same crash.    *)
StrikesAreEarned == g.strikes <= blame

(* Stay-up mode: at most BootsToStayUp boots in a row exit 70 or 71 without *)
(* a core that was ever stable; the next one stays reachable.               *)
GiveUpsAreBounded == giveUps <= BootsToStayUp

(* last_exit tells how the process ended.  An exit that was decided is there *)
(* with the code the process returns, also when a stop overtook a restart    *)
(* that was already written down or the restart was refused, and when the    *)
(* process is killed in its teardown; a process that started its successor   *)
(* leaves the restart, whatever it returned.  One that was killed before, or *)
(* returned before its loop ran, leaves none, not the exit before it.  After *)
(* a stray quit() there is none, or the restart that was refused.            *)
ExitIsRecorded ==
    /\ returned.way = "decided" => disk.exit = returned.code
    /\ returned.way = "again" => disk.exit = "restart"
    /\ returned.way \in {"early", "killed"} => disk.exit = "none"
    /\ returned.way = "quit" => disk.exit \in {"none", "restart"}
=============================================================================
