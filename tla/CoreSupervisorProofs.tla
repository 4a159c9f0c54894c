------------------------- MODULE CoreSupervisorProofs -------------------------
(***************************************************************************)
(* The safety properties of CoreSupervisor, for any set of profiles and    *)
(* any bounds.  The invariant follows a generation of the core through the *)
(* two threads: from the task that spawns it, over the reports DS_cores    *)
(* posts of it, to the exit the main thread acts on once.                  *)
(***************************************************************************)
EXTENDS CoreSupervisor, FiniteSetTheorems, SequenceTheorems, TLAPS

Spawns == {"Start", "Restart", "StopRestart"}

IsExit(r)  == r.call = "onCoreExited"
IsSpawn(r) == r.call = "onCoreSpawned"

(* Before start() there is neither a core nor a request. *)
Startup ==
    sup.m_state = "NotStarted" =>
        /\ tasks = <<>> /\ frame = NoFrame /\ intent = "start"
        /\ process.state = "none" /\ process.generation = 0 /\ ~process.restarting

(* The first start is the first task DS_cores runs. *)
FirstTask ==
    \A i \in DOMAIN tasks : tasks[i].op = "Start" =>
        /\ i = 1 /\ frame = NoFrame
        /\ process.state = "none" /\ process.generation = 0 /\ ~process.restarting

(* Nobody has heard of a generation that was not spawned yet. *)
Numbered ==
    /\ process.restarting => process.generation < MaxGen
    /\ sup.m_handledExitGen <= process.generation
    /\ sup.m_connectGen <= process.generation
    /\ accepting.gen <= process.generation
    /\ \A i \in DOMAIN posted : posted[i].gen <= process.generation
    /\ frame \in Report => frame.gen <= process.generation

(* The reports of started cores arrive in the order of their generations.  *)
(* (Those of exits do not: a handler that waits for a stop posts its own   *)
(* behind the reports of the tasks that run meanwhile.)                    *)
InOrder ==
    \A i \in DOMAIN posted : IsSpawn(posted[i]) =>
        /\ sup.m_connectGen <= posted[i].gen
        /\ \A j \in DOMAIN posted : i <= j /\ IsSpawn(posted[j]) => posted[i].gen <= posted[j].gen

(* A failure stands for a generation whose exit was handled. *)
Failures ==
    /\ counted \subseteq 1..sup.m_handledExitGen
    /\ sup.m_failures <= Cardinality(counted)
    /\ sup.m_failures <= sup.m_handledExitGen
    /\ sup.m_startFailures <= sup.m_handledExitGen

(* After a cancelled resume neither place a resume is taken from names a   *)
(* profile.                                                                *)
Cancelled ==
    intent = "cancel" => resumed = NoProfile /\ started_id = NoProfile /\ sup.m_startWhenUp = NoProfile

(* A core that is gone and not replaced was reported, unless its exit was  *)
(* handled already.                                                        *)
Reported ==
    /\ ~prepare_exit /\ ~process.restarting
    /\ process.state = "none" /\ sup.m_handledExitGen < process.generation
    => \/ \E i \in DOMAIN posted : IsExit(posted[i]) /\ posted[i].gen = process.generation
       \/ frame \in Report /\ frame.gen = process.generation

SpawnPending ==
    \/ process.restarting
    \/ \E i \in DOMAIN tasks : tasks[i].op \in Spawns
    \/ frame \in StopRestarts

(* A core whose exit was handled is followed by another one. *)
Followed ==
    /\ ~exiting /\ sup.m_handledExitGen = process.generation
    => /\ sup.m_state \in {"Starting", "Connected"} => SpawnPending
       /\ sup.m_state = "Backoff" => SpawnPending \/ sup.m_restartTimer

Replaces(t) == t.op = "KillGen" => t.gen = process.generation

(* The task of another generation's timeout ends nothing. *)
EndPending ==
    \/ \E i \in DOMAIN tasks : Replaces(tasks[i])
    \/ frame \in Task

SpawnPosted == \E i \in DOMAIN posted : IsSpawn(posted[i]) /\ posted[i].gen = process.generation

(* A core that has not connected is watched, or about to be replaced. *)
Watched ==
    /\ ~exiting /\ sup.m_state = "Starting"
    /\ process.state = "up" /\ sup.m_acceptedGen < process.generation
    => \/ sup.m_connectTimer /\ sup.m_connectGen = process.generation
       \/ SpawnPosted \/ EndPending

IInv == /\ TypeOK /\ frame \in StopRestarts \cup {[op |-> "Reset"], NoFrame} \cup Report
        /\ Startup /\ FirstTask /\ Numbered /\ InOrder /\ Failures /\ Cancelled
        /\ Reported /\ Followed /\ Watched

-----------------------------------------------------------------------------
(* The records and the queues. *)

\* What the fields of the supervisor are.
LEMMA SupFields ==
    ASSUME NEW s \in SupervisorFields
    PROVE  /\ s.m_state \in CoreStates /\ s.m_startWhenUp \in Profile
           /\ s.m_probing \in BOOLEAN /\ s.m_restartTimer \in BOOLEAN /\ s.m_connectTimer \in BOOLEAN
           /\ s.m_failures \in 0..MaxGen /\ s.m_startFailures \in 0..MaxGen
           /\ s.m_handledExitGen \in 0..MaxGen /\ s.m_acceptedGen \in 0..MaxGen
           /\ s.m_connectGen \in 0..MaxGen /\ s.m_timedOutGen \in 0..MaxGen
BY DEF SupervisorFields, Gens

\* beginRestart forgets the failures and the timers, and nothing of the generations.
LEMMA BeginRestartFields ==
    ASSUME NEW s \in SupervisorFields
    PROVE  /\ beginRestart(s) \in SupervisorFields
           /\ beginRestart(s).m_state = "Starting" /\ beginRestart(s).m_startWhenUp = s.m_startWhenUp
           /\ beginRestart(s).m_restartTimer = FALSE
           /\ beginRestart(s).m_failures = 0 /\ beginRestart(s).m_startFailures = 0
           /\ beginRestart(s).m_handledExitGen = s.m_handledExitGen
           /\ beginRestart(s).m_acceptedGen = s.m_acceptedGen
           /\ beginRestart(s).m_connectGen = s.m_connectGen
<1>1. 0 \in Gens /\ "Starting" \in CoreStates
  BY BoundsAssumption DEF Gens, CoreStates
<1>. QED BY <1>1 DEF beginRestart, SupervisorFields

\* A restart names the profile to resume.
LEMMA ResumeFields ==
    ASSUME NEW s \in SupervisorFields, NEW p \in Profile
    PROVE  LET r == [s EXCEPT !.m_startWhenUp = p]
           IN  /\ r \in SupervisorFields
               /\ r.m_state = s.m_state /\ r.m_startWhenUp = p /\ r.m_restartTimer = s.m_restartTimer
               /\ r.m_connectTimer = s.m_connectTimer
               /\ r.m_failures = s.m_failures /\ r.m_startFailures = s.m_startFailures
               /\ r.m_handledExitGen = s.m_handledExitGen
               /\ r.m_acceptedGen = s.m_acceptedGen /\ r.m_connectGen = s.m_connectGen
BY DEF SupervisorFields

\* postProcessRestart marks the exit of the current core as handled.
LEMMA SupersededFields ==
    ASSUME NEW s \in SupervisorFields, process \in ProcessFields
    PROVE  /\ Superseded(s) \in SupervisorFields
           /\ Superseded(s).m_state = s.m_state /\ Superseded(s).m_startWhenUp = s.m_startWhenUp
           /\ Superseded(s).m_restartTimer = s.m_restartTimer
           /\ Superseded(s).m_connectTimer = s.m_connectTimer
           /\ Superseded(s).m_failures = s.m_failures /\ Superseded(s).m_startFailures = s.m_startFailures
           /\ Superseded(s).m_handledExitGen >= s.m_handledExitGen
           /\ \/ Superseded(s).m_handledExitGen = s.m_handledExitGen
              \/ Superseded(s).m_handledExitGen = process.generation
           /\ Superseded(s).m_acceptedGen = s.m_acceptedGen
           /\ Superseded(s).m_connectGen = s.m_connectGen
<1>1. Larger(s.m_handledExitGen, process.generation) \in Gens
  BY DEF SupervisorFields, ProcessFields, Larger
<1>2. /\ Larger(s.m_handledExitGen, process.generation) >= s.m_handledExitGen
      /\ \/ Larger(s.m_handledExitGen, process.generation) = s.m_handledExitGen
         \/ Larger(s.m_handledExitGen, process.generation) = process.generation
  BY DEF SupervisorFields, ProcessFields, Larger, Gens
<1>3. Superseded(s) = [s EXCEPT !.m_handledExitGen = Larger(s.m_handledExitGen, process.generation)]
  BY DEF Superseded, currentGeneration
<1>. HIDE DEF Larger
<1>. QED BY <1>1, <1>2, <1>3 DEF SupervisorFields

(* tasks gained one, which is not the first start; or DS_cores took one. *)
Grown ==
    /\ tasks' \in Seq(Task)
    /\ \A i \in DOMAIN tasks : i \in DOMAIN tasks' /\ tasks'[i] = tasks[i]
    /\ \A i \in DOMAIN tasks' : i \in DOMAIN tasks \/ tasks'[i].op # "Start"

Taken(t) ==
    /\ tasks' \in Seq(Task)
    /\ 1 \in DOMAIN tasks /\ tasks[1] = t /\ t \in Task
    /\ \A i \in DOMAIN tasks : i = 1 \/ \E j \in DOMAIN tasks' : tasks'[j] = tasks[i]
    /\ \A j \in DOMAIN tasks' : \E i \in DOMAIN tasks : i # 1 /\ tasks'[j] = tasks[i]

LEMMA PostGrows ==
    ASSUME tasks \in Seq(Task), NEW t \in Task, t.op # "Start", tasks' = Append(tasks, t)
    PROVE  Grown /\ \E i \in DOMAIN tasks' : tasks'[i] = t
<1>1. tasks' \in Seq(Task) /\ Len(tasks') = Len(tasks) + 1
      /\ (\A i \in 1..Len(tasks) : tasks'[i] = tasks[i]) /\ tasks'[Len(tasks) + 1] = t
  BY AppendProperties
<1>2. Len(tasks) \in Nat /\ DOMAIN tasks = 1..Len(tasks) /\ DOMAIN tasks' = 1..Len(tasks) + 1
  BY <1>1, LenProperties
<1>. QED BY <1>1, <1>2 DEF Grown

LEMMA RunTakes ==
    ASSUME tasks \in Seq(Task), tasks # <<>>, tasks' = Tail(tasks)
    PROVE  Taken(Head(tasks))
<1>1. /\ Len(tasks) \in Nat \ {0} /\ DOMAIN tasks = 1..Len(tasks)
      /\ tasks' \in Seq(Task) /\ Len(tasks') = Len(tasks) - 1 /\ DOMAIN tasks' = 1..Len(tasks')
      /\ Head(tasks) = tasks[1] /\ Head(tasks) \in Task
  BY LenProperties, HeadTailProperties, EmptySeq
<1>2. \A j \in 1..Len(tasks) - 1 : tasks'[j] = tasks[j + 1]
  BY <1>1
<1>3. \A i \in DOMAIN tasks : i = 1 \/ \E j \in DOMAIN tasks' : tasks'[j] = tasks[i]
  <2>1. ASSUME NEW i \in 1..Len(tasks), i # 1 PROVE \E j \in DOMAIN tasks' : tasks'[j] = tasks[i]
    <3>1. i - 1 \in 1..Len(tasks) - 1 /\ (i - 1) + 1 = i
      BY <1>1, <2>1
    <3>. QED BY <3>1, <1>1, <1>2
  <2>. QED BY <2>1, <1>1
<1>. QED BY <1>1, <1>2, <1>3 DEF Taken

(* posted gained a report, or lost the one the main thread handles. *)
LEMMA ReportGrows ==
    ASSUME posted \in Seq(Posted), NEW r \in Posted, posted' = Append(posted, r)
    PROVE  /\ posted' \in Seq(Posted)
           /\ DOMAIN posted = 1..Len(posted) /\ Len(posted) \in Nat /\ DOMAIN posted' = 1..Len(posted) + 1
           /\ \A i \in DOMAIN posted : posted'[i] = posted[i]
           /\ posted'[Len(posted) + 1] = r
<1>1. posted' \in Seq(Posted) /\ Len(posted') = Len(posted) + 1
      /\ (\A i \in 1..Len(posted) : posted'[i] = posted[i]) /\ posted'[Len(posted) + 1] = r
  BY AppendProperties
<1>. QED BY <1>1, LenProperties

LEMMA ReportTaken ==
    ASSUME posted \in Seq(Posted), posted # <<>>, posted' = Tail(posted)
    PROVE  /\ posted' \in Seq(Posted) /\ Head(posted) \in Posted /\ Head(posted) = posted[1]
           /\ DOMAIN posted = 1..Len(posted) /\ Len(posted) \in Nat \ {0} /\ DOMAIN posted' = 1..Len(posted) - 1
           /\ \A i \in DOMAIN posted' : posted'[i] = posted[i + 1]
<1>1. /\ Len(posted) \in Nat \ {0} /\ DOMAIN posted = 1..Len(posted)
      /\ posted' \in Seq(Posted) /\ Len(posted') = Len(posted) - 1 /\ DOMAIN posted' = 1..Len(posted')
      /\ Head(posted) = posted[1] /\ Head(posted) \in Posted
  BY LenProperties, HeadTailProperties, EmptySeq
<1>. QED BY <1>1

\* A handler that waits is a task or a report, never both.
LEMMA Frames ==
    /\ \A r \in Report : r \notin Task /\ r \notin StopRestarts /\ r # NoFrame /\ r # [op |-> "Reset"]
                         /\ r.call = "onCoreExited" /\ r.gen \in Gens /\ r \in Posted
    /\ \A t \in StopRestarts : t \in Task /\ t.op = "StopRestart" /\ t # NoFrame /\ t # [op |-> "Reset"]
    /\ [op |-> "Reset"] \in Task /\ [op |-> "Reset"] # NoFrame
    /\ NoFrame \notin Task
    /\ \A r \in Posted : r.gen \in Gens /\ r.call \in {"onCoreSpawned", "onCoreExited"}
    /\ \A r \in Posted : r.call = "onCoreExited" => r \in Report
BY DEF Report, Task, StopRestarts, NoFrame, Posted

-----------------------------------------------------------------------------
(* What the handlers of the main thread have in common: they leave the     *)
(* process and the reports alone, and post at most one task.               *)
Handler ==
    /\ UNCHANGED <<posted, process, frame>>
    /\ Grown
    /\ sup' \in SupervisorFields
    /\ sup'.m_connectGen = sup.m_connectGen
    /\ sup'.m_handledExitGen >= sup.m_handledExitGen
    /\ sup'.m_handledExitGen <= process.generation
    /\ accepting'.gen <= process.generation
    /\ prepare_exit => prepare_exit'

LEMMA HandlerKeeps == ASSUME IInv, Handler PROVE FirstTask' /\ Numbered' /\ InOrder' /\ Reported'
<1>1. FirstTask'
  BY DEF IInv, Handler, FirstTask, Grown
<1>2. Numbered'
  BY DEF IInv, Handler, Numbered
<1>3. InOrder'
  BY DEF IInv, Handler, InOrder
<1>4. Reported'
  <2>1. sup.m_handledExitGen \in Int /\ sup'.m_handledExitGen \in Int /\ process.generation \in Int
    BY SupFields DEF IInv, TypeOK, Handler, ProcessFields, Gens
  <2>2. sup'.m_handledExitGen < process.generation => sup.m_handledExitGen < process.generation
    BY <2>1 DEF Handler
  <2>. QED BY <2>2 DEF IInv, Handler, Reported
<1>. QED BY <1>1, <1>2, <1>3, <1>4

(* A handler that posts a restart. *)
Respawned ==
    /\ Handler
    /\ sup'.m_state = "Starting"
    /\ \E i \in DOMAIN tasks' : tasks'[i].op \in Spawns

LEMMA RespawnedKeeps == ASSUME IInv, Respawned PROVE Startup' /\ Followed' /\ Watched'
<1>1. Startup'
  BY DEF Respawned, Startup
<1>2. Followed'
  BY DEF Respawned, Followed, SpawnPending
<1>3. EndPending'
  BY DEF Respawned, EndPending, Replaces, Spawns
<1>. QED BY <1>1, <1>2, <1>3 DEF Watched

(* A handler that changes nothing the supervision of the core depends on. *)
Unmoved ==
    /\ Handler
    /\ sup'.m_state = sup.m_state
    /\ sup'.m_handledExitGen = sup.m_handledExitGen /\ sup'.m_acceptedGen = sup.m_acceptedGen
    /\ sup'.m_restartTimer = sup.m_restartTimer /\ sup'.m_connectTimer = sup.m_connectTimer
    /\ sup.m_state = "NotStarted" => UNCHANGED <<tasks, intent>>

LEMMA UnmovedKeeps == ASSUME IInv, Unmoved PROVE Startup' /\ Followed' /\ Watched'
<1>1. Startup'
  BY DEF IInv, Unmoved, Handler, Startup
<1>2. exiting => exiting'
  BY DEF Unmoved, Handler, exiting
<1>3. SpawnPending => SpawnPending'
  BY DEF Unmoved, Handler, Grown, SpawnPending
<1>4. Followed'
  BY <1>2, <1>3 DEF IInv, Unmoved, Handler, Followed
<1>5. (SpawnPosted => SpawnPosted') /\ (EndPending => EndPending')
  BY DEF Unmoved, Handler, Grown, SpawnPosted, EndPending, Replaces
<1>6. Watched'
  BY <1>2, <1>5 DEF IInv, Unmoved, Handler, Watched
<1>. QED BY <1>1, <1>4, <1>6

(* The counters of a handler that counts nothing, or forgets them all. *)
LEMMA FailuresKept ==
    ASSUME IInv, sup'.m_handledExitGen \in Int, sup'.m_handledExitGen >= sup.m_handledExitGen,
           \/ /\ counted' = {} /\ sup'.m_failures = 0 /\ sup'.m_startFailures = 0
           \/ /\ counted' = counted /\ sup'.m_failures = sup.m_failures
              /\ sup'.m_startFailures \in {0, sup.m_startFailures}
    PROVE  Failures'
<1>1. sup \in SupervisorFields
  BY DEF IInv, TypeOK
<1>2. /\ sup.m_failures \in Int /\ sup.m_startFailures \in Int /\ sup.m_handledExitGen \in Int
      /\ sup.m_handledExitGen >= 0
  BY <1>1, SupFields
<1>3. CASE counted' = {} /\ sup'.m_failures = 0 /\ sup'.m_startFailures = 0
  BY <1>2, <1>3, FS_EmptySet DEF Failures
<1>4. CASE /\ counted' = counted /\ sup'.m_failures = sup.m_failures
           /\ sup'.m_startFailures \in {0, sup.m_startFailures}
  BY <1>2, <1>4 DEF IInv, Failures
<1>. QED BY <1>3, <1>4

(* A step of DS_cores or of the core leaves the supervisor's fields alone. *)
LEMMA SupKept ==
    ASSUME IInv, UNCHANGED <<sup, intent, resumed, counted>>, sup.m_state # "NotStarted",
           started_id' \in {started_id, NoProfile}
    PROVE  Startup' /\ Failures' /\ Cancelled'
BY DEF IInv, Startup, Failures, Cancelled

-----------------------------------------------------------------------------
(* The requests. *)

\* Profiles, and the types a handler relies on.
LEMMA Facts ==
    ASSUME IInv
    PROVE  /\ sup \in SupervisorFields /\ process \in ProcessFields /\ tasks \in Seq(Task)
           /\ posted \in Seq(Posted)
           /\ sup.m_handledExitGen \in Int /\ process.generation \in Gens /\ process.generation \in Int
           /\ sup.m_handledExitGen <= process.generation /\ accepting.gen <= process.generation
           /\ accepting.gen \in Gens
           /\ started_id \in Profile /\ NoProfile \in Profile /\ sup.m_startWhenUp \in Profile
           /\ sup.m_connectGen \in Int
<1>1. sup \in SupervisorFields /\ process \in ProcessFields /\ accepting \in [pid : Gens, gen : Gens, verified : BOOLEAN]
  BY DEF IInv, TypeOK
<1>. QED BY <1>1, SupFields DEF IInv, TypeOK, Numbered, Profile, ProcessFields, Gens

\* start() posts the first task.
LEMMA StartKeeps == ASSUME IInv, NEW p \in Profile, start(p) PROVE IInv'
<1>. USE DEF start
<1>f. /\ tasks = <<>> /\ frame = NoFrame /\ intent = "start"
      /\ process.state = "none" /\ process.generation = 0 /\ ~process.restarting
  BY DEF IInv, Startup
<1>s. /\ sup' \in SupervisorFields /\ sup'.m_state = "Starting"
      /\ sup'.m_failures = sup.m_failures /\ sup'.m_startFailures = sup.m_startFailures
      /\ sup'.m_handledExitGen = sup.m_handledExitGen /\ sup'.m_connectGen = sup.m_connectGen
  BY DEF IInv, TypeOK, SupervisorFields, CoreStates
<1>u. /\ UNCHANGED <<accepting, posted, deadQueued, probes, process, frame, conns, m_expectedExitGen, running, events>>
      /\ UNCHANGED <<core_running, started_id, prepare_exit, kill_switch, identityUnsupported>>
      /\ UNCHANGED <<intent, resumed, counted>>
  BY DEF settings, history
<1>t. tasks' = <<[op |-> "Start"]>>
  BY <1>f DEF Post
<1>k. tasks' \in Seq(Task) /\ DOMAIN tasks' = 1..1 /\ tasks'[1].op = "Start"
  BY <1>t DEF Task
<1>1. TypeOK'
  BY <1>s, <1>k, <1>u DEF IInv, TypeOK
<1>2. Startup'
  BY <1>s DEF Startup
<1>3. FirstTask'
  BY <1>k, <1>f, <1>u DEF FirstTask
<1>4. Numbered' /\ InOrder' /\ Failures'
  BY <1>s, <1>u DEF IInv, Numbered, InOrder, Failures
<1>5. Cancelled'
  BY <1>f, <1>u DEF Cancelled
<1>6. Reported' /\ Watched'
  BY <1>s, <1>u, <1>f DEF IInv, Reported, Watched
<1>7. Followed'
  BY <1>k DEF Followed, SpawnPending, Spawns
<1>. QED BY <1>1, <1>2, <1>3, <1>4, <1>5, <1>6, <1>7, <1>u DEF IInv

\* The server cannot listen: nothing is ever spawned.
LEMMA ListenFailsKeeps == ASSUME IInv, listenFails PROVE IInv'
<1>. USE DEF listenFails
<1>s. /\ sup' \in SupervisorFields /\ sup'.m_state = "ListenFailed"
      /\ sup'.m_startWhenUp = sup.m_startWhenUp
      /\ sup'.m_failures = sup.m_failures /\ sup'.m_startFailures = sup.m_startFailures
      /\ sup'.m_handledExitGen = sup.m_handledExitGen /\ sup'.m_connectGen = sup.m_connectGen
  BY DEF IInv, TypeOK, SupervisorFields, CoreStates
<1>u. /\ UNCHANGED <<accepting, posted, deadQueued, probes, process, tasks, frame, conns, m_expectedExitGen, running, events>>
      /\ UNCHANGED <<core_running, started_id, prepare_exit, kill_switch, identityUnsupported>>
      /\ UNCHANGED <<intent, resumed, counted>>
  BY DEF settings, history, coreVars
<1>1. TypeOK'
  BY <1>s, <1>u DEF IInv, TypeOK
<1>2. Startup' /\ Followed' /\ Watched'
  BY <1>s DEF Startup, Followed, Watched
<1>3. FirstTask' /\ Numbered' /\ InOrder' /\ Failures' /\ Cancelled' /\ Reported'
  BY <1>s, <1>u DEF IInv, FirstTask, Numbered, InOrder, Failures, Cancelled, Reported
<1>. QED BY <1>1, <1>2, <1>3, <1>u DEF IInv

\* The request restarts the core, with the profile p to resume.
LEMMA PostRestartFields ==
    ASSUME IInv, NEW p \in Profile, NEW t \in Task, t.op \in Spawns \ {"Start"},
           postProcessRestart([beginRestart(sup) EXCEPT !.m_startWhenUp = p], t)
    PROVE  /\ sup' \in SupervisorFields /\ sup'.m_state = "Starting" /\ sup'.m_startWhenUp = p
           /\ sup'.m_failures = 0 /\ sup'.m_startFailures = 0
           /\ sup'.m_connectGen = sup.m_connectGen
           /\ sup'.m_handledExitGen \in Int
           /\ sup'.m_handledExitGen >= sup.m_handledExitGen
           /\ sup'.m_handledExitGen <= process.generation
           /\ Grown /\ \E i \in DOMAIN tasks' : tasks'[i].op \in Spawns
<1>. DEFINE b == beginRestart(sup)
            s == [b EXCEPT !.m_startWhenUp = p]
<1>1. b \in SupervisorFields /\ b.m_state = "Starting" /\ b.m_failures = 0 /\ b.m_startFailures = 0
      /\ b.m_handledExitGen = sup.m_handledExitGen /\ b.m_connectGen = sup.m_connectGen
  BY Facts, BeginRestartFields
<1>. HIDE DEF b
<1>2. /\ s \in SupervisorFields /\ s.m_state = b.m_state /\ s.m_startWhenUp = p
      /\ s.m_failures = b.m_failures /\ s.m_startFailures = b.m_startFailures
      /\ s.m_handledExitGen = b.m_handledExitGen /\ s.m_connectGen = b.m_connectGen
  BY <1>1, ResumeFields
<1>3. sup' = Superseded(s) /\ tasks' = Append(tasks, t)
  BY DEF postProcessRestart, Post, b
<1>. HIDE DEF s
<1>4. /\ sup' \in SupervisorFields /\ sup'.m_state = s.m_state /\ sup'.m_startWhenUp = s.m_startWhenUp
      /\ sup'.m_failures = s.m_failures /\ sup'.m_startFailures = s.m_startFailures
      /\ sup'.m_connectGen = s.m_connectGen
      /\ sup'.m_handledExitGen >= s.m_handledExitGen
      /\ sup'.m_handledExitGen \in {s.m_handledExitGen, process.generation}
  BY <1>2, <1>3, Facts, SupersededFields
<1>5. sup'.m_handledExitGen \in Int
  BY <1>4, SupFields
<1>6. Grown /\ \E i \in DOMAIN tasks' : tasks'[i] = t
  BY <1>3, Facts, PostGrows DEF Spawns
<1>. QED BY <1>1, <1>2, <1>4, <1>5, <1>6, Facts

\* "Restart Core", after an exit that was handled or before one.
LEMMA ResetCoreKeeps == ASSUME IInv, resetCore PROVE IInv'
<1>u. /\ UNCHANGED <<accepting, posted, deadQueued, probes, process, frame, conns, m_expectedExitGen, running>>
      /\ UNCHANGED <<core_running, prepare_exit, kill_switch, identityUnsupported>>
      /\ counted' = {} /\ intent' = "reset" /\ resumed' = NoProfile /\ events' \in 0..MaxEvents
      /\ started_id' \in {started_id, NoProfile} /\ ~exiting /\ sup.m_state \notin {"NotStarted", "ListenFailed"}
  BY BoundsAssumption DEF resetCore, Requested, Asked, Event, IInv, TypeOK, canStartCore
<1>1. CASE sup.m_state \in {"Backoff", "GaveUp"}
  <2>1. postProcessRestart([beginRestart(sup) EXCEPT !.m_startWhenUp = NoProfile], [op |-> "StopRestart", manual |-> TRUE])
    BY <1>1 DEF resetCore
  <2>2. [op |-> "StopRestart", manual |-> TRUE] \in Task
    BY DEF Task, StopRestarts
  <2>s. /\ sup' \in SupervisorFields /\ sup'.m_state = "Starting" /\ sup'.m_startWhenUp = NoProfile
        /\ sup'.m_failures = 0 /\ sup'.m_startFailures = 0 /\ sup'.m_connectGen = sup.m_connectGen
        /\ sup'.m_handledExitGen \in Int /\ sup'.m_handledExitGen >= sup.m_handledExitGen
        /\ sup'.m_handledExitGen <= process.generation
        /\ Grown /\ \E i \in DOMAIN tasks' : tasks'[i].op \in Spawns
    BY <2>1, <2>2, Facts, PostRestartFields DEF Spawns
  <2>3. Respawned
    BY <1>u, <2>s, Facts DEF Respawned, Handler
  <2>4. TypeOK'
    BY <1>u, <2>s, Facts DEF IInv, TypeOK, Grown
  <2>5. Failures' /\ Cancelled'
    BY <1>u, <2>s, FailuresKept DEF Cancelled
  <2>. QED BY <2>3, <2>4, <2>5, <1>u, RespawnedKeeps, HandlerKeeps DEF IInv, Respawned
<1>2. CASE sup.m_state \notin {"Backoff", "GaveUp"}
  <2>1. sup' = beginRestart(sup) /\ tasks' = Append(tasks, [op |-> "Reset"])
    BY <1>2 DEF resetCore, Post
  <2>2. [op |-> "Reset"] \in Task
    BY DEF Task
  <2>s. /\ sup' \in SupervisorFields /\ sup'.m_state = "Starting"
        /\ sup'.m_failures = 0 /\ sup'.m_startFailures = 0 /\ sup'.m_connectGen = sup.m_connectGen
        /\ sup'.m_handledExitGen = sup.m_handledExitGen
    BY <2>1, Facts, BeginRestartFields
  <2>k. Grown /\ \E i \in DOMAIN tasks' : tasks'[i] = [op |-> "Reset"]
    BY <2>1, <2>2, Facts, PostGrows
  <2>3. Handler
    BY <1>u, <2>s, <2>k, Facts DEF Handler
  <2>4. TypeOK'
    BY <1>u, <2>s, <2>k, Facts DEF IInv, TypeOK, Grown
  <2>5. Failures' /\ Cancelled'
    BY <1>u, <2>s, FailuresKept, Facts DEF Cancelled
  <2>6. SpawnPending => SpawnPending'
    BY <1>u, <2>k DEF SpawnPending, Grown
  <2>7. sup.m_state \in {"Starting", "Connected"}
    BY <1>u, <1>2, Facts, SupFields DEF CoreStates, exiting
  <2>8. Followed'
    BY <2>6, <2>7, <1>u, <2>s DEF IInv, Followed
  <2>9. EndPending'
    BY <2>k DEF EndPending, Replaces
  <2>10. Startup' /\ Watched'
    BY <2>s, <2>9 DEF Startup, Watched
  <2>. QED BY <2>3, <2>4, <2>5, <2>8, <2>10, <1>u, HandlerKeeps DEF IInv
<1>. QED BY <1>1, <1>2

\* A profile waits for a core that is not listening.
LEMMA RestartNotListeningKeeps == ASSUME IInv, NEW p \in Profiles, restartNotListening(p) PROVE IInv'
<1>u. /\ UNCHANGED <<accepting, posted, deadQueued, probes, process, frame, conns, m_expectedExitGen, running>>
      /\ UNCHANGED <<core_running, started_id, prepare_exit, kill_switch, identityUnsupported>>
      /\ counted' = {} /\ intent' = "start" /\ resumed' = NoProfile /\ events' \in 0..MaxEvents
  BY BoundsAssumption DEF restartNotListening, Requested, Asked, Event, IInv, TypeOK, settings
<1>1. postProcessRestart([beginRestart(sup) EXCEPT !.m_startWhenUp = p], [op |-> "Restart"])
  BY DEF restartNotListening
<1>2. [op |-> "Restart"] \in Task /\ p \in Profile
  BY DEF Task, Profile
<1>s. /\ sup' \in SupervisorFields /\ sup'.m_state = "Starting"
      /\ sup'.m_failures = 0 /\ sup'.m_startFailures = 0 /\ sup'.m_connectGen = sup.m_connectGen
      /\ sup'.m_handledExitGen \in Int /\ sup'.m_handledExitGen >= sup.m_handledExitGen
      /\ sup'.m_handledExitGen <= process.generation
      /\ Grown /\ \E i \in DOMAIN tasks' : tasks'[i].op \in Spawns
  BY <1>1, <1>2, PostRestartFields DEF Spawns
<1>3. Respawned
  BY <1>u, <1>s, Facts DEF Respawned, Handler
<1>4. TypeOK'
  BY <1>u, <1>s, Facts DEF IInv, TypeOK, Grown
<1>5. Failures' /\ Cancelled'
  BY <1>u, <1>s, FailuresKept DEF Cancelled
<1>. QED BY <1>3, <1>4, <1>5, <1>u, RespawnedKeeps, HandlerKeeps DEF IInv, Respawned

\* The guard's core takes the waiting profile over, or the one that is started.
LEMMA RestartForGuardKeeps == ASSUME IInv, restartForGuard PROVE IInv'
<1>. DEFINE kept == IF sup.m_probing /\ sup.m_startWhenUp # NoProfile THEN sup.m_startWhenUp ELSE started_id
<1>u. /\ UNCHANGED <<accepting, posted, deadQueued, probes, process, frame, conns, m_expectedExitGen, running>>
      /\ UNCHANGED <<core_running, started_id, prepare_exit, kill_switch, identityUnsupported>>
      /\ counted' = {} /\ UNCHANGED <<intent, resumed>> /\ events' \in 0..MaxEvents
  BY BoundsAssumption DEF restartForGuard, Requested, Event, IInv, TypeOK, settings
<1>1. postProcessRestart([beginRestart(sup) EXCEPT !.m_startWhenUp = kept], [op |-> "StopRestart", manual |-> FALSE])
  BY DEF restartForGuard
<1>2. [op |-> "StopRestart", manual |-> FALSE] \in Task
  BY DEF Task, StopRestarts
<1>3. kept \in Profile /\ (intent = "cancel" => kept = NoProfile)
  BY Facts DEF IInv, Cancelled
<1>. HIDE DEF kept
<1>s. /\ sup' \in SupervisorFields /\ sup'.m_state = "Starting" /\ sup'.m_startWhenUp = kept
      /\ sup'.m_failures = 0 /\ sup'.m_startFailures = 0 /\ sup'.m_connectGen = sup.m_connectGen
      /\ sup'.m_handledExitGen \in Int /\ sup'.m_handledExitGen >= sup.m_handledExitGen
      /\ sup'.m_handledExitGen <= process.generation
      /\ Grown /\ \E i \in DOMAIN tasks' : tasks'[i].op \in Spawns
  BY <1>1, <1>2, <1>3, PostRestartFields DEF Spawns
<1>4. Respawned
  BY <1>u, <1>s, Facts DEF Respawned, Handler
<1>5. TypeOK'
  BY <1>u, <1>s, Facts DEF IInv, TypeOK, Grown
<1>6. Failures' /\ Cancelled'
  BY <1>u, <1>s, <1>3, FailuresKept DEF IInv, Cancelled
<1>. QED BY <1>4, <1>5, <1>6, <1>u, RespawnedKeeps, HandlerKeeps DEF IInv, Respawned

\* tasks is as it was.
LEMMA NotGrown == ASSUME IInv, tasks' = tasks PROVE Grown
BY Facts DEF Grown

\* A profile waits for the probe.
LEMMA SetStartWhenUpKeeps == ASSUME IInv, NEW p \in Profiles, setStartWhenUp(p) PROVE IInv'
<1>u. /\ UNCHANGED <<accepting, posted, deadQueued, probes, process, tasks, frame, conns, m_expectedExitGen, running>>
      /\ UNCHANGED <<core_running, started_id, prepare_exit, kill_switch, identityUnsupported, counted>>
      /\ intent' = "start" /\ resumed' = NoProfile /\ events' \in 0..MaxEvents
      /\ sup.m_state # "NotStarted" /\ p \in Profile /\ sup' = [sup EXCEPT !.m_startWhenUp = p]
  BY BoundsAssumption DEF setStartWhenUp, Requested, Asked, Event, IInv, TypeOK, settings, coreVars, Profile
<1>s. /\ sup' \in SupervisorFields /\ sup'.m_state = sup.m_state
      /\ sup'.m_failures = sup.m_failures /\ sup'.m_startFailures = sup.m_startFailures
      /\ sup'.m_handledExitGen = sup.m_handledExitGen /\ sup'.m_acceptedGen = sup.m_acceptedGen
      /\ sup'.m_connectGen = sup.m_connectGen
      /\ sup'.m_restartTimer = sup.m_restartTimer /\ sup'.m_connectTimer = sup.m_connectTimer
  BY <1>u, Facts, ResumeFields
<1>1. Unmoved
  BY <1>u, <1>s, Facts, NotGrown DEF Unmoved, Handler
<1>2. TypeOK'
  BY <1>u, <1>s, Facts DEF IInv, TypeOK
<1>3. Failures' /\ Cancelled'
  BY <1>u, <1>s, Facts, FailuresKept DEF Cancelled
<1>. QED BY <1>1, <1>2, <1>3, <1>u, UnmovedKeeps, HandlerKeeps DEF IInv, Unmoved

\* A handler that leaves the supervisor's fields alone.
LEMMA SupSame ==
    ASSUME IInv, UNCHANGED <<sup, posted, process, frame, counted>>, Grown,
           accepting'.gen <= process.generation, prepare_exit => prepare_exit',
           sup.m_state = "NotStarted" => UNCHANGED <<tasks, intent>>
    PROVE  Startup' /\ FirstTask' /\ Numbered' /\ InOrder' /\ Failures' /\ Reported' /\ Followed' /\ Watched'
<1>1. Unmoved
  BY Facts DEF Unmoved, Handler
<1>2. Failures'
  BY DEF IInv, Failures
<1>. QED BY <1>1, <1>2, UnmovedKeeps, HandlerKeeps DEF Unmoved

\* The core's privileges change: it is killed, or its restart is posted.
LEMMA KillForPrivilegeChangeKeeps == ASSUME IInv, killForPrivilegeChange PROVE IInv'
<1>u. /\ UNCHANGED <<sup, accepting, posted, probes, process, frame, conns, m_expectedExitGen, running>>
      /\ UNCHANGED <<core_running, started_id, prepare_exit, kill_switch, identityUnsupported>>
      /\ UNCHANGED <<intent, resumed, counted>> /\ events' \in 0..MaxEvents
      /\ sup.m_state # "NotStarted"
  BY BoundsAssumption DEF killForPrivilegeChange, Requested, Event, IInv, TypeOK, settings, history
<1>q. deadQueued' \in BOOLEAN
  BY DEF killForPrivilegeChange, IInv, TypeOK
<1>1. tasks' = tasks \/ tasks' = Append(tasks, [op |-> "Kill"])
  BY DEF killForPrivilegeChange, Post
<1>2. [op |-> "Kill"] \in Task
  BY DEF Task
<1>3. Grown
  BY <1>1, <1>2, Facts, PostGrows, NotGrown
<1>4. TypeOK'
  BY <1>u, <1>q, <1>3 DEF IInv, TypeOK, Grown
<1>5. Cancelled'
  BY <1>u DEF IInv, Cancelled
<1>. QED BY <1>3, <1>4, <1>5, <1>u, Facts, SupSame DEF IInv

\* A profile starts in the core that is up.
LEMMA StartProfileKeeps == ASSUME IInv, NEW p \in Profiles, startProfile(p) PROVE IInv'
<1>u. /\ UNCHANGED <<sup, accepting, posted, deadQueued, probes, process, tasks, frame, conns, m_expectedExitGen>>
      /\ UNCHANGED <<core_running, prepare_exit, kill_switch, identityUnsupported, counted>>
      /\ intent' = "start" /\ resumed' = NoProfile /\ events' \in 0..MaxEvents
      /\ sup.m_state # "NotStarted" /\ running' \in Profile /\ started_id' \in Profile
  BY BoundsAssumption DEF startProfile, Requested, Asked, Event, IInv, TypeOK, mainVars, coreVars, Profile
<1>1. TypeOK'
  BY <1>u, Facts DEF IInv, TypeOK
<1>2. Cancelled'
  BY <1>u DEF Cancelled
<1>. QED BY <1>1, <1>2, <1>u, Facts, NotGrown, SupSame DEF IInv

\* The running profile stops.
LEMMA StopProfileKeeps == ASSUME IInv, stopProfile PROVE IInv'
<1>u. /\ UNCHANGED <<sup, accepting, posted, deadQueued, probes, process, tasks, frame, conns, m_expectedExitGen>>
      /\ UNCHANGED <<core_running, prepare_exit, kill_switch, identityUnsupported, counted>>
      /\ intent' = "start" /\ resumed' = NoProfile /\ events' \in 0..MaxEvents
      /\ sup.m_state # "NotStarted" /\ running' = NoProfile /\ started_id' = NoProfile
  BY BoundsAssumption DEF stopProfile, Requested, Asked, Event, IInv, TypeOK, mainVars, coreVars
<1>1. TypeOK'
  BY <1>u, Facts DEF IInv, TypeOK
<1>2. Cancelled'
  BY <1>u DEF Cancelled
<1>. QED BY <1>1, <1>2, <1>u, Facts, NotGrown, SupSame DEF IInv

\* The user takes the resume back: both places it is taken from are empty from now on.
LEMMA CancelResumeKeeps == ASSUME IInv, cancelResume PROVE IInv'
<1>u. /\ UNCHANGED <<accepting, posted, deadQueued, probes, process, tasks, frame, conns, m_expectedExitGen, running>>
      /\ UNCHANGED <<core_running, prepare_exit, kill_switch, identityUnsupported, counted>>
      /\ intent' = "cancel" /\ resumed' = NoProfile /\ started_id' = NoProfile /\ events' \in 0..MaxEvents
      /\ sup.m_state # "NotStarted" /\ sup' = [sup EXCEPT !.m_startWhenUp = NoProfile]
  BY BoundsAssumption DEF cancelResume, Requested, Asked, Event, IInv, TypeOK, coreVars
<1>s. /\ sup' \in SupervisorFields /\ sup'.m_state = sup.m_state /\ sup'.m_startWhenUp = NoProfile
      /\ sup'.m_failures = sup.m_failures /\ sup'.m_startFailures = sup.m_startFailures
      /\ sup'.m_handledExitGen = sup.m_handledExitGen /\ sup'.m_acceptedGen = sup.m_acceptedGen
      /\ sup'.m_connectGen = sup.m_connectGen
      /\ sup'.m_restartTimer = sup.m_restartTimer /\ sup'.m_connectTimer = sup.m_connectTimer
  BY <1>u, Facts, ResumeFields
<1>1. Unmoved
  BY <1>u, <1>s, Facts, NotGrown DEF Unmoved, Handler
<1>2. TypeOK'
  BY <1>u, <1>s, Facts DEF IInv, TypeOK
<1>3. Failures' /\ Cancelled'
  BY <1>u, <1>s, Facts, FailuresKept DEF Cancelled
<1>. QED BY <1>1, <1>2, <1>3, <1>u, UnmovedKeeps, HandlerKeeps DEF IInv, Unmoved

\* The setting of the kill switch.
LEMMA ChangeKillSwitchKeeps == ASSUME IInv, changeKillSwitch PROVE IInv'
<1>u. /\ UNCHANGED <<sup, accepting, posted, deadQueued, probes, process, tasks, frame, conns, m_expectedExitGen>>
      /\ UNCHANGED <<core_running, started_id, prepare_exit, running, intent, resumed, counted>>
      /\ events' \in 0..MaxEvents
      /\ kill_switch' \in BOOLEAN /\ identityUnsupported' \in BOOLEAN
  BY BoundsAssumption DEF changeKillSwitch, Requested, Event, IInv, TypeOK, mainVars, coreVars, history
<1>1. TypeOK'
  BY <1>u DEF IInv, TypeOK
<1>2. Cancelled'
  BY <1>u DEF IInv, Cancelled
<1>. QED BY <1>1, <1>2, <1>u, Facts, NotGrown, SupSame DEF IInv

\* The program begins to exit.
LEMMA BeginExitKeeps == ASSUME IInv, BeginExit PROVE IInv'
<1>u. /\ UNCHANGED <<sup, accepting, posted, deadQueued, probes, process, tasks, frame, conns, m_expectedExitGen>>
      /\ UNCHANGED <<core_running, started_id, kill_switch, identityUnsupported, running, intent, resumed, counted, events>>
      /\ prepare_exit' = TRUE
  BY DEF BeginExit, mainVars, coreVars, history
<1>1. TypeOK'
  BY <1>u DEF IInv, TypeOK
<1>2. Cancelled'
  BY <1>u DEF IInv, Cancelled
<1>. QED BY <1>1, <1>2, <1>u, Facts, NotGrown, SupSame DEF IInv

\* shutdown() clears the timers; from here on the supervisor does not operate.
LEMMA ShutdownKeeps == ASSUME IInv, shutdown PROVE IInv'
<1>u. /\ UNCHANGED <<accepting, posted, deadQueued, probes, process, frame, conns, m_expectedExitGen, running, events>>
      /\ UNCHANGED <<core_running, started_id, prepare_exit, kill_switch, identityUnsupported, intent, resumed, counted>>
      /\ tasks' = Append(tasks, [op |-> "ExitKill"])
  BY DEF shutdown, settings, history
<1>s. /\ sup' \in SupervisorFields /\ sup'.m_state = "ShuttingDown" /\ sup'.m_startWhenUp = sup.m_startWhenUp
      /\ sup'.m_failures = sup.m_failures /\ sup'.m_startFailures = sup.m_startFailures
      /\ sup'.m_handledExitGen = sup.m_handledExitGen /\ sup'.m_connectGen = sup.m_connectGen
  BY Facts DEF shutdown, SupervisorFields, CoreStates
<1>1. [op |-> "ExitKill"] \in Task
  BY DEF Task
<1>2. Grown
  BY <1>u, <1>1, Facts, PostGrows
<1>3. Handler
  BY <1>u, <1>s, <1>2, Facts DEF Handler
<1>4. TypeOK'
  BY <1>u, <1>s, <1>2 DEF IInv, TypeOK, Grown
<1>5. Failures' /\ Cancelled'
  BY <1>u, <1>s, Facts, FailuresKept DEF IInv, Cancelled
<1>6. Startup' /\ Followed' /\ Watched'
  BY <1>s DEF Startup, Followed, Watched, exiting
<1>. QED BY <1>3, <1>4, <1>5, <1>6, <1>u, HandlerKeeps DEF IInv

-----------------------------------------------------------------------------
(* The main thread's own handlers. *)

\* A connection is taken in hand, with the generation of that moment.
LEMMA TakeConnectionKeeps == ASSUME IInv, NEW pid \in conns, TakeConnection(pid) PROVE IInv'
<1>u. /\ UNCHANGED <<sup, posted, deadQueued, probes, process, tasks, frame, m_expectedExitGen, running, events>>
      /\ UNCHANGED <<core_running, started_id, prepare_exit, kill_switch, identityUnsupported>>
      /\ UNCHANGED <<intent, resumed, counted>>
      /\ conns' = conns \ {pid}
      /\ accepting' = [pid |-> pid, gen |-> process.generation, verified |-> FALSE]
  BY DEF TakeConnection, settings, history, currentGeneration
<1>1. pid \in Gens
  BY DEF IInv, TypeOK
<1>2. accepting' \in [pid : Gens, gen : Gens, verified : BOOLEAN] /\ accepting'.gen = process.generation
  BY <1>u, <1>1, Facts
<1>3. TypeOK'
  BY <1>u, <1>2 DEF IInv, TypeOK
<1>4. Cancelled'
  BY <1>u DEF IInv, Cancelled
<1>5. accepting'.gen <= process.generation
  BY <1>2, Facts
<1>. QED BY <1>3, <1>4, <1>5, <1>u, NotGrown, SupSame DEF IInv

\* The peer is the process of that moment, or refused.
LEMMA VerifyCorePidKeeps == ASSUME IInv, verifyCorePid PROVE IInv'
<1>u. /\ UNCHANGED <<sup, posted, deadQueued, probes, process, tasks, frame, conns, m_expectedExitGen, running, events>>
      /\ UNCHANGED <<core_running, started_id, prepare_exit, kill_switch, identityUnsupported>>
      /\ UNCHANGED <<intent, resumed, counted>>
      /\ accepting' \in {[accepting EXCEPT !.verified = TRUE], NoAccept}
  BY DEF verifyCorePid, settings, history, coreVars
<1>1. 0 \in Gens /\ 0 <= process.generation
  BY BoundsAssumption, Facts DEF Gens
<1>2. accepting' \in [pid : Gens, gen : Gens, verified : BOOLEAN] /\ accepting'.gen \in {accepting.gen, 0}
  <2>1. accepting \in [pid : Gens, gen : Gens, verified : BOOLEAN]
    BY DEF IInv, TypeOK
  <2>2. CASE accepting' = [accepting EXCEPT !.verified = TRUE]
    BY <2>1, <2>2
  <2>3. CASE accepting' = NoAccept
    BY <1>1, <2>3 DEF NoAccept
  <2>. QED BY <1>u, <2>2, <2>3
<1>3. TypeOK'
  BY <1>u, <1>2 DEF IInv, TypeOK
<1>4. Cancelled'
  BY <1>u DEF IInv, Cancelled
<1>5. accepting'.gen <= process.generation
  BY <1>1, <1>2, Facts
<1>. QED BY <1>3, <1>4, <1>5, <1>u, NotGrown, SupSame DEF IInv

\* A connection that is accepted is one of a core whose exit was not handled.
LEMMA OnNewConnectionKeeps == ASSUME IInv, onNewConnection PROVE IInv'
<1>u. /\ UNCHANGED <<posted, deadQueued, process, tasks, frame, conns, m_expectedExitGen, running, events>>
      /\ UNCHANGED <<started_id, prepare_exit, kill_switch, identityUnsupported, intent, resumed, counted>>
      /\ accepting' = [pid |-> 0, gen |-> 0, verified |-> FALSE]
  BY DEF onNewConnection, coreVars, history, NoAccept
<1>b. core_running' \in BOOLEAN
  BY DEF onNewConnection
<1>1. 0 \in Gens /\ 0 <= process.generation
  BY BoundsAssumption, Facts DEF Gens
<1>2. accepting' \in [pid : Gens, gen : Gens, verified : BOOLEAN] /\ accepting'.gen <= process.generation
  BY <1>u, <1>1
<1>3. CASE Outdated(accepting.gen) \/ exiting
  <2>1. UNCHANGED <<sup, probes>>
    BY <1>3 DEF onNewConnection
  <2>2. TypeOK'
    BY <1>u, <1>b, <1>2, <2>1 DEF IInv, TypeOK
  <2>3. Cancelled'
    BY <1>u, <2>1 DEF IInv, Cancelled
  <2>. QED BY <2>1, <2>2, <2>3, <1>2, <1>u, NotGrown, SupSame DEF IInv
<1>4. CASE ~(Outdated(accepting.gen) \/ exiting)
  <2>. DEFINE gen == Larger(sup.m_acceptedGen, accepting.gen)
  <2>1. gen \in Gens
    BY Facts, SupFields DEF Larger, Gens
  <2>. HIDE DEF gen
  <2>2. /\ sup' = [sup EXCEPT !.m_acceptedGen = gen, !.m_connectTimer = FALSE, !.m_state = "Connected", !.m_probing = TRUE]
        /\ probes' = probes \cup {gen}
    BY <1>4 DEF onNewConnection, gen
  <2>s. /\ sup' \in SupervisorFields /\ sup'.m_state = "Connected" /\ sup'.m_startWhenUp = sup.m_startWhenUp
        /\ sup'.m_failures = sup.m_failures /\ sup'.m_startFailures = sup.m_startFailures
        /\ sup'.m_handledExitGen = sup.m_handledExitGen /\ sup'.m_connectGen = sup.m_connectGen
    BY <2>1, <2>2, Facts DEF SupervisorFields, CoreStates
  <2>3. sup.m_handledExitGen < process.generation
    BY <1>4, Facts DEF Outdated, Gens
  <2>4. Handler
    BY <1>u, <1>2, <2>s, Facts, NotGrown DEF Handler
  <2>5. TypeOK'
    BY <1>u, <1>b, <1>2, <2>1, <2>2, <2>s DEF IInv, TypeOK
  <2>6. Failures' /\ Cancelled'
    BY <1>u, <2>s, Facts, FailuresKept DEF IInv, Cancelled
  <2>7. sup'.m_handledExitGen # process'.generation
    BY <1>u, <2>s, <2>3, Facts
  <2>8. Startup' /\ Followed' /\ Watched'
    BY <2>s, <2>7 DEF Startup, Followed, Watched
  <2>. QED BY <2>4, <2>5, <2>6, <2>8, <1>u, HandlerKeeps DEF IInv
<1>. QED BY <1>3, <1>4

\* The probe's answer hands the waiting profile on, if there is one.
LEMMA OnPrivilegeProbedKeeps ==
    ASSUME IInv, NEW gen, NEW dropped \in BOOLEAN, NEW starts \in BOOLEAN, onPrivilegeProbed(gen, dropped, starts)
    PROVE  IInv'
<1>u. /\ UNCHANGED <<accepting, posted, deadQueued, process, tasks, frame, conns, m_expectedExitGen, events>>
      /\ UNCHANGED <<core_running, prepare_exit, kill_switch, identityUnsupported, intent, counted>>
      /\ probes' = probes \ {gen}
  BY DEF onPrivilegeProbed, coreVars
<1>1. CASE UNCHANGED <<sup, resumed, running, started_id>>
  <2>1. TypeOK'
    BY <1>u, <1>1 DEF IInv, TypeOK
  <2>2. Cancelled'
    BY <1>u, <1>1 DEF IInv, Cancelled
  <2>. QED BY <1>1, <2>1, <2>2, <1>u, Facts, NotGrown, SupSame DEF IInv
<1>2. CASE ~UNCHANGED <<sup, resumed, running, started_id>>
  <2>1. /\ sup' = [sup EXCEPT !.m_probing = FALSE, !.m_startFailures = 0, !.m_startWhenUp = NoProfile]
        /\ resumed' = sup.m_startWhenUp
        /\ \/ sup.m_startWhenUp # NoProfile /\ running' = sup.m_startWhenUp /\ started_id' = sup.m_startWhenUp
           \/ UNCHANGED <<running, started_id>>
        /\ sup.m_state = "Connected"
    BY <1>2 DEF onPrivilegeProbed
  <2>2. 0 \in Gens
    BY BoundsAssumption DEF Gens
  <2>s. /\ sup' \in SupervisorFields /\ sup'.m_state = sup.m_state /\ sup'.m_startWhenUp = NoProfile
        /\ sup'.m_failures = sup.m_failures /\ sup'.m_startFailures = 0
        /\ sup'.m_handledExitGen = sup.m_handledExitGen /\ sup'.m_acceptedGen = sup.m_acceptedGen
        /\ sup'.m_connectGen = sup.m_connectGen
        /\ sup'.m_restartTimer = sup.m_restartTimer /\ sup'.m_connectTimer = sup.m_connectTimer
    BY <2>1, <2>2, Facts DEF SupervisorFields
  <2>3. Unmoved
    BY <1>u, <2>1, <2>s, Facts, NotGrown DEF Unmoved, Handler
  <2>4. TypeOK'
    BY <1>u, <2>1, <2>s, Facts DEF IInv, TypeOK
  <2>5. Failures' /\ Cancelled'
    BY <1>u, <2>1, <2>s, Facts, FailuresKept DEF IInv, Cancelled
  <2>. QED BY <2>3, <2>4, <2>5, <1>u, UnmovedKeeps, HandlerKeeps DEF IInv, Unmoved
<1>. QED BY <1>1, <1>2

\* The restart timer: a restart is posted, or the timer has outlived its reason.
LEMMA PostRestartKeeps == ASSUME IInv, postRestart PROVE IInv'
<1>. DEFINE s == [sup EXCEPT !.m_restartTimer = FALSE]
<1>u. /\ UNCHANGED <<accepting, posted, deadQueued, probes, process, frame, conns, m_expectedExitGen, running, events>>
      /\ UNCHANGED <<core_running, started_id, prepare_exit, kill_switch, identityUnsupported, intent, resumed, counted>>
  BY DEF postRestart, settings, history
<1>s. /\ s \in SupervisorFields /\ s.m_state = sup.m_state /\ s.m_startWhenUp = sup.m_startWhenUp
      /\ s.m_failures = sup.m_failures /\ s.m_startFailures = sup.m_startFailures
      /\ s.m_handledExitGen = sup.m_handledExitGen /\ s.m_acceptedGen = sup.m_acceptedGen
      /\ s.m_connectGen = sup.m_connectGen /\ s.m_connectTimer = sup.m_connectTimer
  BY Facts DEF SupervisorFields
<1>1. CASE sup.m_state # "Backoff" \/ exiting
  <2>1. sup' = s /\ tasks' = tasks
    BY <1>1 DEF postRestart
  <2>. HIDE DEF s
  <2>2. Handler
    BY <1>u, <2>1, <1>s, Facts, NotGrown DEF Handler
  <2>3. TypeOK'
    BY <1>u, <2>1, <1>s DEF IInv, TypeOK
  <2>4. Failures' /\ Cancelled'
    BY <1>u, <2>1, <1>s, Facts, FailuresKept DEF IInv, Cancelled
  <2>5. Startup'
    BY <1>u, <2>1, <1>s DEF IInv, Startup
  <2>6. exiting' = exiting /\ SpawnPending' = SpawnPending
    BY <1>u, <2>1, <1>s DEF exiting, SpawnPending
  <2>7. Followed'
    BY <1>u, <2>1, <2>6, <1>s, <1>1 DEF IInv, Followed
  <2>8. SpawnPosted' = SpawnPosted /\ EndPending' = EndPending
    BY <1>u, <2>1 DEF SpawnPosted, EndPending, Replaces
  <2>9. Watched'
    BY <1>u, <2>1, <2>6, <2>8, <1>s DEF IInv, Watched
  <2>. QED BY <2>2, <2>3, <2>4, <2>5, <2>7, <2>9, <1>u, HandlerKeeps DEF IInv
<1>2. CASE ~(sup.m_state # "Backoff" \/ exiting)
  <2>. DEFINE r == [s EXCEPT !.m_state = "Starting"]
  <2>1. sup' = Superseded(r) /\ tasks' = Append(tasks, [op |-> "Restart"])
    BY <1>2 DEF postRestart, postProcessRestart, Post
  <2>2. /\ r \in SupervisorFields /\ r.m_state = "Starting" /\ r.m_startWhenUp = s.m_startWhenUp
        /\ r.m_failures = s.m_failures /\ r.m_startFailures = s.m_startFailures
        /\ r.m_handledExitGen = s.m_handledExitGen /\ r.m_connectGen = s.m_connectGen
    BY Facts DEF SupervisorFields, CoreStates
  <2>. HIDE DEF r, s
  <2>s. /\ sup' \in SupervisorFields /\ sup'.m_state = "Starting" /\ sup'.m_startWhenUp = sup.m_startWhenUp
        /\ sup'.m_failures = sup.m_failures /\ sup'.m_startFailures = sup.m_startFailures
        /\ sup'.m_connectGen = sup.m_connectGen
        /\ sup'.m_handledExitGen >= sup.m_handledExitGen
        /\ sup'.m_handledExitGen \in {sup.m_handledExitGen, process.generation}
    BY <2>1, <2>2, <1>s, Facts, SupersededFields
  <2>3. [op |-> "Restart"] \in Task
    BY DEF Task
  <2>k. Grown /\ \E i \in DOMAIN tasks' : tasks'[i] = [op |-> "Restart"]
    BY <2>1, <2>3, Facts, PostGrows
  <2>4. Respawned
    BY <1>u, <2>s, <2>k, Facts DEF Respawned, Handler, Spawns
  <2>5. TypeOK'
    BY <1>u, <2>s, <2>k DEF IInv, TypeOK, Grown
  <2>6. Failures' /\ Cancelled'
    BY <1>u, <2>s, Facts, FailuresKept DEF IInv, Cancelled
  <2>. QED BY <2>4, <2>5, <2>6, <1>u, RespawnedKeeps, HandlerKeeps DEF IInv, Respawned
<1>. QED BY <1>1, <1>2

\* The connect timeout: the current core's kill is posted, or the core is not waited for.
LEMMA OnConnectTimeoutKeeps == ASSUME IInv, onConnectTimeout PROVE IInv'
<1>. DEFINE late == \/ sup.m_state # "Starting" \/ exiting
                    \/ sup.m_connectGen <= sup.m_acceptedGen \/ sup.m_connectGen # process.generation
            s == [sup EXCEPT !.m_connectTimer = FALSE]
            kill == [op |-> "KillGen", gen |-> sup.m_connectGen]
<1>u. /\ UNCHANGED <<accepting, posted, deadQueued, probes, process, frame, conns, m_expectedExitGen, running, events>>
      /\ UNCHANGED <<core_running, started_id, prepare_exit, kill_switch, identityUnsupported, intent, resumed, counted>>
  BY DEF onConnectTimeout, settings, history
<1>1. IF late THEN sup' = s /\ tasks' = tasks
      ELSE sup' = [s EXCEPT !.m_timedOutGen = sup.m_connectGen] /\ tasks' = Append(tasks, kill)
  BY DEF onConnectTimeout, Post, currentGeneration
<1>s. /\ sup' \in SupervisorFields /\ sup'.m_state = sup.m_state /\ sup'.m_startWhenUp = sup.m_startWhenUp
      /\ sup'.m_failures = sup.m_failures /\ sup'.m_startFailures = sup.m_startFailures
      /\ sup'.m_handledExitGen = sup.m_handledExitGen /\ sup'.m_acceptedGen = sup.m_acceptedGen
      /\ sup'.m_connectGen = sup.m_connectGen /\ sup'.m_restartTimer = sup.m_restartTimer
  <2>1. /\ s \in SupervisorFields /\ s.m_state = sup.m_state /\ s.m_startWhenUp = sup.m_startWhenUp
        /\ s.m_failures = sup.m_failures /\ s.m_startFailures = sup.m_startFailures
        /\ s.m_handledExitGen = sup.m_handledExitGen /\ s.m_acceptedGen = sup.m_acceptedGen
        /\ s.m_connectGen = sup.m_connectGen /\ s.m_restartTimer = sup.m_restartTimer
    BY Facts DEF SupervisorFields
  <2>2. sup.m_connectGen \in Gens
    BY Facts DEF SupervisorFields
  <2>3. sup' = s \/ sup' = [s EXCEPT !.m_timedOutGen = sup.m_connectGen]
    BY <1>1
  <2>. HIDE DEF s
  <2>. QED BY <2>1, <2>2, <2>3 DEF SupervisorFields
<1>. HIDE DEF s
<1>2. kill \in Task /\ kill.op # "Start" /\ kill.gen = sup.m_connectGen
  BY Facts DEF Task, SupervisorFields
<1>k. Grown /\ (~late => \E i \in DOMAIN tasks' : tasks'[i] = kill)
  <2>1. CASE late
    BY <1>1, <2>1, NotGrown
  <2>2. CASE ~late
    <3>1. tasks' = Append(tasks, kill)
      BY <1>1, <2>2
    <3>. HIDE DEF kill, late
    <3>. QED BY <3>1, <1>2, Facts, PostGrows
  <2>. QED BY <2>1, <2>2
<1>n. sup.m_state = "NotStarted" => tasks' = tasks
  BY <1>1
<1>3. Handler
  BY <1>u, <1>s, <1>k, Facts DEF Handler
<1>4. TypeOK'
  BY <1>u, <1>s, <1>k DEF IInv, TypeOK, Grown
<1>5. Failures' /\ Cancelled'
  BY <1>u, <1>s, Facts, FailuresKept DEF IInv, Cancelled
<1>6. Startup'
  BY <1>u, <1>s, <1>n DEF IInv, Startup
<1>7. exiting' = exiting /\ (SpawnPending => SpawnPending')
  BY <1>u, <1>s, <1>k DEF exiting, SpawnPending, Grown
<1>8. Followed'
  BY <1>u, <1>7, <1>s DEF IInv, Followed
<1>9. SpawnPosted' = SpawnPosted /\ (EndPending => EndPending')
  BY <1>u, <1>k DEF SpawnPosted, EndPending, Replaces, Grown
<1>10. ~late => EndPending'
  BY <1>u, <1>k DEF EndPending, Replaces
<1>11. late /\ ~exiting /\ sup.m_state = "Starting" /\ sup.m_acceptedGen < process.generation
       => sup.m_connectGen # process.generation
  <2>1. sup.m_acceptedGen \in Int /\ sup.m_connectGen \in Int /\ process.generation \in Int
    BY Facts, SupFields
  <2>. QED BY <2>1
<1>12. Watched'
  BY <1>u, <1>7, <1>9, <1>10, <1>11, <1>s DEF IInv, Watched
<1>. QED BY <1>3, <1>4, <1>5, <1>6, <1>8, <1>12, <1>u, HandlerKeeps DEF IInv

\* The restart of a core that was dead when its privileges changed.
LEMMA RestartDeadCoreKeeps == ASSUME IInv, restartDeadCore PROVE IInv'
<1>u. /\ UNCHANGED <<accepting, posted, probes, process, frame, conns, m_expectedExitGen, running, events>>
      /\ UNCHANGED <<core_running, started_id, prepare_exit, kill_switch, identityUnsupported, intent, resumed>>
      /\ deadQueued' = FALSE
  BY DEF restartDeadCore, settings
<1>1. CASE sup.m_state \notin {"Backoff", "GaveUp"} \/ exiting
  <2>1. UNCHANGED <<sup, tasks, counted>>
    BY <1>1 DEF restartDeadCore
  <2>2. TypeOK'
    BY <1>u, <2>1 DEF IInv, TypeOK
  <2>3. Cancelled'
    BY <1>u, <2>1 DEF IInv, Cancelled
  <2>. QED BY <2>1, <2>2, <2>3, <1>u, Facts, NotGrown, SupSame DEF IInv
<1>2. CASE ~(sup.m_state \notin {"Backoff", "GaveUp"} \/ exiting)
  <2>1. /\ postProcessRestart([beginRestart(sup) EXCEPT !.m_startWhenUp = started_id], [op |-> "Restart"])
        /\ counted' = {}
    BY <1>2 DEF restartDeadCore
  <2>2. [op |-> "Restart"] \in Task
    BY DEF Task
  <2>s. /\ sup' \in SupervisorFields /\ sup'.m_state = "Starting" /\ sup'.m_startWhenUp = started_id
        /\ sup'.m_failures = 0 /\ sup'.m_startFailures = 0 /\ sup'.m_connectGen = sup.m_connectGen
        /\ sup'.m_handledExitGen \in Int /\ sup'.m_handledExitGen >= sup.m_handledExitGen
        /\ sup'.m_handledExitGen <= process.generation
        /\ Grown /\ \E i \in DOMAIN tasks' : tasks'[i].op \in Spawns
    BY <2>1, <2>2, Facts, PostRestartFields DEF Spawns
  <2>3. Respawned
    BY <1>u, <2>s, Facts DEF Respawned, Handler
  <2>4. TypeOK'
    BY <1>u, <2>1, <2>s DEF IInv, TypeOK, Grown
  <2>5. Failures' /\ Cancelled'
    BY <1>u, <2>1, <2>s, FailuresKept DEF IInv, Cancelled
  <2>. QED BY <2>3, <2>4, <2>5, <1>u, RespawnedKeeps, HandlerKeeps DEF IInv, Respawned
<1>. QED BY <1>1, <1>2

\* The report of a started core starts the connect timer, for the newest generation at last.
LEMMA OnCoreSpawnedKeeps == ASSUME IInv, onCoreSpawned PROVE IInv'
<1>. DEFINE r == Head(posted)
            skip == sup.m_state # "Starting" \/ r.gen <= sup.m_acceptedGen \/ exiting
<1>u. /\ UNCHANGED <<accepting, deadQueued, probes, process, tasks, frame, conns, m_expectedExitGen, running, events>>
      /\ UNCHANGED <<core_running, started_id, prepare_exit, kill_switch, identityUnsupported, intent, resumed, counted>>
      /\ posted # <<>> /\ posted' = Tail(posted) /\ r.call = "onCoreSpawned"
      /\ sup' = IF skip THEN sup ELSE [sup EXCEPT !.m_connectGen = r.gen, !.m_connectTimer = TRUE]
  BY DEF onCoreSpawned, settings, history, coreVars
<1>p. /\ posted' \in Seq(Posted) /\ r \in Posted /\ r = posted[1]
      /\ DOMAIN posted = 1..Len(posted) /\ Len(posted) \in Nat \ {0} /\ DOMAIN posted' = 1..Len(posted) - 1
      /\ \A i \in DOMAIN posted' : posted'[i] = posted[i + 1]
  BY <1>u, Facts, ReportTaken
<1>. HIDE DEF r
<1>i. /\ 1 \in DOMAIN posted
      /\ \A i \in DOMAIN posted' : i + 1 \in DOMAIN posted /\ 1 <= i + 1 /\ i \in Int
      /\ \A i \in DOMAIN posted : i # 1 => i - 1 \in DOMAIN posted' /\ posted'[i - 1] = posted[i]
  BY <1>p
<1>r. r.gen \in Gens /\ r.gen \in Int /\ r.gen <= process.generation
  BY <1>p, <1>i, Frames DEF IInv, Numbered, Gens
<1>s. /\ sup' \in SupervisorFields /\ sup'.m_state = sup.m_state /\ sup'.m_startWhenUp = sup.m_startWhenUp
      /\ sup'.m_failures = sup.m_failures /\ sup'.m_startFailures = sup.m_startFailures
      /\ sup'.m_handledExitGen = sup.m_handledExitGen /\ sup'.m_acceptedGen = sup.m_acceptedGen
      /\ sup'.m_restartTimer = sup.m_restartTimer
  BY <1>u, <1>r, Facts DEF SupervisorFields
<1>c. IF skip THEN sup'.m_connectGen = sup.m_connectGen /\ sup'.m_connectTimer = sup.m_connectTimer
      ELSE sup'.m_connectGen = r.gen /\ sup'.m_connectTimer = TRUE
  BY <1>u, <1>r, Facts DEF SupervisorFields
<1>g. sup.m_connectGen <= r.gen /\ \A i \in DOMAIN posted : IsSpawn(posted[i]) => r.gen <= posted[i].gen
  BY <1>u, <1>p, <1>i DEF IInv, InOrder, IsSpawn
<1>1. TypeOK'
  BY <1>u, <1>s, <1>p DEF IInv, TypeOK
<1>2. Startup' /\ FirstTask' /\ Failures' /\ Cancelled'
  BY <1>u, <1>s DEF IInv, Startup, FirstTask, Failures, Cancelled
<1>3. Numbered'
  <2>1. sup'.m_connectGen <= process.generation
    BY <1>c, <1>r DEF IInv, Numbered
  <2>2. \A i \in DOMAIN posted' : posted'[i].gen <= process.generation
    BY <1>p, <1>i DEF IInv, Numbered
  <2>. QED BY <1>u, <1>s, <2>1, <2>2 DEF IInv, Numbered
<1>4. InOrder'
  <2>1. SUFFICES ASSUME NEW i \in DOMAIN posted', IsSpawn(posted'[i])
                 PROVE  /\ sup'.m_connectGen <= posted'[i].gen
                        /\ \A j \in DOMAIN posted' : i <= j /\ IsSpawn(posted'[j]) => posted'[i].gen <= posted'[j].gen
    BY DEF InOrder, IsSpawn
  <2>2. posted'[i] = posted[i + 1] /\ i + 1 \in DOMAIN posted
    BY <1>p, <1>i
  <2>3. sup'.m_connectGen <= posted'[i].gen
    BY <2>1, <2>2, <1>c, <1>g DEF IInv, InOrder
  <2>4. ASSUME NEW j \in DOMAIN posted', i <= j, IsSpawn(posted'[j]) PROVE posted'[i].gen <= posted'[j].gen
    <3>1. posted'[j] = posted[j + 1] /\ j + 1 \in DOMAIN posted /\ i + 1 <= j + 1
      BY <2>4, <1>p, <1>i
    <3>. QED BY <2>1, <2>2, <2>4, <3>1 DEF IInv, InOrder
  <2>. QED BY <2>3, <2>4
<1>5. Reported'
  <2>1. ASSUME NEW i \in DOMAIN posted, IsExit(posted[i]) PROVE \E j \in DOMAIN posted' : posted'[j] = posted[i]
    BY <2>1, <1>u, <1>p, <1>i DEF IsExit
  <2>. QED BY <2>1, <1>u, <1>s DEF IInv, Reported
<1>6. exiting' = exiting /\ SpawnPending' = SpawnPending /\ EndPending' = EndPending
  BY <1>u, <1>s DEF exiting, SpawnPending, EndPending, Replaces
<1>7. Followed'
  BY <1>u, <1>s, <1>6 DEF IInv, Followed
<1>8. SpawnPosted => SpawnPosted' \/ r.gen = process.generation
  <2>1. ASSUME NEW i \in DOMAIN posted, i # 1 PROVE \E j \in DOMAIN posted' : posted'[j] = posted[i]
    BY <2>1, <1>i
  <2>. QED BY <2>1, <1>u, <1>p DEF SpawnPosted
<1>9. ASSUME ~exiting, sup.m_state = "Starting", sup.m_acceptedGen < process.generation,
             r.gen = process.generation \/ (sup.m_connectTimer /\ sup.m_connectGen = process.generation)
      PROVE  sup'.m_connectTimer /\ sup'.m_connectGen = process.generation
  <2>1. sup.m_acceptedGen \in Int /\ sup.m_connectGen \in Int /\ process.generation \in Int
    BY Facts, SupFields
  <2>2. r.gen = process.generation
    BY <1>9, <2>1, <1>g, <1>r
  <2>. QED BY <1>9, <2>1, <2>2, <1>c
<1>10. Watched'
  <2>1. SUFFICES ASSUME ~exiting, sup.m_state = "Starting", process.state = "up",
                        sup.m_acceptedGen < process.generation, ~SpawnPosted', ~EndPending'
                 PROVE  sup'.m_connectTimer /\ sup'.m_connectGen = process.generation
    BY <1>u, <1>s, <1>6 DEF Watched
  <2>2. \/ sup.m_connectTimer /\ sup.m_connectGen = process.generation
        \/ SpawnPosted \/ EndPending
    BY <2>1 DEF IInv, Watched
  <2>3. r.gen = process.generation \/ (sup.m_connectTimer /\ sup.m_connectGen = process.generation)
    <3>1. ~EndPending
      BY <2>1, <1>6
    <3>2. SpawnPosted => r.gen = process.generation
      BY <2>1, <1>8
    <3>. QED BY <2>2, <3>1, <3>2
  <2>. QED BY <2>1, <2>3, <1>9
<1>. QED BY <1>1, <1>2, <1>3, <1>4, <1>5, <1>7, <1>10, <1>u DEF IInv

-----------------------------------------------------------------------------
(* The exit of a core. *)

\* The restart is scheduled.
LEMMA ScheduleFields ==
    ASSUME NEW s \in SupervisorFields
    PROVE  /\ scheduleRestart(s) \in SupervisorFields
           /\ scheduleRestart(s).m_state = "Backoff" /\ scheduleRestart(s).m_restartTimer = TRUE
           /\ scheduleRestart(s).m_startWhenUp = s.m_startWhenUp
           /\ scheduleRestart(s).m_failures = s.m_failures /\ scheduleRestart(s).m_startFailures = s.m_startFailures
           /\ scheduleRestart(s).m_handledExitGen = s.m_handledExitGen
           /\ scheduleRestart(s).m_connectGen = s.m_connectGen
BY DEF scheduleRestart, SupervisorFields, CoreStates

\* After an exit that was asked for, the failures are forgotten.
LEMMA ExpectedFields ==
    ASSUME NEW s \in SupervisorFields, NEW probing, started_id \in Profile
    PROVE  LET t == expectedExit(s, probing)
           IN  /\ t \in SupervisorFields
               /\ t.m_state = "Backoff" /\ t.m_restartTimer = TRUE
               /\ t.m_startWhenUp \in {s.m_startWhenUp, started_id}
               /\ t.m_failures = 0 /\ t.m_startFailures = 0
               /\ t.m_handledExitGen = s.m_handledExitGen /\ t.m_connectGen = s.m_connectGen
<1>. DEFINE p == IF probing /\ s.m_startWhenUp # NoProfile THEN s.m_startWhenUp ELSE started_id
            q == [s EXCEPT !.m_failures = 0, !.m_startFailures = 0, !.m_startWhenUp = p]
<1>1. 0 \in Gens /\ p \in Profile /\ p \in {s.m_startWhenUp, started_id}
  BY BoundsAssumption, SupFields DEF Gens
<1>2. expectedExit(s, probing) = scheduleRestart(q)
  BY DEF expectedExit
<1>. HIDE DEF p
<1>3. /\ q \in SupervisorFields /\ q.m_startWhenUp = p /\ q.m_failures = 0 /\ q.m_startFailures = 0
      /\ q.m_handledExitGen = s.m_handledExitGen /\ q.m_connectGen = s.m_connectGen
  BY <1>1 DEF SupervisorFields
<1>. HIDE DEF q
<1>. QED BY <1>1, <1>2, <1>3, ScheduleFields

\* After one that was not, a failure is counted; the supervisor backs off or gives up.
LEMMA UnexpectedFields ==
    ASSUME NEW s \in SupervisorFields, NEW connected, NEW stable, NEW frequent,
           started_id \in Profile, s.m_failures < MaxGen, s.m_startFailures < MaxGen
    PROVE  LET t == unexpectedExit(s, connected, stable, frequent)
           IN  /\ t \in SupervisorFields
               /\ t.m_state \in {"GaveUp", "Backoff"}
               /\ t.m_state = "Backoff" => t.m_restartTimer = TRUE
               /\ t.m_startWhenUp \in {s.m_startWhenUp, started_id, NoProfile}
               /\ t.m_failures \in {1, s.m_failures + 1}
               /\ t.m_startFailures \in {s.m_startFailures, s.m_startFailures + 1}
<1>. DEFINE failures == (IF connected /\ stable THEN 0 ELSE s.m_failures) + 1
            startFailures == IF connected THEN s.m_startFailures ELSE s.m_startFailures + 1
            tooFrequent == connected /\ s.m_profileCrashTimer /\ frequent
            resume == IF connected \/ s.m_startWhenUp = NoProfile
                      THEN IF tooFrequent THEN NoProfile ELSE started_id
                      ELSE s.m_startWhenUp
            crash == IF connected THEN ~tooFrequent ELSE s.m_profileCrashTimer
            giveUp == \/ failures >= kGiveUpAfter /\ resume = NoProfile
                      \/ ~connected /\ startFailures >= kGiveUpAfter
            q == [s EXCEPT !.m_failures = failures, !.m_startFailures = startFailures,
                           !.m_profileCrashTimer = crash]
            u == [q EXCEPT !.m_startWhenUp = NoProfile, !.m_state = "GaveUp"]
            v == [q EXCEPT !.m_startWhenUp = resume]
<1>0. failures \in {1, s.m_failures + 1}
  OBVIOUS
<1>1. unexpectedExit(s, connected, stable, frequent) = IF giveUp THEN u ELSE scheduleRestart(v)
  BY DEF unexpectedExit
<1>2. /\ failures \in Gens /\ startFailures \in Gens
      /\ startFailures \in {s.m_startFailures, s.m_startFailures + 1}
  BY BoundsAssumption, SupFields DEF Gens
<1>3. /\ resume \in Profile /\ NoProfile \in Profile
      /\ resume \in {s.m_startWhenUp, started_id, NoProfile}
  BY SupFields DEF Profile
<1>4. crash \in BOOLEAN
  BY DEF SupervisorFields
<1>. HIDE DEF failures, startFailures, resume, crash, giveUp
<1>5. /\ q \in SupervisorFields /\ q.m_failures = failures /\ q.m_startFailures = startFailures
      /\ q.m_handledExitGen = s.m_handledExitGen /\ q.m_connectGen = s.m_connectGen
  BY <1>2, <1>4 DEF SupervisorFields
<1>. HIDE DEF q
<1>6. /\ u \in SupervisorFields /\ u.m_state = "GaveUp" /\ u.m_startWhenUp = NoProfile
      /\ u.m_failures = failures /\ u.m_startFailures = startFailures
      /\ u.m_handledExitGen = s.m_handledExitGen /\ u.m_connectGen = s.m_connectGen
  BY <1>3, <1>5 DEF SupervisorFields, CoreStates
<1>7. /\ v \in SupervisorFields /\ v.m_startWhenUp = resume
      /\ v.m_failures = failures /\ v.m_startFailures = startFailures
      /\ v.m_handledExitGen = s.m_handledExitGen /\ v.m_connectGen = s.m_connectGen
  BY <1>3, <1>5 DEF SupervisorFields
<1>. HIDE DEF u, v
<1>8. CASE giveUp
  <2>1. unexpectedExit(s, connected, stable, frequent) = u
    BY <1>1, <1>8
  <2>. QED BY <2>1, <1>0, <1>2, <1>6
<1>9. CASE ~giveUp
  BY <1>0, <1>1, <1>2, <1>3, <1>7, <1>9, ScheduleFields
<1>. QED BY <1>8, <1>9

\* The generations stay as they are.
LEMMA UnexpectedKeeps ==
    ASSUME NEW s \in SupervisorFields, NEW connected, NEW stable, NEW frequent
    PROVE  /\ unexpectedExit(s, connected, stable, frequent).m_handledExitGen = s.m_handledExitGen
           /\ unexpectedExit(s, connected, stable, frequent).m_connectGen = s.m_connectGen
BY DEF unexpectedExit, scheduleRestart, SupervisorFields

\* The exit of a core that was stable is the first failure.
LEMMA StableFields ==
    ASSUME NEW s \in SupervisorFields, NEW frequent
    PROVE  unexpectedExit(s, TRUE, TRUE, frequent).m_failures = 1
BY DEF unexpectedExit, scheduleRestart, SupervisorFields

\* One report of an exit is taken, and its generation is handled then.
LEMMA ExitTaken ==
    ASSUME IInv, posted # <<>>, posted' = Tail(posted), Head(posted).call = "onCoreExited",
           UNCHANGED <<accepting, process, tasks, frame, prepare_exit>>,
           sup' \in SupervisorFields, sup'.m_connectGen = sup.m_connectGen,
           sup'.m_handledExitGen >= sup.m_handledExitGen, Head(posted).gen <= sup'.m_handledExitGen,
           sup'.m_handledExitGen <= process.generation
    PROVE  /\ posted' \in Seq(Posted) /\ FirstTask' /\ Numbered' /\ InOrder' /\ Reported'
           /\ SpawnPosted => SpawnPosted'
<1>. DEFINE r == Head(posted)
<1>p. /\ posted' \in Seq(Posted) /\ r \in Posted /\ r = posted[1]
      /\ DOMAIN posted = 1..Len(posted) /\ Len(posted) \in Nat \ {0} /\ DOMAIN posted' = 1..Len(posted) - 1
      /\ \A i \in DOMAIN posted' : posted'[i] = posted[i + 1]
  BY Facts, ReportTaken
<1>h. r.call = "onCoreExited" /\ r.gen <= sup'.m_handledExitGen
  OBVIOUS
<1>. HIDE DEF r
<1>i. /\ \A i \in DOMAIN posted' : i + 1 \in DOMAIN posted
      /\ \A i \in DOMAIN posted : i # 1 => i - 1 \in DOMAIN posted' /\ posted'[i - 1] = posted[i]
  BY <1>p
<1>j. \A i \in DOMAIN posted : i = 1 \/ \E j \in DOMAIN posted' : posted'[j] = posted[i]
  BY <1>i
<1>1. FirstTask'
  BY DEF IInv, FirstTask
<1>2. Numbered'
  <2>1. \A i \in DOMAIN posted' : posted'[i].gen <= process.generation
    BY <1>p, <1>i DEF IInv, Numbered
  <2>. QED BY <2>1 DEF IInv, Numbered
<1>3. InOrder'
  <2>1. SUFFICES ASSUME NEW i \in DOMAIN posted', IsSpawn(posted'[i])
                 PROVE  /\ sup'.m_connectGen <= posted'[i].gen
                        /\ \A j \in DOMAIN posted' : i <= j /\ IsSpawn(posted'[j]) => posted'[i].gen <= posted'[j].gen
    BY DEF InOrder, IsSpawn
  <2>2. posted'[i] = posted[i + 1] /\ i + 1 \in DOMAIN posted
    BY <1>p, <1>i
  <2>3. sup'.m_connectGen <= posted'[i].gen
    BY <2>1, <2>2 DEF IInv, InOrder
  <2>4. ASSUME NEW j \in DOMAIN posted', i <= j, IsSpawn(posted'[j]) PROVE posted'[i].gen <= posted'[j].gen
    <3>1. posted'[j] = posted[j + 1] /\ j + 1 \in DOMAIN posted /\ i + 1 <= j + 1
      BY <2>4, <1>p, <1>i
    <3>. QED BY <2>1, <2>2, <2>4, <3>1 DEF IInv, InOrder
  <2>. QED BY <2>3, <2>4
<1>4. Reported'
  <2>1. /\ sup.m_handledExitGen \in Int /\ sup'.m_handledExitGen \in Int /\ process.generation \in Int
        /\ r.gen \in Int
    BY Facts, SupFields, <1>p, Frames DEF Gens
  <2>2. sup'.m_handledExitGen < process.generation =>
            sup.m_handledExitGen < process.generation /\ r.gen # process.generation
    BY <2>1, <1>h
  <2>3. ASSUME NEW i \in DOMAIN posted, r.gen # process.generation, posted[i].gen = process.generation
        PROVE  \E j \in DOMAIN posted' : posted'[j] = posted[i]
    BY <2>3, <1>j, <1>p
  <2>. QED BY <2>2, <2>3 DEF IInv, Reported
<1>5. SpawnPosted => SpawnPosted'
  BY <1>j, <1>p, <1>h DEF SpawnPosted, IsSpawn
<1>. QED BY <1>p, <1>1, <1>2, <1>3, <1>4, <1>5

\* A generation that was not handled before is counted once more, or as the first.
LEMMA OneMore ==
    ASSUME IInv, NEW gen \in Gens, gen > sup.m_handledExitGen, NEW C, counted' = C \cup {gen},
           \/ C = counted /\ sup'.m_failures = sup.m_failures + 1
           \/ C \in {counted, {}} /\ sup'.m_failures = 1,
           sup'.m_handledExitGen = gen,
           sup'.m_startFailures \in {sup.m_startFailures, sup.m_startFailures + 1}
    PROVE  Failures'
<1>. DEFINE h == sup.m_handledExitGen
<1>1. /\ sup.m_failures \in Int /\ sup.m_startFailures \in Int /\ h \in Int /\ h >= 0 /\ gen \in Int
      /\ sup.m_failures <= h /\ sup.m_startFailures <= h /\ sup.m_failures <= Cardinality(counted)
      /\ counted \subseteq 1..h
  BY Facts, SupFields DEF IInv, Failures, Gens
<1>2. IsFiniteSet(counted) /\ IsFiniteSet({})
  <2>1. IsFiniteSet(1..h)
    BY <1>1, FS_Interval
  <2>. QED BY <1>1, <2>1, FS_Subset, FS_EmptySet
<1>3. Cardinality({}) = 0 /\ Cardinality(counted) \in Nat
  BY <1>2, FS_EmptySet, FS_CardinalityType
<1>4. C \subseteq 1..h /\ IsFiniteSet(C) /\ Cardinality(C) \in Nat /\ sup'.m_failures <= Cardinality(C) + 1
      /\ sup'.m_failures <= h + 1
  <2>1. CASE C = counted /\ sup'.m_failures = sup.m_failures + 1
    BY <2>1, <1>1, <1>2, <1>3
  <2>2. CASE C = counted /\ sup'.m_failures = 1
    BY <2>2, <1>1, <1>2, <1>3
  <2>3. CASE C = {} /\ sup'.m_failures = 1
    BY <2>3, <1>1, <1>2, <1>3
  <2>. QED BY <2>1, <2>2, <2>3
<1>5. gen \notin C
  BY <1>1, <1>4
<1>6. Cardinality(counted') = Cardinality(C) + 1
  BY <1>4, <1>5, FS_AddElement
<1>7. counted' \subseteq 1..gen
  BY <1>1, <1>4
<1>8. sup'.m_failures <= gen /\ sup'.m_startFailures <= gen /\ sup'.m_failures <= Cardinality(counted')
  <2>1. sup'.m_failures \in Int /\ sup'.m_startFailures \in Int
    BY <1>1
  <2>. QED BY <2>1, <1>1, <1>4, <1>6
<1>. QED BY <1>7, <1>8 DEF Failures

\* The exit of a core: of one handled before, while the program exits, asked for, or not.
LEMMA OnCoreExitedKeeps ==
    ASSUME IInv, NEW stable \in BOOLEAN, NEW frequent \in BOOLEAN, onCoreExited(stable, frequent)
    PROVE  IInv'
<1>. DEFINE r == Head(posted)
            wasProbing == sup.m_probing /\ r.gen = sup.m_acceptedGen
            s == [sup EXCEPT !.m_handledExitGen = r.gen, !.m_probing = sup.m_probing /\ ~wasProbing]
            q == [s EXCEPT !.m_connectTimer = FALSE]
            wasConnected == ~r.failedToStart /\ r.gen = sup.m_acceptedGen /\ ~wasProbing
            t == unexpectedExit(q, wasConnected, stable, frequent)
<1>u. /\ UNCHANGED <<accepting, deadQueued, probes, process, tasks, frame, conns, m_expectedExitGen, running, events>>
      /\ UNCHANGED <<core_running, prepare_exit, kill_switch, intent, resumed>>
      /\ posted # <<>> /\ posted' = Tail(posted) /\ Head(posted).call = "onCoreExited"
  BY DEF onCoreExited, coreVars
<1>d. \/ /\ r.gen <= sup.m_handledExitGen
         /\ UNCHANGED <<sup, started_id, identityUnsupported, counted>>
      \/ /\ ~(r.gen <= sup.m_handledExitGen) /\ exiting
         /\ sup' = s
         /\ UNCHANGED <<started_id, identityUnsupported, counted>>
      \/ /\ ~(r.gen <= sup.m_handledExitGen) /\ ~exiting
         /\ sup' = expectedExit(q, wasProbing)
         /\ counted' = {}
         /\ UNCHANGED <<started_id, identityUnsupported>>
      \/ /\ ~(r.gen <= sup.m_handledExitGen) /\ ~exiting
         /\ sup' = scheduleRestart(q)
         /\ identityUnsupported' = kill_switch
         /\ UNCHANGED <<started_id, counted>>
      \/ /\ ~(r.gen <= sup.m_handledExitGen) /\ ~exiting
         /\ sup' = t
         /\ counted' = (IF wasConnected /\ stable THEN {} ELSE counted) \cup {r.gen}
         /\ started_id' \in {started_id, NoProfile}
         /\ UNCHANGED identityUnsupported
  BY DEF onCoreExited, Handled
<1>r. r \in Report /\ r.gen \in Gens /\ r.gen \in Int /\ r.gen <= process.generation
  <2>1. r \in Posted /\ r = posted[1] /\ 1 \in DOMAIN posted
    BY <1>u, Facts, ReportTaken
  <2>. QED BY <1>u, <2>1, Frames DEF IInv, Numbered, Gens
<1>s. /\ s \in SupervisorFields /\ s.m_state = sup.m_state /\ s.m_startWhenUp = sup.m_startWhenUp
      /\ s.m_failures = sup.m_failures /\ s.m_startFailures = sup.m_startFailures
      /\ s.m_handledExitGen = r.gen /\ s.m_connectGen = sup.m_connectGen
  <2>1. (sup.m_probing /\ ~wasProbing) \in BOOLEAN
    OBVIOUS
  <2>. HIDE DEF wasProbing, r
  <2>. QED BY <2>1, <1>r, Facts DEF SupervisorFields
<1>q. /\ q \in SupervisorFields /\ q.m_startWhenUp = sup.m_startWhenUp
      /\ q.m_failures = sup.m_failures /\ q.m_startFailures = sup.m_startFailures
      /\ q.m_handledExitGen = r.gen /\ q.m_connectGen = sup.m_connectGen
  <2>. HIDE DEF s, r
  <2>. QED BY <1>s DEF SupervisorFields
<1>. HIDE DEF wasProbing, wasConnected, s, q
<1>h. r.gen > sup.m_handledExitGen =>
        sup.m_failures < MaxGen /\ sup.m_startFailures < MaxGen
  <2>1. /\ sup.m_failures \in Int /\ sup.m_startFailures \in Int /\ r.gen <= MaxGen /\ MaxGen \in Int
        /\ sup.m_failures <= sup.m_handledExitGen /\ sup.m_startFailures <= sup.m_handledExitGen
    BY <1>r, Facts, SupFields, BoundsAssumption DEF IInv, Failures, Gens
  <2>. HIDE DEF r
  <2>. QED BY <2>1, <1>r, Facts
<1>1. CASE r.gen <= sup.m_handledExitGen /\ UNCHANGED <<sup, started_id, identityUnsupported, counted>>
  <2>1. /\ posted' \in Seq(Posted) /\ FirstTask' /\ Numbered' /\ InOrder' /\ Reported'
        /\ SpawnPosted => SpawnPosted'
    BY <1>1, <1>u, Facts, ExitTaken
  <2>2. TypeOK'
    BY <1>1, <1>u, <2>1 DEF IInv, TypeOK
  <2>3. Startup' /\ Failures' /\ Cancelled' /\ Followed'
    BY <1>1, <1>u DEF IInv, Startup, Failures, Cancelled, Followed, SpawnPending, exiting
  <2>4. Watched'
    BY <1>1, <1>u, <2>1 DEF IInv, Watched, EndPending, Replaces, exiting
  <2>. QED BY <2>1, <2>2, <2>3, <2>4, <1>u DEF IInv
<1>2. CASE /\ ~(r.gen <= sup.m_handledExitGen) /\ exiting /\ sup' = s
           /\ UNCHANGED <<started_id, identityUnsupported, counted>>
  <2>1. /\ posted' \in Seq(Posted) /\ FirstTask' /\ Numbered' /\ InOrder' /\ Reported'
    BY <1>2, <1>u, <1>r, <1>s, Facts, ExitTaken
  <2>2. TypeOK'
    BY <1>2, <1>u, <1>s, <2>1 DEF IInv, TypeOK
  <2>3. Failures' /\ Cancelled'
    BY <1>2, <1>u, <1>r, <1>s, Facts, FailuresKept DEF IInv, Cancelled
  <2>4. Startup'
    BY <1>2, <1>u, <1>s DEF IInv, Startup
  <2>5. exiting'
    BY <1>2, <1>u, <1>s DEF exiting
  <2>6. Followed' /\ Watched'
    BY <2>5 DEF Followed, Watched
  <2>. QED BY <2>1, <2>2, <2>3, <2>4, <2>6, <1>u DEF IInv
<1>3. ASSUME ~(r.gen <= sup.m_handledExitGen), sup' \in SupervisorFields,
             sup'.m_state \in {"GaveUp", "Backoff"}, sup'.m_state = "Backoff" => sup'.m_restartTimer = TRUE,
             sup'.m_handledExitGen = r.gen, sup'.m_connectGen = sup.m_connectGen,
             sup'.m_startWhenUp \in {sup.m_startWhenUp, started_id, NoProfile},
             started_id' \in {started_id, NoProfile}, identityUnsupported' \in BOOLEAN,
             Failures'
      PROVE  IInv'
  <2>1. /\ posted' \in Seq(Posted) /\ FirstTask' /\ Numbered' /\ InOrder' /\ Reported'
    BY <1>3, <1>u, <1>r, Facts, ExitTaken
  <2>2. counted' \subseteq Gens
    <3>1. r.gen <= MaxGen
      BY <1>r DEF Gens
    <3>2. counted' \subseteq 1..r.gen
      BY <1>3 DEF Failures
    <3>. HIDE DEF r
    <3>. QED BY <3>1, <3>2, <1>r, BoundsAssumption DEF Gens
  <2>3. TypeOK'
    BY <1>3, <1>u, <2>1, <2>2, Facts DEF IInv, TypeOK
  <2>4. Startup' /\ Watched'
    BY <1>3 DEF Startup, Watched
  <2>5. Followed'
    BY <1>3 DEF Followed
  <2>6. Cancelled'
    BY <1>3, <1>u DEF IInv, Cancelled
  <2>. QED BY <1>3, <2>1, <2>3, <2>4, <2>5, <2>6, <1>u DEF IInv
<1>i. identityUnsupported \in BOOLEAN /\ kill_switch \in BOOLEAN
  BY DEF IInv, TypeOK
<1>4. CASE /\ ~(r.gen <= sup.m_handledExitGen) /\ sup' = expectedExit(q, wasProbing)
           /\ counted' = {} /\ UNCHANGED <<started_id, identityUnsupported>>
  <2>1. /\ sup' \in SupervisorFields /\ sup'.m_state = "Backoff" /\ sup'.m_restartTimer = TRUE
        /\ sup'.m_startWhenUp \in {q.m_startWhenUp, started_id}
        /\ sup'.m_failures = 0 /\ sup'.m_startFailures = 0
        /\ sup'.m_handledExitGen = q.m_handledExitGen /\ sup'.m_connectGen = q.m_connectGen
    BY <1>4, <1>q, Facts, ExpectedFields
  <2>2. Failures'
    BY <1>4, <2>1, <1>q, <1>r, Facts, FailuresKept
  <2>. QED BY <1>3, <1>4, <1>i, <1>q, <2>1, <2>2
<1>5. CASE /\ ~(r.gen <= sup.m_handledExitGen) /\ sup' = scheduleRestart(q)
           /\ identityUnsupported' = kill_switch /\ UNCHANGED <<started_id, counted>>
  <2>1. /\ sup' \in SupervisorFields /\ sup'.m_state = "Backoff" /\ sup'.m_restartTimer = TRUE
        /\ sup'.m_startWhenUp = q.m_startWhenUp
        /\ sup'.m_failures = q.m_failures /\ sup'.m_startFailures = q.m_startFailures
        /\ sup'.m_handledExitGen = q.m_handledExitGen /\ sup'.m_connectGen = q.m_connectGen
    BY <1>5, <1>q, ScheduleFields
  <2>2. Failures'
    BY <1>5, <2>1, <1>q, <1>r, Facts, FailuresKept
  <2>. QED BY <1>3, <1>5, <1>i, <1>q, <2>1, <2>2
<1>6. CASE /\ ~(r.gen <= sup.m_handledExitGen) /\ sup' = t
           /\ counted' = (IF wasConnected /\ stable THEN {} ELSE counted) \cup {r.gen}
           /\ started_id' \in {started_id, NoProfile} /\ UNCHANGED identityUnsupported
  <2>0. r.gen > sup.m_handledExitGen
    BY <1>6, <1>r, Facts
  <2>1. PICK c \in BOOLEAN : /\ sup' = unexpectedExit(q, c, stable, frequent)
                 /\ counted' = (IF c /\ stable THEN {} ELSE counted) \cup {r.gen}
    BY <1>6 DEF wasConnected
  <2>2. q.m_failures < MaxGen /\ q.m_startFailures < MaxGen
    BY <1>h, <1>q, <2>0
  <2>3. q \in SupervisorFields /\ started_id \in Profile
    BY <1>q, Facts
  <2>. HIDE DEF r
  <2>4. /\ sup' \in SupervisorFields
        /\ sup'.m_state \in {"GaveUp", "Backoff"}
        /\ sup'.m_state = "Backoff" => sup'.m_restartTimer = TRUE
        /\ sup'.m_startWhenUp \in {q.m_startWhenUp, started_id, NoProfile}
        /\ sup'.m_failures \in {1, q.m_failures + 1}
        /\ sup'.m_startFailures \in {q.m_startFailures, q.m_startFailures + 1}
    BY <2>1, <2>2, <2>3, UnexpectedFields
  <2>k. sup'.m_handledExitGen = q.m_handledExitGen /\ sup'.m_connectGen = q.m_connectGen
    BY <2>1, <2>3, UnexpectedKeeps
  <2>. DEFINE C == IF c /\ stable THEN {} ELSE counted
  <2>s. c = TRUE /\ stable = TRUE => sup'.m_failures = 1
    BY <2>1, <2>3, StableFields
  <2>5. \/ C = counted /\ sup'.m_failures = sup.m_failures + 1
        \/ C \in {counted, {}} /\ sup'.m_failures = 1
    BY <2>4, <2>s, <1>q
  <2>6. counted' = C \cup {r.gen}
    BY <2>1
  <2>. HIDE DEF C
  <2>7. Failures'
    BY <1>r, <1>q, <2>0, <2>4, <2>k, <2>5, <2>6, OneMore
  <2>. QED BY <1>3, <1>6, <1>i, <1>q, <2>4, <2>k, <2>7
<1>. QED BY <1>d, <1>1, <1>2, <1>4, <1>5, <1>6

-----------------------------------------------------------------------------
(* The steps of DS_cores and of the core. *)

(* t is s with reports of the generation g behind it, or of earlier exits. *)
Longer(s, t, g) ==
    /\ t \in Seq(Posted)
    /\ \A i \in DOMAIN s : i \in DOMAIN t /\ t[i] = s[i]
    /\ \A j \in DOMAIN t : j \in DOMAIN s \/ /\ t[j].gen <= g /\ (IsSpawn(t[j]) => t[j].gen = g)
                                             /\ \A i \in DOMAIN s : i < j

LEMMA LongerSame == ASSUME NEW s \in Seq(Posted), NEW g PROVE Longer(s, s, g)
BY DEF Longer

LEMMA LongerAppend ==
    ASSUME NEW s \in Seq(Posted), NEW t \in Seq(Posted), NEW g, Longer(s, t, g),
           NEW r \in Posted, r.gen <= g, IsSpawn(r) => r.gen = g
    PROVE  Longer(s, Append(t, r), g) /\ \E i \in DOMAIN Append(t, r) : Append(t, r)[i] = r
<1>. DEFINE u == Append(t, r)
<1>1. u \in Seq(Posted) /\ Len(u) = Len(t) + 1 /\ (\A i \in 1..Len(t) : u[i] = t[i]) /\ u[Len(t) + 1] = r
  BY AppendProperties
<1>2. Len(t) \in Nat /\ DOMAIN t = 1..Len(t) /\ DOMAIN u = 1..Len(t) + 1
  BY <1>1, LenProperties
<1>. HIDE DEF u
<1>3. \A i \in DOMAIN s : i \in DOMAIN t /\ u[i] = s[i]
  BY <1>1, <1>2 DEF Longer
<1>4. ASSUME NEW j \in DOMAIN u, j \notin DOMAIN s
      PROVE  u[j].gen <= g /\ (IsSpawn(u[j]) => u[j].gen = g) /\ \A i \in DOMAIN s : i < j
  <2>1. CASE j \in DOMAIN t
    BY <1>1, <1>2, <1>4, <2>1 DEF Longer
  <2>2. CASE j = Len(t) + 1
    BY <1>1, <1>2, <1>3, <2>2
  <2>. QED BY <1>2, <2>1, <2>2
<1>5. Longer(s, u, g)
  BY <1>1, <1>2, <1>3, <1>4 DEF Longer
<1>6. \E i \in DOMAIN u : u[i] = r
  BY <1>1, <1>2
<1>. QED BY <1>5, <1>6 DEF u

\* The reports DS_cores posts of the current generation.
LEMMA Current ==
    ASSUME IInv, NEW b \in BOOLEAN, NEW c \in BOOLEAN
    PROVE  /\ Spawned \in Posted /\ Spawned.gen = process.generation /\ Spawned.gen <= process.generation
           /\ ExitReport(b, c) \in Report /\ ExitReport(b, c) \in Posted /\ IsExit(ExitReport(b, c))
           /\ ExitReport(b, c).gen = process.generation /\ ExitReport(b, c).gen <= process.generation
           /\ ~IsSpawn(ExitReport(b, c)) /\ IsSpawn(Spawned)
BY Facts DEF Spawned, ExitReport, Posted, Report, IsExit, IsSpawn

(* What such a step leaves alone. *)
DsRule ==
    /\ UNCHANGED <<sup, accepting, deadQueued, probes, prepare_exit, kill_switch, identityUnsupported>>
    /\ UNCHANGED <<intent, resumed, counted>>
    /\ started_id' \in {started_id, NoProfile}
    /\ sup.m_state # "NotStarted"

LEMMA DsKeeps ==
    ASSUME IInv, DsRule, process'.generation = process.generation,
           process'.restarting => process.generation < MaxGen,
           Longer(posted, posted', process.generation),
           frame' \in Report => frame'.gen <= process.generation
    PROVE  Startup' /\ Failures' /\ Cancelled' /\ Numbered' /\ InOrder'
<1>1. Startup' /\ Failures' /\ Cancelled'
  BY SupKept DEF DsRule
<1>2. Numbered'
  <2>1. \A i \in DOMAIN posted' : posted'[i].gen <= process.generation
    BY DEF IInv, Numbered, Longer
  <2>. QED BY <2>1 DEF IInv, DsRule, Numbered
<1>3. InOrder'
  <2>1. SUFFICES ASSUME NEW i \in DOMAIN posted', IsSpawn(posted'[i])
                 PROVE  /\ sup'.m_connectGen <= posted'[i].gen
                        /\ \A j \in DOMAIN posted' : i <= j /\ IsSpawn(posted'[j]) => posted'[i].gen <= posted'[j].gen
    BY DEF InOrder, IsSpawn
  <2>2. sup'.m_connectGen = sup.m_connectGen /\ sup.m_connectGen <= process.generation
    BY DEF IInv, Numbered, DsRule
  <2>3. CASE i \in DOMAIN posted
    <3>1. posted'[i] = posted[i] /\ posted[i].gen <= process.generation
      BY <2>3 DEF IInv, Numbered, Longer
    <3>. QED BY <2>1, <2>2, <2>3, <3>1 DEF IInv, InOrder, Longer
  <2>4. CASE i \notin DOMAIN posted
    <3>1. posted'[i].gen = process.generation /\ \A j \in DOMAIN posted : j < i
      BY <2>1, <2>4 DEF Longer
    <3>2. DOMAIN posted \subseteq Int /\ i \in Int
      <4>1. posted' \in Seq(Posted)
        BY DEF Longer
      <4>. QED BY <4>1, Facts, LenProperties
    <3>3. \A j \in DOMAIN posted : ~(i <= j)
      BY <3>1, <3>2
    <3>4. ASSUME NEW j \in DOMAIN posted', i <= j, IsSpawn(posted'[j]) PROVE posted'[j].gen = process.generation
      BY <3>3, <3>4 DEF Longer
    <3>. QED BY <2>2, <3>1, <3>4, Facts
  <2>. QED BY <2>3, <2>4
<1>. QED BY <1>1, <1>2, <1>3

\* Once DS_cores has run a task or a process, the first start is behind it.
LEMMA StartIsFirst ==
    ASSUME IInv, \/ \E t : Taken(t)
                 \/ tasks' = tasks /\ (process.state # "none" \/ process.restarting \/ frame # NoFrame)
    PROVE  FirstTask'
<1>1. \A j \in DOMAIN tasks' : tasks'[j].op # "Start"
  BY DEF IInv, FirstTask, Taken
<1>. QED BY <1>1 DEF FirstTask

\* The process is gone, and reported unless it was gone before or nobody would care.
LEMMA GoneKeeps ==
    ASSUME IInv, DsRule, ~process.restarting,
           process'.state = "none", process'.generation = process.generation, ~process'.restarting,
           tasks' = tasks \/ \E t : Taken(t) /\ t.op \notin Spawns,
           frame' = frame \/ frame \notin StopRestarts \cup Report,
           Longer(posted, posted', process.generation),
           \/ process.state = "none" \/ prepare_exit
           \/ \E i \in DOMAIN posted' : IsExit(posted'[i]) /\ posted'[i].gen = process.generation
           \/ frame' \in Report /\ frame'.gen = process.generation
    PROVE  Reported' /\ Followed' /\ Watched'
<1>1. Reported'
  <2>1. ASSUME NEW i \in DOMAIN posted, IsExit(posted[i]) PROVE i \in DOMAIN posted' /\ IsExit(posted'[i]) /\ posted'[i].gen = posted[i].gen
    BY <2>1 DEF Longer
  <2>. QED BY <2>1 DEF IInv, DsRule, Reported, IsExit
<1>2. SpawnPending => SpawnPending'
  <2>1. ASSUME NEW i \in DOMAIN tasks, tasks[i].op \in Spawns PROVE \E j \in DOMAIN tasks' : tasks'[j].op \in Spawns
    BY <2>1 DEF Taken
  <2>. QED BY <2>1 DEF SpawnPending
<1>3. exiting' = exiting
  BY DEF DsRule, exiting
<1>4. Followed'
  BY <1>2, <1>3 DEF IInv, DsRule, Followed
<1>5. Watched'
  BY DEF Watched
<1>. QED BY <1>1, <1>4, <1>5

\* A restart is under way: nothing is left to report or to watch.
LEMMA RestartingKeeps ==
    ASSUME process'.restarting, process'.state # "up"
    PROVE  Reported' /\ Followed' /\ Watched'
BY DEF Reported, Followed, SpawnPending, Watched

\* Types of the process after its steps.
LEMMA ProcessSteps ==
    ASSUME IInv
    PROVE  /\ \A st \in {"none", "up", "doomed"} :
                 /\ [process EXCEPT !.state = st] \in ProcessFields
                 /\ [process EXCEPT !.state = st].state = st
                 /\ [process EXCEPT !.state = st].generation = process.generation
                 /\ [process EXCEPT !.state = st].restarting = process.restarting
BY Facts DEF ProcessFields

\* The types after a step of DS_cores.
LEMMA DsTypes ==
    ASSUME IInv, DsRule, process' \in ProcessFields, tasks' \in Seq(Task), posted' \in Seq(Posted),
           frame' \in StopRestarts \cup {[op |-> "Reset"], NoFrame} \cup Report,
           conns' \subseteq Gens, m_expectedExitGen' \in Gens, core_running' \in BOOLEAN,
           running' \in Profile, events' \in 0..MaxEvents
    PROVE  TypeOK'
<1>1. frame' \in Task \cup Report \cup {NoFrame}
  BY Frames
<1>2. started_id' \in Profile
  BY Facts DEF DsRule
<1>. QED BY <1>1, <1>2 DEF IInv, TypeOK, DsRule

LEMMA Scalars ==
    ASSUME IInv
    PROVE  /\ conns \subseteq Gens /\ m_expectedExitGen \in Gens /\ running \in Profile /\ events \in 0..MaxEvents
           /\ core_running \in BOOLEAN
           /\ frame \in StopRestarts \cup {[op |-> "Reset"], NoFrame} \cup Report
BY DEF IInv, TypeOK

\* Where DS_cores has something to do, start() was called.
LEMMA HasStarted ==
    ASSUME IInv, tasks # <<>> \/ frame # NoFrame \/ process.state # "none" \/ process.restarting
    PROVE  sup.m_state # "NotStarted"
BY DEF IInv, Startup

\* The process ends while DS_cores minds it, and is reported.
LEMMA NotRunningKeeps ==
    ASSUME IInv, DsRule, ~process.restarting, process.state # "none",
           tasks' = tasks \/ \E t : Taken(t) /\ t.op \notin Spawns, tasks' \in Seq(Task),
           NEW report \in Report, report.gen = process.generation, NotRunning(report, Blocks),
           conns' \subseteq Gens, m_expectedExitGen' \in Gens, running' \in Profile, events' \in 0..MaxEvents
    PROVE  IInv'
<1>. DEFINE before == IF process.state = "launching" THEN Append(posted, Spawned) ELSE posted
            g == process.generation
<1>1. /\ process' = [process EXCEPT !.state = "none"]
      /\ frame' = IF ~prepare_exit /\ Blocks THEN report ELSE frame
      /\ posted' = IF ~prepare_exit /\ ~Blocks THEN Append(before, report) ELSE before
      /\ core_running' = FALSE
  BY DEF NotRunning
<1>2. /\ process' \in ProcessFields /\ process'.state = "none" /\ process'.generation = g
      /\ process'.restarting = process.restarting
  BY <1>1, ProcessSteps
<1>3. Longer(posted, before, g) /\ before \in Seq(Posted)
  <2>1. CASE process.state = "launching"
    <3>1. Longer(posted, Append(posted, Spawned), g)
      BY Facts, Current, LongerSame, LongerAppend
    <3>. QED BY <2>1, <3>1 DEF Longer
  <2>2. CASE process.state # "launching"
    BY <2>2, Facts, LongerSame
  <2>. QED BY <2>1, <2>2
<1>4. report \in Posted /\ report.gen <= g /\ IsExit(report) /\ ~IsSpawn(report)
  BY Frames, Facts DEF IsExit, IsSpawn
<1>. HIDE DEF before
<1>5. Longer(posted, Append(before, report), g) /\ \E i \in DOMAIN Append(before, report) : Append(before, report)[i] = report
  BY <1>3, <1>4, Facts, LongerAppend
<1>6. Longer(posted, posted', g) /\ posted' \in Seq(Posted)
  BY <1>1, <1>3, <1>5 DEF Longer
<1>7. \/ prepare_exit
      \/ \E i \in DOMAIN posted' : IsExit(posted'[i]) /\ posted'[i].gen = g
      \/ frame' \in Report /\ frame'.gen = g
  <2>1. CASE ~prepare_exit /\ Blocks
    BY <1>1, <2>1
  <2>2. CASE ~prepare_exit /\ ~Blocks
    BY <1>1, <1>4, <1>5, <2>2
  <2>. QED BY <2>1, <2>2
<1>8. frame' = frame \/ (frame = NoFrame /\ frame' = report)
  BY <1>1 DEF Blocks
<1>9. frame' = frame \/ frame \notin StopRestarts \cup Report
  BY <1>8, Frames
<1>10. frame' \in StopRestarts \cup {[op |-> "Reset"], NoFrame} \cup Report /\ (frame' \in Report => frame'.gen <= g)
  BY <1>4, <1>8, Scalars DEF IInv, Numbered
<1>11. core_running' \in BOOLEAN
  BY <1>1
<1>12. TypeOK'
  BY <1>2, <1>6, <1>10, <1>11, DsTypes
<1>13. Startup' /\ Failures' /\ Cancelled' /\ Numbered' /\ InOrder'
  BY <1>2, <1>6, <1>10, DsKeeps
<1>14. FirstTask'
  BY StartIsFirst
<1>15. Reported' /\ Followed' /\ Watched'
  BY <1>2, <1>6, <1>7, <1>9, GoneKeeps
<1>. QED BY <1>10, <1>12, <1>13, <1>14, <1>15 DEF IInv

\* A task that finds no process leaves everything as it is.
LEMMA NothingKeeps ==
    ASSUME IInv, DsRule, UNCHANGED <<process, posted>>, ~process.restarting, process.state = "none",
           \/ tasks' = tasks /\ frame # NoFrame
           \/ \E t : Taken(t) /\ t.op \notin Spawns,
           tasks' \in Seq(Task),
           frame' = frame \/ (frame' = NoFrame /\ frame \notin StopRestarts \cup Report),
           conns' \subseteq Gens, m_expectedExitGen' \in Gens, core_running' \in BOOLEAN,
           running' \in Profile, events' \in 0..MaxEvents
    PROVE  IInv'
<1>1. /\ frame' \in StopRestarts \cup {[op |-> "Reset"], NoFrame} \cup Report
      /\ frame' \in Report => frame'.gen <= process.generation
  BY Scalars, Frames DEF IInv, Numbered
<1>2. Longer(posted, posted', process.generation) /\ process' \in ProcessFields /\ posted' \in Seq(Posted)
  BY Facts, LongerSame
<1>3. TypeOK'
  BY <1>1, <1>2, DsTypes
<1>4. Startup' /\ Failures' /\ Cancelled' /\ Numbered' /\ InOrder'
  BY <1>1, <1>2, DsKeeps
<1>5. FirstTask'
  BY StartIsFirst
<1>6. Reported' /\ Followed' /\ Watched'
  <2>1. frame' = frame \/ frame \notin StopRestarts \cup Report
    OBVIOUS
  <2>2. tasks' = tasks \/ \E t : Taken(t) /\ t.op \notin Spawns
    OBVIOUS
  <2>. QED BY <1>2, <2>1, <2>2, GoneKeeps
<1>. QED BY <1>1, <1>3, <1>4, <1>5, <1>6 DEF IInv

\* Kill(), in a task.
LEMMA KillKeeps ==
    ASSUME IInv, DsRule, ~process.restarting, NEW t, Taken(t), t.op \notin Spawns, Kill(Blocks),
           conns' = conns, m_expectedExitGen' \in Gens, running' = running, events' = events
    PROVE  IInv'
<1>1. tasks' \in Seq(Task)
  BY DEF Taken
<1>2. CASE process.state = "none"
  <2>1. UNCHANGED <<process, core_running, posted, frame>>
    BY <1>2 DEF Kill
  <2>. QED BY <1>1, <1>2, <2>1, Scalars, NothingKeeps
<1>3. CASE process.state # "none"
  <2>1. NotRunning(ExitReport(FALSE, FALSE), Blocks)
    BY <1>3 DEF Kill
  <2>2. ExitReport(FALSE, FALSE) \in Report /\ ExitReport(FALSE, FALSE).gen = process.generation
    BY Current
  <2>. QED BY <1>1, <1>3, <2>1, <2>2, Scalars, NotRunningKeeps
<1>. QED BY <1>2, <1>3

\* The kill for changed privileges.
LEMMA TaskKillKeeps == ASSUME IInv, TaskKill PROVE IInv'
<1>1. /\ ~process.restarting /\ tasks # <<>> /\ tasks' = Tail(tasks) /\ Head(tasks).op = "Kill"
      /\ Kill(Blocks) /\ m_expectedExitGen' = process.generation
      /\ UNCHANGED <<started_id, running, events, sup, accepting, deadQueued, probes, conns>>
      /\ UNCHANGED <<prepare_exit, kill_switch, identityUnsupported, intent, resumed, counted>>
  BY DEF TaskKill, RunTask, DsFree, DsOnly, history
<1>2. Taken(Head(tasks)) /\ DsRule
  BY <1>1, Facts, RunTakes, HasStarted DEF DsRule
<1>3. Head(tasks).op \notin Spawns /\ m_expectedExitGen' \in Gens
  BY <1>1, Facts DEF Spawns
<1>. QED BY <1>1, <1>2, <1>3, KillKeeps

\* The kill that ends the program.
LEMMA TaskExitKillKeeps == ASSUME IInv, TaskExitKill PROVE IInv'
<1>1. /\ ~process.restarting /\ tasks # <<>> /\ tasks' = Tail(tasks) /\ Head(tasks).op = "ExitKill"
      /\ Kill(Blocks) /\ m_expectedExitGen' = m_expectedExitGen
      /\ UNCHANGED <<started_id, running, events, sup, accepting, deadQueued, probes, conns>>
      /\ UNCHANGED <<prepare_exit, kill_switch, identityUnsupported, intent, resumed, counted>>
  BY DEF TaskExitKill, RunTask, DsFree, DsOnly, history
<1>2. Taken(Head(tasks)) /\ DsRule
  BY <1>1, Facts, RunTakes, HasStarted DEF DsRule
<1>3. Head(tasks).op \notin Spawns /\ m_expectedExitGen' \in Gens
  BY <1>1, Scalars DEF Spawns
<1>. QED BY <1>1, <1>2, <1>3, KillKeeps

\* The kill of a core that did not connect, unless another one has taken its place.
LEMMA TaskKillGenKeeps == ASSUME IInv, TaskKillGen PROVE IInv'
<1>1. /\ ~process.restarting /\ tasks # <<>> /\ tasks' = Tail(tasks) /\ Head(tasks).op = "KillGen"
      /\ IF process.generation = Head(tasks).gen THEN Kill(Blocks)
         ELSE UNCHANGED <<process, core_running, posted, frame>>
      /\ m_expectedExitGen' = m_expectedExitGen
      /\ UNCHANGED <<started_id, running, events, sup, accepting, deadQueued, probes, conns>>
      /\ UNCHANGED <<prepare_exit, kill_switch, identityUnsupported, intent, resumed, counted>>
  BY DEF TaskKillGen, RunTask, DsFree, DsOnly, history
<1>. DEFINE t == Head(tasks)
<1>2. Taken(t) /\ DsRule
  BY <1>1, Facts, RunTakes, HasStarted DEF DsRule
<1>3. t.op \notin Spawns /\ m_expectedExitGen' \in Gens
  BY <1>1, Scalars DEF Spawns
<1>4. CASE process.generation = t.gen
  BY <1>1, <1>2, <1>3, <1>4, KillKeeps
<1>5. CASE process.generation # t.gen
  <2>. HIDE DEF t
  <2>1. UNCHANGED <<process, core_running, posted, frame>> /\ t.op = "KillGen"
    BY <1>1, <1>5 DEF t
  <2>2. Longer(posted, posted', process.generation) /\ process' \in ProcessFields /\ posted' \in Seq(Posted)
    BY <2>1, Facts, LongerSame
  <2>3. frame' \in Report => frame'.gen <= process.generation
    BY <2>1 DEF IInv, Numbered
  <2>4. tasks' \in Seq(Task)
    BY <1>2 DEF Taken
  <2>5. TypeOK'
    BY <1>1, <1>2, <2>1, <2>2, <2>4, Scalars, DsTypes
  <2>6. Startup' /\ Failures' /\ Cancelled' /\ Numbered' /\ InOrder'
    BY <1>1, <1>2, <2>1, <2>2, <2>3, DsKeeps
  <2>7. FirstTask'
    BY <1>2, StartIsFirst
  <2>8. Reported'
    BY <1>1, <2>1 DEF IInv, Reported
  <2>9. exiting' = exiting /\ SpawnPosted' = SpawnPosted
    BY <1>1, <2>1 DEF exiting, SpawnPosted
  <2>10. SpawnPending => SpawnPending'
    BY <1>2, <1>3, <2>1 DEF SpawnPending, Taken
  <2>11. Followed'
    BY <1>1, <2>1, <2>9, <2>10 DEF IInv, Followed
  <2>12. EndPending => EndPending'
    BY <1>2, <1>5, <2>1 DEF EndPending, Replaces, Taken
  <2>13. Watched'
    BY <1>1, <2>1, <2>9, <2>12 DEF IInv, Watched
  <2>. QED BY <2>1, <2>5, <2>6, <2>7, <2>8, <2>11, <2>13 DEF IInv
<1>. QED BY <1>4, <1>5

\* CoreProcess::Start begins the next generation.
LEMMA StartFields ==
    ASSUME IInv, process.generation < MaxGen
    PROVE  /\ Start(process) \in ProcessFields
           /\ Start(process).state \in {"launching", "doomed"} /\ ~Start(process).restarting
           /\ Start(process).generation = process.generation + 1
<1>. DEFINE g == process.generation + 1
            id == kill_switch /\ ~identityUnsupported
            q == [process EXCEPT !.generation = g, !.restarting = FALSE, !.guard_identity = id]
<1>1. g \in Gens /\ process.pid \in Gens
  BY Facts, BoundsAssumption DEF Gens, ProcessFields
<1>2. id \in BOOLEAN
  OBVIOUS
<1>3. Start(process) = IF process.state = "doomed" THEN q
                       ELSE [q EXCEPT !.state = "launching", !.pid = g, !.dialed = FALSE]
  BY DEF Start
<1>. HIDE DEF g, id
<1>4. q \in ProcessFields /\ q.generation = g /\ ~q.restarting /\ q.state = process.state
  BY <1>1, <1>2, Facts DEF ProcessFields
<1>. HIDE DEF q
<1>5. /\ Start(process) \in ProcessFields
      /\ Start(process).state \in {"launching", "doomed"} /\ ~Start(process).restarting
      /\ Start(process).generation = g
  <2>1. CASE process.state = "doomed"
    BY <1>3, <1>4, <2>1
  <2>2. CASE process.state # "doomed"
    BY <1>1, <1>3, <1>4, <2>2 DEF ProcessFields
  <2>. QED BY <2>1, <2>2
<1>. QED BY <1>5 DEF g

\* A new core: nobody has heard of it, and it is watched once it is up.
LEMMA NewGenerationKeeps ==
    ASSUME IInv, DsRule, process' = Start(process), process.generation < MaxGen,
           (tasks' = tasks /\ process.restarting) \/ \E t : Taken(t), tasks' \in Seq(Task),
           UNCHANGED <<posted, frame, conns, m_expectedExitGen, core_running, running, events>>
    PROVE  IInv'
<1>1. /\ process' \in ProcessFields /\ process'.state \in {"launching", "doomed"} /\ ~process'.restarting
      /\ process'.generation = process.generation + 1
  BY StartFields
<1>2. TypeOK'
  BY <1>1, Facts, Scalars, DsTypes
<1>3. Startup' /\ Failures' /\ Cancelled'
  BY SupKept DEF DsRule
<1>4. FirstTask'
  BY StartIsFirst
<1>5. Numbered'
  <2>1. ASSUME NEW n, n \in Int, n <= process.generation PROVE n <= process'.generation
    BY <1>1, <2>1, Facts
  <2>2. /\ sup'.m_handledExitGen <= process'.generation /\ sup'.m_connectGen <= process'.generation
        /\ accepting'.gen <= process'.generation
    <3>1. accepting.gen \in Int
      BY Facts DEF Gens
    <3>. QED BY <2>1, <3>1, Facts DEF IInv, Numbered, DsRule
  <2>3. ASSUME NEW i \in DOMAIN posted PROVE posted[i].gen <= process'.generation
    <3>1. posted[i].gen \in Int
      <4>1. posted[i] \in Posted
        BY <2>3, Facts, LenProperties
      <4>. QED BY <4>1, Frames DEF Gens
    <3>. QED BY <2>1, <3>1 DEF IInv, Numbered
  <2>4. frame \in Report => frame.gen <= process'.generation
    <3>1. frame \in Report => frame.gen \in Int
      BY Frames DEF Gens
    <3>. QED BY <2>1, <3>1 DEF IInv, Numbered
  <2>. QED BY <1>1, <2>2, <2>3, <2>4 DEF Numbered
<1>6. InOrder'
  BY DEF IInv, InOrder, DsRule
<1>7. Reported' /\ Watched'
  BY <1>1 DEF Reported, Watched
<1>8. sup'.m_handledExitGen # process'.generation
  BY <1>1, Facts DEF DsRule
<1>9. Followed'
  BY <1>8 DEF Followed
<1>. QED BY <1>2, <1>3, <1>4, <1>5, <1>6, <1>7, <1>9, Scalars DEF IInv

\* The first start.
LEMMA TaskStartKeeps == ASSUME IInv, TaskStart PROVE IInv'
<1>1. /\ tasks # <<>> /\ tasks' = Tail(tasks) /\ Head(tasks).op = "Start" /\ process' = Start(process)
      /\ UNCHANGED <<posted, frame, conns, m_expectedExitGen, core_running, running, events>>
      /\ UNCHANGED <<started_id, sup, accepting, deadQueued, probes>>
      /\ UNCHANGED <<prepare_exit, kill_switch, identityUnsupported, intent, resumed, counted>>
  BY DEF TaskStart, RunTask, history, mainVars, settings
<1>2. Taken(Head(tasks)) /\ DsRule
  BY <1>1, Facts, RunTakes, HasStarted DEF DsRule
<1>3. process.generation = 0
  BY <1>1, <1>2 DEF IInv, FirstTask, Taken
<1>4. process.generation < MaxGen /\ tasks' \in Seq(Task)
  BY <1>2, <1>3, BoundsAssumption DEF Taken
<1>. QED BY <1>1, <1>2, <1>4, NewGenerationKeeps

\* The end of Restart().
LEMMA FinishRestartKeeps == ASSUME IInv, FinishRestart PROVE IInv'
<1>1. /\ process.restarting /\ process' = Start(process)
      /\ UNCHANGED <<tasks, posted, frame, conns, m_expectedExitGen, core_running, running, events>>
      /\ UNCHANGED <<started_id, sup, accepting, deadQueued, probes>>
      /\ UNCHANGED <<prepare_exit, kill_switch, identityUnsupported, intent, resumed, counted>>
  BY DEF FinishRestart, history, mainVars, settings
<1>2. process.generation < MaxGen
  BY <1>1 DEF IInv, Numbered
<1>3. DsRule
  BY <1>1, HasStarted DEF DsRule
<1>. QED BY <1>1, <1>2, <1>3, Facts, NewGenerationKeeps

\* Restart() up to its wait.
LEMMA BeginRestartKeeps ==
    ASSUME IInv, DsRule, NEW b \in BOOLEAN, BeginRestart(b),
           \/ \E t : Taken(t)
           \/ tasks' = tasks /\ frame # NoFrame,
           tasks' \in Seq(Task), frame' \in {frame, NoFrame}, running' \in Profile,
           UNCHANGED <<posted, conns, m_expectedExitGen>>
    PROVE  IInv'
<1>1. /\ process.generation < MaxGen
      /\ process' = [process EXCEPT !.restarting = TRUE, !.state = IF b THEN "doomed" ELSE "none"]
  BY DEF BeginRestart
<1>2. core_running' \in BOOLEAN
  BY DEF BeginRestart
<1>3. events' \in 0..MaxEvents
  BY Scalars, BoundsAssumption DEF BeginRestart, Event
<1>4. /\ process' \in ProcessFields /\ process'.state # "up" /\ process'.restarting
      /\ process'.generation = process.generation
  BY <1>1, Facts DEF ProcessFields
<1>5. frame' \in StopRestarts \cup {[op |-> "Reset"], NoFrame} \cup Report /\ (frame' \in Report => frame'.gen <= process.generation)
  BY Scalars, Frames DEF IInv, Numbered
<1>6. Longer(posted, posted', process.generation)
  BY Facts, LongerSame
<1>7. TypeOK'
  BY <1>2, <1>3, <1>4, <1>5, Scalars, Facts, DsTypes
<1>8. Startup' /\ Failures' /\ Cancelled' /\ Numbered' /\ InOrder'
  BY <1>1, <1>4, <1>5, <1>6, DsKeeps
<1>9. FirstTask'
  BY StartIsFirst
<1>10. Reported' /\ Followed' /\ Watched'
  BY <1>4, RestartingKeeps
<1>. QED BY <1>5, <1>7, <1>8, <1>9, <1>10 DEF IInv

\* A handler waits for a stop, with its task in hand.
LEMMA WaitsKeeps ==
    ASSUME IInv, DsRule, NEW t, Taken(t), frame = NoFrame, frame' = t,
           t \in StopRestarts \/ t = [op |-> "Reset"],
           UNCHANGED <<process, posted, conns, m_expectedExitGen, core_running, running, events>>
    PROVE  IInv'
<1>1. t \in Task /\ t \notin Report /\ (t \in StopRestarts => t.op = "StopRestart")
      /\ (t = [op |-> "Reset"] => t.op = "Reset") /\ NoFrame \notin Report
  BY Frames
<1>2. Longer(posted, posted', process.generation) /\ tasks' \in Seq(Task)
  BY Facts, LongerSame DEF Taken
<1>3. TypeOK'
  BY <1>2, Scalars, Facts, DsTypes
<1>4. Startup' /\ Failures' /\ Cancelled' /\ Numbered' /\ InOrder'
  <2>1. process'.restarting => process.generation < MaxGen
    BY DEF IInv, Numbered
  <2>. QED BY <1>1, <1>2, <2>1, DsKeeps
<1>5. FirstTask'
  BY StartIsFirst
<1>6. Reported'
  BY <1>1 DEF IInv, Reported, DsRule
<1>7. exiting' = exiting /\ EndPending'
  BY <1>1 DEF exiting, EndPending, DsRule
<1>8. SpawnPending => SpawnPending'
  <2>1. ASSUME t = [op |-> "Reset"], NEW i \in DOMAIN tasks, tasks[i].op \in Spawns
        PROVE  \E j \in DOMAIN tasks' : tasks'[j].op \in Spawns
    BY <2>1 DEF Taken, Spawns
  <2>2. NoFrame \notin StopRestarts
    BY Frames
  <2>. QED BY <2>1, <2>2 DEF SpawnPending
<1>9. Followed'
  BY <1>7, <1>8 DEF IInv, Followed, DsRule
<1>10. Watched'
  BY <1>7 DEF Watched
<1>. QED BY <1>3, <1>4, <1>5, <1>6, <1>9, <1>10 DEF IInv

\* The task of a restart: it waits for a stop, restarts, or finds the program exiting.
LEMMA TaskRestartKeeps == ASSUME IInv, NEW b \in BOOLEAN, TaskRestart(b) PROVE IInv'
<1>1. /\ ~process.restarting /\ tasks # <<>> /\ tasks' = Tail(tasks) /\ Head(tasks).op \in {"Restart", "StopRestart"}
      /\ UNCHANGED <<posted, m_expectedExitGen, started_id, running, sup, accepting, deadQueued, probes, conns>>
      /\ UNCHANGED <<prepare_exit, kill_switch, identityUnsupported, intent, resumed, counted>>
  BY DEF TaskRestart, RunTask, DsFree, DsOnly, history
<1>2. \/ prepare_exit /\ UNCHANGED <<process, core_running, frame, events>>
      \/ /\ Head(tasks).op = "StopRestart" /\ Blocks
         /\ frame' = Head(tasks) /\ UNCHANGED <<process, core_running, events>>
      \/ BeginRestart(b) /\ UNCHANGED frame
  BY DEF TaskRestart
<1>3. Taken(Head(tasks)) /\ DsRule
  BY <1>1, Facts, RunTakes, HasStarted DEF DsRule
<1>4. tasks' \in Seq(Task) /\ Head(tasks) \in Task
  BY <1>3 DEF Taken
<1>5. CASE prepare_exit /\ UNCHANGED <<process, core_running, frame, events>>
  <2>1. Longer(posted, posted', process.generation)
    BY <1>1, Facts, LongerSame
  <2>2. TypeOK'
    BY <1>1, <1>3, <1>4, <1>5, Scalars, Facts, DsTypes
  <2>3. Startup' /\ Failures' /\ Cancelled' /\ Numbered' /\ InOrder'
    <3>1. /\ process'.restarting => process.generation < MaxGen
          /\ frame' \in Report => frame'.gen <= process.generation
      BY <1>5 DEF IInv, Numbered
    <3>. QED BY <1>1, <1>3, <1>5, <2>1, <3>1, DsKeeps
  <2>4. FirstTask'
    BY <1>3, StartIsFirst
  <2>5. Reported' /\ Followed' /\ Watched'
    BY <1>1, <1>5 DEF Reported, Followed, Watched, exiting
  <2>. QED BY <1>5, <2>2, <2>3, <2>4, <2>5, Scalars DEF IInv
<1>6. CASE /\ Head(tasks).op = "StopRestart" /\ Blocks
           /\ frame' = Head(tasks) /\ UNCHANGED <<process, core_running, events>>
  <2>1. Head(tasks) \in StopRestarts
    BY <1>4, <1>6 DEF Task, StopRestarts
  <2>2. frame = NoFrame
    BY <1>6 DEF Blocks
  <2>. QED BY <1>1, <1>3, <1>6, <2>1, <2>2, WaitsKeeps
<1>7. CASE BeginRestart(b) /\ UNCHANGED frame
  BY <1>1, <1>3, <1>4, <1>7, Scalars, BeginRestartKeeps
<1>. QED BY <1>2, <1>5, <1>6, <1>7

\* The stop of a restart is over.
LEMMA StoppedForRestartKeeps == ASSUME IInv, NEW b \in BOOLEAN, StoppedForRestart(b) PROVE IInv'
<1>1. /\ frame # NoFrame /\ frame' = NoFrame /\ running' = NoProfile /\ BeginRestart(b)
      /\ started_id' \in {started_id, NoProfile}
      /\ UNCHANGED <<tasks, posted, m_expectedExitGen, sup, accepting, deadQueued, probes, conns>>
      /\ UNCHANGED <<prepare_exit, kill_switch, identityUnsupported, intent, resumed, counted>>
  BY DEF StoppedForRestart, Unblocked, DsOnly, history
<1>2. DsRule
  BY <1>1, HasStarted DEF DsRule
<1>. QED BY <1>1, <1>2, Facts, BeginRestartKeeps

\* The kill of a reset, which reports the exit at once.
LEMMA KillForResetKeeps ==
    ASSUME IInv, DsRule, ~process.restarting, NEW after, KillForReset(after),
           after = frame \/ (after = NoFrame /\ frame \notin StopRestarts \cup Report),
           \/ tasks' = tasks /\ frame # NoFrame
           \/ \E t : Taken(t) /\ t.op \notin Spawns,
           tasks' \in Seq(Task), conns' = conns, running' \in Profile, events' = events
    PROVE  IInv'
<1>. DEFINE before == IF process.state = "launching" THEN Append(posted, Spawned) ELSE posted
            report == ExitReport(FALSE, FALSE)
            g == process.generation
<1>1. /\ m_expectedExitGen' = g /\ frame' = after /\ g \in Gens
  BY Facts DEF KillForReset
<1>2. CASE process.state = "none"
  <2>1. UNCHANGED <<process, core_running, posted>>
    BY <1>2 DEF KillForReset
  <2>2. core_running' \in BOOLEAN /\ conns' \subseteq Gens /\ events' \in 0..MaxEvents
    BY <2>1, Scalars
  <2>. QED BY <1>1, <1>2, <2>1, <2>2, NothingKeeps
<1>3. CASE process.state # "none"
  <2>1. /\ process' = [process EXCEPT !.state = "none"] /\ core_running' = FALSE
        /\ posted' = before \o (IF prepare_exit THEN <<>> ELSE <<report>>)
    BY <1>3 DEF KillForReset
  <2>2. /\ process' \in ProcessFields /\ process'.state = "none" /\ process'.generation = g
        /\ process'.restarting = process.restarting
    BY <2>1, ProcessSteps
  <2>3. Longer(posted, before, g) /\ before \in Seq(Posted)
    <3>1. CASE process.state = "launching"
      <4>1. Longer(posted, Append(posted, Spawned), g)
        BY Facts, Current, LongerSame, LongerAppend
      <4>. QED BY <3>1, <4>1 DEF Longer
    <3>2. CASE process.state # "launching"
      BY <3>2, Facts, LongerSame
    <3>. QED BY <3>1, <3>2
  <2>4. report \in Posted /\ report.gen = g /\ report.gen <= g /\ IsExit(report) /\ ~IsSpawn(report)
    BY Current
  <2>. HIDE DEF before, report
  <2>5. before \o <<>> = before /\ before \o <<report>> = Append(before, report)
    BY <2>3, <2>4, ConcatEmptySeq, AppendIsConcat
  <2>6. Longer(posted, Append(before, report), g) /\ \E i \in DOMAIN Append(before, report) : Append(before, report)[i] = report
    BY <2>3, <2>4, Facts, LongerAppend
  <2>7. posted' = IF prepare_exit THEN before ELSE Append(before, report)
    BY <2>1, <2>5
  <2>8. Longer(posted, posted', g) /\ posted' \in Seq(Posted)
    BY <2>3, <2>6, <2>7 DEF Longer
  <2>9. prepare_exit \/ \E i \in DOMAIN posted' : IsExit(posted'[i]) /\ posted'[i].gen = g
    BY <2>4, <2>6, <2>7
  <2>10. frame' = frame \/ frame \notin StopRestarts \cup Report
    BY <1>1
  <2>11. frame' \in StopRestarts \cup {[op |-> "Reset"], NoFrame} \cup Report /\ (frame' \in Report => frame'.gen <= g)
    BY <1>1, Scalars, Frames DEF IInv, Numbered
  <2>12. core_running' \in BOOLEAN /\ conns' \subseteq Gens /\ events' \in 0..MaxEvents
    BY <2>1, Scalars
  <2>13. TypeOK'
    BY <1>1, <2>2, <2>8, <2>11, <2>12, DsTypes
  <2>14. Startup' /\ Failures' /\ Cancelled' /\ Numbered' /\ InOrder'
    BY <2>2, <2>8, <2>11, DsKeeps
  <2>15. FirstTask'
    BY StartIsFirst
  <2>16. tasks' = tasks \/ \E t : Taken(t) /\ t.op \notin Spawns
    OBVIOUS
  <2>17. Reported' /\ Followed' /\ Watched'
    BY <2>2, <2>8, <2>9, <2>10, <2>16, GoneKeeps
  <2>. QED BY <2>11, <2>13, <2>14, <2>15, <2>17 DEF IInv
<1>. QED BY <1>2, <1>3

\* resetCore's task: it waits for a stop, or kills.
LEMMA TaskResetKeeps == ASSUME IInv, TaskReset PROVE IInv'
<1>1. /\ ~process.restarting /\ tasks # <<>> /\ tasks' = Tail(tasks) /\ Head(tasks).op = "Reset"
      /\ UNCHANGED <<running, events, sup, accepting, deadQueued, probes, conns>>
      /\ UNCHANGED <<prepare_exit, kill_switch, identityUnsupported, intent, resumed, counted>>
  BY DEF TaskReset, RunTask, DsFree, DsOnly, history
<1>2. \/ /\ Blocks /\ frame' = Head(tasks)
         /\ UNCHANGED <<posted, process, m_expectedExitGen, core_running, started_id>>
      \/ KillForReset(frame)
  BY DEF TaskReset
<1>3. Taken(Head(tasks)) /\ started_id' \in {started_id, NoProfile}
  BY <1>1, <1>2, Facts, RunTakes DEF KillForReset
<1>4. DsRule
  BY <1>1, <1>3, HasStarted DEF DsRule
<1>5. tasks' \in Seq(Task) /\ Head(tasks) \in Task /\ Head(tasks).op \notin Spawns
  BY <1>1, <1>3 DEF Taken, Spawns
<1>6. CASE /\ Blocks /\ frame' = Head(tasks)
           /\ UNCHANGED <<posted, process, m_expectedExitGen, core_running, started_id>>
  <2>1. Head(tasks) = [op |-> "Reset"]
    BY <1>1, <1>5 DEF Task, StopRestarts
  <2>2. frame = NoFrame
    BY <1>6 DEF Blocks
  <2>. QED BY <1>1, <1>3, <1>4, <1>6, <2>1, <2>2, WaitsKeeps
<1>7. CASE KillForReset(frame)
  BY <1>1, <1>3, <1>4, <1>5, <1>7, Scalars, KillForResetKeeps
<1>. QED BY <1>2, <1>6, <1>7

\* The stop of a reset is over.
LEMMA StoppedForResetKeeps == ASSUME IInv, StoppedForReset PROVE IInv'
<1>1. /\ ~process.restarting /\ frame = [op |-> "Reset"] /\ frame # NoFrame /\ running' = NoProfile
      /\ KillForReset(NoFrame) /\ started_id' = NoProfile
      /\ UNCHANGED <<tasks, events, sup, accepting, deadQueued, probes, conns>>
      /\ UNCHANGED <<prepare_exit, kill_switch, identityUnsupported, intent, resumed, counted>>
  BY DEF StoppedForReset, Unblocked, DsFree, DsOnly, history, KillForReset
<1>2. DsRule
  BY <1>1, HasStarted DEF DsRule
<1>3. frame \notin StopRestarts \cup Report
  BY <1>1, Frames
<1>. QED BY <1>1, <1>2, <1>3, Facts, KillForResetKeeps

\* The clean-up of an exit is over, and the exit is reported.
LEMMA CleanedUpKeeps == ASSUME IInv, CleanedUp PROVE IInv'
<1>1. /\ ~process.restarting /\ frame # NoFrame /\ frame \in Report /\ frame' = NoFrame
      /\ running' = NoProfile /\ posted' = Append(posted, frame)
      /\ UNCHANGED <<process, tasks, m_expectedExitGen, core_running, started_id, events>>
      /\ UNCHANGED <<sup, accepting, deadQueued, probes, conns>>
      /\ UNCHANGED <<prepare_exit, kill_switch, identityUnsupported, intent, resumed, counted>>
  BY DEF CleanedUp, Unblocked, DsFree, DsOnly, history
<1>2. DsRule
  BY <1>1, HasStarted DEF DsRule
<1>3. frame \in Posted /\ frame.gen <= process.generation /\ IsExit(frame) /\ ~IsSpawn(frame)
      /\ frame \notin StopRestarts /\ frame \notin Task
  BY <1>1, Frames DEF IInv, Numbered, IsExit, IsSpawn
<1>4. Longer(posted, Append(posted, frame), process.generation)
      /\ \E i \in DOMAIN Append(posted, frame) : Append(posted, frame)[i] = frame
  <2>1. Longer(posted, posted, process.generation) /\ posted \in Seq(Posted)
    BY Facts, LongerSame
  <2>2. \A r \in Posted : r.gen <= process.generation /\ ~IsSpawn(r) =>
            /\ Longer(posted, Append(posted, r), process.generation)
            /\ \E i \in DOMAIN Append(posted, r) : Append(posted, r)[i] = r
    BY <2>1, LongerAppend
  <2>. QED BY <1>3, <2>2
<1>5. /\ Longer(posted, posted', process.generation) /\ posted' \in Seq(Posted)
      /\ \E i \in DOMAIN posted' : posted'[i] = frame
      /\ \A i \in DOMAIN posted : i \in DOMAIN posted' /\ posted'[i] = posted[i]
  BY <1>1, <1>4 DEF Longer
<1>6. NoFrame \notin Report /\ NoFrame \notin StopRestarts
  BY Frames
<1>7. TypeOK'
  BY <1>1, <1>2, <1>5, Facts, Scalars, DsTypes
<1>8. Startup' /\ Failures' /\ Cancelled' /\ Numbered' /\ InOrder'
  BY <1>1, <1>2, <1>5, <1>6, DsKeeps
<1>9. FirstTask'
  BY <1>1, StartIsFirst
<1>10. Reported'
  BY <1>1, <1>3, <1>5 DEF IInv, Reported, IsExit
<1>11. exiting' = exiting /\ SpawnPending' = SpawnPending
  BY <1>1, <1>3, <1>6 DEF exiting, SpawnPending
<1>12. Followed'
  BY <1>1, <1>11 DEF IInv, Followed
<1>13. (SpawnPosted => SpawnPosted') /\ (EndPending => EndPending')
  BY <1>1, <1>3, <1>5 DEF SpawnPosted, EndPending, Replaces
<1>14. Watched'
  BY <1>1, <1>11, <1>13 DEF IInv, Watched
<1>. QED BY <1>1, <1>7, <1>8, <1>9, <1>10, <1>12, <1>14 DEF IInv

\* QProcess::started: the report that starts the timer is on its way.
LEMMA StartedKeeps == ASSUME IInv, Started PROVE IInv'
<1>1. /\ ~process.restarting /\ process.state = "launching" /\ process' = [process EXCEPT !.state = "up"]
      /\ posted' = Append(posted, Spawned)
      /\ UNCHANGED <<tasks, frame, m_expectedExitGen, core_running, started_id, running, events>>
      /\ UNCHANGED <<sup, accepting, deadQueued, probes, conns>>
      /\ UNCHANGED <<prepare_exit, kill_switch, identityUnsupported, intent, resumed, counted>>
  BY DEF Started, DsFree, DsOnly, history
<1>2. DsRule
  BY <1>1, HasStarted DEF DsRule
<1>3. /\ process' \in ProcessFields /\ process'.state = "up" /\ process'.generation = process.generation
      /\ process'.restarting = process.restarting
  BY <1>1, ProcessSteps
<1>4. Longer(posted, Append(posted, Spawned), process.generation)
      /\ \E i \in DOMAIN Append(posted, Spawned) : Append(posted, Spawned)[i] = Spawned
  BY Facts, Current, LongerSame, LongerAppend
<1>5. /\ Longer(posted, posted', process.generation) /\ posted' \in Seq(Posted)
      /\ \E i \in DOMAIN posted' : posted'[i] = Spawned
  BY <1>1, <1>4 DEF Longer
<1>6. TypeOK'
  BY <1>1, <1>2, <1>3, <1>5, Facts, Scalars, DsTypes
<1>7. frame' \in Report => frame'.gen <= process.generation
  BY <1>1 DEF IInv, Numbered
<1>8. Startup' /\ Failures' /\ Cancelled' /\ Numbered' /\ InOrder'
  BY <1>1, <1>2, <1>3, <1>5, <1>7, DsKeeps
<1>9. FirstTask'
  BY <1>1, StartIsFirst
<1>10. Reported'
  BY <1>3 DEF Reported
<1>11. exiting' = exiting /\ SpawnPending' = SpawnPending
  BY <1>1, <1>3 DEF exiting, SpawnPending
<1>12. Followed'
  BY <1>1, <1>3, <1>11 DEF IInv, Followed
<1>13. SpawnPosted'
  <2>1. IsSpawn(Spawned) /\ Spawned.gen = process.generation
    BY Current
  <2>. QED BY <1>3, <1>5, <2>1 DEF SpawnPosted, IsSpawn
<1>14. Watched'
  BY <1>13 DEF Watched
<1>. QED BY <1>1, <1>6, <1>8, <1>9, <1>10, <1>12, <1>14, Scalars DEF IInv

\* The program cannot be run; one report of it or two are on their way.
LEMMA LaunchFailsKeeps == ASSUME IInv, NEW twice \in BOOLEAN, LaunchFails(twice) PROVE IInv'
<1>. DEFINE r == ExitReport(TRUE, FALSE)
            g == process.generation
<1>1. /\ ~process.restarting /\ process.state = "launching" /\ process' = [process EXCEPT !.state = "none"]
      /\ core_running' = FALSE /\ Event
      /\ posted' = posted \o (IF twice THEN <<r, r>> ELSE <<r>>)
      /\ UNCHANGED <<tasks, frame, m_expectedExitGen, started_id, running>>
      /\ UNCHANGED <<sup, accepting, deadQueued, probes, conns>>
      /\ UNCHANGED <<prepare_exit, kill_switch, identityUnsupported, intent, resumed, counted>>
  BY DEF LaunchFails, DsFree, DsOnly, history
<1>2. DsRule
  BY <1>1, HasStarted DEF DsRule
<1>3. /\ process' \in ProcessFields /\ process'.state = "none" /\ process'.generation = g
      /\ process'.restarting = process.restarting
  BY <1>1, ProcessSteps
<1>4. r \in Posted /\ r.gen = g /\ r.gen <= g /\ IsExit(r) /\ ~IsSpawn(r)
  BY Current
<1>. HIDE DEF r
<1>5. Longer(posted, Append(posted, r), g) /\ Append(posted, r) \in Seq(Posted)
      /\ \E i \in DOMAIN Append(posted, r) : Append(posted, r)[i] = r
  <2>1. Longer(posted, Append(posted, r), g) /\ \E i \in DOMAIN Append(posted, r) : Append(posted, r)[i] = r
    BY <1>4, Facts, LongerSame, LongerAppend
  <2>. QED BY <2>1 DEF Longer
<1>6. Longer(posted, Append(Append(posted, r), r), g)
      /\ \E i \in DOMAIN Append(Append(posted, r), r) : Append(Append(posted, r), r)[i] = r
  BY <1>4, <1>5, Facts, LongerAppend
<1>7. posted' = IF twice THEN Append(Append(posted, r), r) ELSE Append(posted, r)
  <2>1. Append(posted, r) = posted \o <<r>>
    BY <1>4, Facts, AppendIsConcat
  <2>2. Append(Append(posted, r), r) = (posted \o <<r>>) \o <<r>>
    BY <1>4, <1>5, <2>1, AppendIsConcat
  <2>3. <<r>> \in Seq(Posted) /\ <<r>> \o <<r>> = <<r, r>>
    <3>1. <<r>> \in Seq(Posted)
      BY <1>4
    <3>2. Append(<<r>>, r) = <<r>> \o <<r>>
      BY <1>4, <3>1, AppendIsConcat
    <3>3. Append(<<r>>, r) = <<r, r>>
      <4>1. <<r, r>> \in Seq(Posted) /\ Len(<<r, r>>) = 2 /\ <<r, r>>[1] = r /\ <<r, r>>[2] = r
        BY <1>4
      <4>2. /\ Append(<<r>>, r) \in Seq(Posted) /\ Len(Append(<<r>>, r)) = 2
            /\ Append(<<r>>, r)[1] = r /\ Append(<<r>>, r)[2] = r
        BY <1>4, <3>1, AppendProperties
      <4>3. \A i \in 1..2 : Append(<<r>>, r)[i] = <<r, r>>[i]
        BY <4>1, <4>2
      <4>. QED BY <4>1, <4>2, <4>3, SeqEqual
    <3>. QED BY <3>1, <3>2, <3>3
  <2>4. (posted \o <<r>>) \o <<r>> = posted \o (<<r>> \o <<r>>)
    BY <2>3, Facts, ConcatAssociative
  <2>. QED BY <1>1, <2>1, <2>2, <2>3, <2>4
<1>8. /\ Longer(posted, posted', g) /\ posted' \in Seq(Posted)
      /\ \E i \in DOMAIN posted' : IsExit(posted'[i]) /\ posted'[i].gen = g
  BY <1>4, <1>5, <1>6, <1>7 DEF Longer
<1>9. events' \in 0..MaxEvents /\ core_running' \in BOOLEAN
  <2>1. events' \in 0..MaxEvents
    BY <1>1, Scalars, BoundsAssumption DEF Event
  <2>2. core_running' \in BOOLEAN
    BY <1>1
  <2>. QED BY <2>1, <2>2
<1>10. TypeOK'
  BY <1>1, <1>2, <1>3, <1>8, <1>9, Facts, Scalars, DsTypes
<1>11. frame' \in Report => frame'.gen <= g
  BY <1>1 DEF IInv, Numbered
<1>12. Startup' /\ Failures' /\ Cancelled' /\ Numbered' /\ InOrder'
  BY <1>1, <1>2, <1>3, <1>8, <1>11, DsKeeps
<1>13. FirstTask'
  BY <1>1, StartIsFirst
<1>14. Reported' /\ Followed' /\ Watched'
  BY <1>1, <1>2, <1>3, <1>8, GoneKeeps
<1>. QED BY <1>1, <1>10, <1>12, <1>13, <1>14, Scalars DEF IInv

\* The core dials the server.
LEMMA ConnectKeeps == ASSUME IInv, Connect PROVE IInv'
<1>1. /\ process.state \in {"launching", "up"} /\ process' = [process EXCEPT !.dialed = TRUE]
      /\ conns' = conns \cup {process.pid}
      /\ UNCHANGED <<tasks, frame, m_expectedExitGen, core_running, started_id, running, events>>
      /\ UNCHANGED <<sup, accepting, deadQueued, probes, posted>>
      /\ UNCHANGED <<prepare_exit, kill_switch, identityUnsupported, intent, resumed, counted>>
  BY DEF Connect, mainVars, settings, history
<1>2. DsRule
  BY <1>1, HasStarted DEF DsRule
<1>3. /\ process' \in ProcessFields /\ process'.state = process.state /\ process'.generation = process.generation
      /\ process'.restarting = process.restarting /\ process.pid \in Gens
  BY <1>1, Facts DEF ProcessFields
<1>4. conns' \subseteq Gens
  BY <1>1, <1>3, Scalars
<1>5. Longer(posted, posted', process.generation) /\ posted' \in Seq(Posted)
  BY <1>1, Facts, LongerSame
<1>6. TypeOK'
  BY <1>1, <1>2, <1>3, <1>4, <1>5, Facts, Scalars, DsTypes
<1>7. /\ frame' \in Report => frame'.gen <= process.generation
      /\ process'.restarting => process.generation < MaxGen
  BY <1>1, <1>3 DEF IInv, Numbered
<1>8. Startup' /\ Failures' /\ Cancelled' /\ Numbered' /\ InOrder'
  BY <1>1, <1>2, <1>3, <1>5, <1>7, DsKeeps
<1>9. FirstTask'
  BY <1>1, StartIsFirst
<1>10. Reported'
  BY <1>1, <1>3 DEF Reported
<1>11. exiting' = exiting /\ SpawnPending' = SpawnPending /\ SpawnPosted' = SpawnPosted /\ EndPending' = EndPending
  BY <1>1, <1>3 DEF exiting, SpawnPending, SpawnPosted, EndPending, Replaces
<1>12. Followed' /\ Watched'
  BY <1>1, <1>3, <1>11 DEF IInv, Followed, Watched
<1>. QED BY <1>1, <1>6, <1>8, <1>9, <1>10, <1>12, Scalars DEF IInv

\* The core exits by itself.
LEMMA CoreExitsKeeps == ASSUME IInv, NEW identity \in BOOLEAN, CoreExits(identity) PROVE IInv'
<1>1. /\ ~process.restarting /\ process.state = "up" /\ Event
      /\ NotRunning(ExitReport(FALSE, identity), Blocks)
      /\ UNCHANGED <<tasks, m_expectedExitGen, started_id, running>>
      /\ UNCHANGED <<sup, accepting, deadQueued, probes, conns>>
      /\ UNCHANGED <<prepare_exit, kill_switch, identityUnsupported, intent, resumed, counted>>
  BY DEF CoreExits, DsFree, DsOnly, history
<1>2. DsRule
  BY <1>1, HasStarted DEF DsRule
<1>3. events' \in 0..MaxEvents
  BY <1>1, Scalars, BoundsAssumption DEF Event
<1>4. ExitReport(FALSE, identity) \in Report /\ ExitReport(FALSE, identity).gen = process.generation
  BY Current
<1>. QED BY <1>1, <1>2, <1>3, <1>4, Facts, Scalars, NotRunningKeeps

\* The core that outlived Restart() dies.
LEMMA DoomedExitsKeeps == ASSUME IInv, DoomedExits PROVE IInv'
<1>1. /\ ~process.restarting /\ process.state = "doomed"
      /\ NotRunning(ExitReport(FALSE, FALSE), Blocks)
      /\ UNCHANGED <<tasks, m_expectedExitGen, started_id, running, events>>
      /\ UNCHANGED <<sup, accepting, deadQueued, probes, conns>>
      /\ UNCHANGED <<prepare_exit, kill_switch, identityUnsupported, intent, resumed, counted>>
  BY DEF DoomedExits, DsFree, DsOnly, history
<1>2. DsRule
  BY <1>1, HasStarted DEF DsRule
<1>3. ExitReport(FALSE, FALSE) \in Report /\ ExitReport(FALSE, FALSE).gen = process.generation
  BY Current
<1>. QED BY <1>1, <1>2, <1>3, Facts, Scalars, NotRunningKeeps

-----------------------------------------------------------------------------
(* The theorems. *)

\* The program starts with neither a core nor a report.
LEMMA InitKeeps == ASSUME Init PROVE IInv
<1>. USE DEF Init
<1>1. TypeOK
  <2>1. 0 \in Gens /\ 0 \in 0..MaxEvents /\ NoProfile \in Profile
    BY BoundsAssumption DEF Gens, Profile
  <2>2. sup \in SupervisorFields
    BY <2>1 DEF SupervisorFields, CoreStates
  <2>3. accepting \in [pid : Gens, gen : Gens, verified : BOOLEAN]
    BY <2>1 DEF NoAccept
  <2>4. process \in ProcessFields
    BY <2>1 DEF ProcessFields
  <2>5. posted \in Seq(Posted) /\ tasks \in Seq(Task)
    OBVIOUS
  <2>6. {core_running, prepare_exit, kill_switch, identityUnsupported} \subseteq BOOLEAN
    OBVIOUS
  <2>. QED BY <2>1, <2>2, <2>3, <2>4, <2>5, <2>6 DEF TypeOK
<1>2. Startup /\ FirstTask /\ Cancelled /\ InOrder
  BY DEF Startup, FirstTask, Cancelled, InOrder
<1>3. Numbered
  <2>1. NoFrame \notin Report
    BY Frames
  <2>. QED BY <2>1 DEF Numbered, NoAccept
<1>4. Failures
  BY FS_EmptySet DEF Failures
<1>5. Reported /\ Followed /\ Watched
  BY DEF Reported, Followed, Watched
<1>. QED BY <1>1, <1>2, <1>3, <1>4, <1>5 DEF IInv

\* A step that changes nothing.
LEMMA StutterKeeps == ASSUME IInv, UNCHANGED vars PROVE IInv'
<1>1. /\ UNCHANGED <<sup, accepting, posted, deadQueued, probes>>
      /\ UNCHANGED <<process, tasks, frame, conns, m_expectedExitGen>>
      /\ UNCHANGED <<core_running, started_id, prepare_exit, kill_switch, identityUnsupported>>
      /\ UNCHANGED <<running, intent, resumed, counted, events>>
  BY DEF vars, mainVars, coreVars, settings, history
<1>2. TypeOK' /\ frame' \in StopRestarts \cup {[op |-> "Reset"], NoFrame} \cup Report
  BY <1>1 DEF IInv, TypeOK
<1>3. Startup' /\ FirstTask' /\ Failures' /\ Cancelled'
  BY <1>1 DEF IInv, Startup, FirstTask, Failures, Cancelled
<1>4. Numbered' /\ InOrder' /\ Reported'
  BY <1>1 DEF IInv, Numbered, InOrder, Reported
<1>5. Followed'
  BY <1>1 DEF IInv, Followed, SpawnPending, exiting
<1>6. Watched'
  BY <1>1 DEF IInv, Watched, SpawnPosted, EndPending, Replaces, exiting
<1>. QED BY <1>2, <1>3, <1>4, <1>5, <1>6 DEF IInv

\* A request of the user, of the settings or of the program's exit.
LEMMA RequestKeeps == ASSUME IInv, Request PROVE IInv'
<1>1. ASSUME NEW p \in Profile, start(p) PROVE IInv'
  BY <1>1, StartKeeps
<1>2. ASSUME NEW p \in Profiles, restartNotListening(p) PROVE IInv'
  BY <1>2, RestartNotListeningKeeps
<1>3. ASSUME NEW p \in Profiles, setStartWhenUp(p) PROVE IInv'
  BY <1>3, SetStartWhenUpKeeps
<1>4. ASSUME NEW p \in Profiles, startProfile(p) PROVE IInv'
  BY <1>4, StartProfileKeeps
<1>5. CASE listenFails
  BY <1>5, ListenFailsKeeps
<1>6. CASE resetCore
  BY <1>6, ResetCoreKeeps
<1>7. CASE restartForGuard
  BY <1>7, RestartForGuardKeeps
<1>8. CASE killForPrivilegeChange
  BY <1>8, KillForPrivilegeChangeKeeps
<1>9. CASE stopProfile
  BY <1>9, StopProfileKeeps
<1>10. CASE cancelResume
  BY <1>10, CancelResumeKeeps
<1>11. CASE changeKillSwitch
  BY <1>11, ChangeKillSwitchKeeps
<1>12. CASE BeginExit
  BY <1>12, BeginExitKeeps
<1>13. CASE shutdown
  BY <1>13, ShutdownKeeps
<1>. QED BY <1>1, <1>2, <1>3, <1>4, <1>5, <1>6, <1>7, <1>8, <1>9, <1>10, <1>11, <1>12, <1>13 DEF Request

\* A handler of the main thread.
LEMMA MainStepKeeps == ASSUME IInv, MainStep PROVE IInv'
<1>1. ASSUME NEW pid \in conns, TakeConnection(pid) PROVE IInv'
  BY <1>1, TakeConnectionKeeps
<1>2. CASE verifyCorePid
  BY <1>2, VerifyCorePidKeeps
<1>3. CASE onNewConnection
  BY <1>3, OnNewConnectionKeeps
<1>4. CASE onCoreSpawned
  BY <1>4, OnCoreSpawnedKeeps
<1>5. CASE postRestart
  BY <1>5, PostRestartKeeps
<1>6. CASE onConnectTimeout
  BY <1>6, OnConnectTimeoutKeeps
<1>7. CASE restartDeadCore
  BY <1>7, RestartDeadCoreKeeps
<1>8. ASSUME NEW gen \in probes, NEW dropped \in BOOLEAN, NEW starts \in BOOLEAN,
             onPrivilegeProbed(gen, dropped, starts)
      PROVE  IInv'
  BY <1>8, OnPrivilegeProbedKeeps
<1>9. ASSUME NEW stable \in BOOLEAN, NEW frequent \in BOOLEAN, onCoreExited(stable, frequent) PROVE IInv'
  BY <1>9, OnCoreExitedKeeps
<1>. QED BY <1>1, <1>2, <1>3, <1>4, <1>5, <1>6, <1>7, <1>8, <1>9 DEF MainStep

\* A step of DS_cores.
LEMMA CoresStepKeeps == ASSUME IInv, CoresStep PROVE IInv'
<1>1. CASE TaskStart
  BY <1>1, TaskStartKeeps
<1>2. CASE TaskReset
  BY <1>2, TaskResetKeeps
<1>3. CASE TaskKill
  BY <1>3, TaskKillKeeps
<1>4. CASE TaskKillGen
  BY <1>4, TaskKillGenKeeps
<1>5. CASE TaskExitKill
  BY <1>5, TaskExitKillKeeps
<1>6. CASE CleanedUp
  BY <1>6, CleanedUpKeeps
<1>7. CASE StoppedForReset
  BY <1>7, StoppedForResetKeeps
<1>8. CASE FinishRestart
  BY <1>8, FinishRestartKeeps
<1>9. CASE Started
  BY <1>9, StartedKeeps
<1>10. ASSUME NEW outlives \in BOOLEAN, TaskRestart(outlives) PROVE IInv'
  BY <1>10, TaskRestartKeeps
<1>11. ASSUME NEW outlives \in BOOLEAN, StoppedForRestart(outlives) PROVE IInv'
  BY <1>11, StoppedForRestartKeeps
<1>12. ASSUME NEW twice \in BOOLEAN, LaunchFails(twice) PROVE IInv'
  BY <1>12, LaunchFailsKeeps
<1>. QED BY <1>1, <1>2, <1>3, <1>4, <1>5, <1>6, <1>7, <1>8, <1>9, <1>10, <1>11, <1>12 DEF CoresStep

\* A step of the core.
LEMMA CoreStepKeeps == ASSUME IInv, CoreStep PROVE IInv'
<1>1. CASE Connect
  BY <1>1, ConnectKeeps
<1>2. CASE DoomedExits
  BY <1>2, DoomedExitsKeeps
<1>3. ASSUME NEW identity \in BOOLEAN, CoreExits(identity) PROVE IInv'
  BY <1>3, CoreExitsKeeps
<1>. QED BY <1>1, <1>2, <1>3 DEF CoreStep

\* The inductive invariant of the two threads that share the core process: what is posted
\* to either of them stands for what happened to a generation of the core.
THEOREM Invariance == Spec => []IInv
<1>1. Init => IInv
  BY InitKeeps
<1>2. IInv /\ [Next]_vars => IInv'
  <2>. SUFFICES ASSUME IInv, [Next]_vars PROVE IInv'
    OBVIOUS
  <2>1. CASE Request
    BY <2>1, RequestKeeps
  <2>2. CASE MainStep
    BY <2>2, MainStepKeeps
  <2>3. CASE CoresStep
    BY <2>3, CoresStepKeeps
  <2>4. CASE CoreStep
    BY <2>4, CoreStepKeeps
  <2>5. CASE UNCHANGED vars
    BY <2>5, StutterKeeps
  <2>. QED BY <2>1, <2>2, <2>3, <2>4, <2>5 DEF Next
<1>. QED BY <1>1, <1>2, PTL DEF Spec

\* A generation whose exit nobody handled lives or was reported; one whose exit was handled
\* is replaced.
LEMMA Tracked == ASSUME IInv PROVE NeverForgotten
<1>. SUFFICES ASSUME Operating PROVE LiveAndMinded \/ Respawning \/ ExitPending \/ sup.m_restartTimer
  BY DEF NeverForgotten
<1>1. /\ sup.m_state \in {"Starting", "Connected", "Backoff"} /\ ~exiting /\ ~prepare_exit
  BY DEF Operating, exiting
<1>2. CASE sup.m_handledExitGen = process.generation
  <2>1. SpawnPending \/ sup.m_restartTimer
    BY <1>1, <1>2 DEF IInv, Followed
  <2>2. SpawnPending => Respawning
    <3>1. ASSUME NEW i \in DOMAIN tasks, tasks[i].op \in Spawns PROVE Respawning
      BY <3>1 DEF Respawning, PendingOps, Spawns
    <3>2. ASSUME frame \in StopRestarts PROVE Respawning
      BY <3>2, Frames DEF Respawning, PendingOps
    <3>. QED BY <3>1, <3>2 DEF SpawnPending, Respawning
  <2>. QED BY <2>1, <2>2
<1>3. CASE sup.m_handledExitGen # process.generation
  <2>1. sup.m_handledExitGen < process.generation /\ process.generation > sup.m_handledExitGen
    BY <1>3, Facts
  <2>2. CASE process.state # "none"
    BY <2>1, <2>2 DEF LiveAndMinded
  <2>3. CASE process.restarting
    BY <2>3 DEF Respawning
  <2>4. CASE process.state = "none" /\ ~process.restarting
    <3>1. \/ \E i \in DOMAIN posted : IsExit(posted[i]) /\ posted[i].gen = process.generation
          \/ frame \in Report /\ frame.gen = process.generation
      BY <1>1, <2>1, <2>4 DEF IInv, Reported
    <3>2. ASSUME NEW i \in DOMAIN posted, IsExit(posted[i]), posted[i].gen = process.generation PROVE ExitPending
      <4>1. posted[i] \in Posted
        BY <3>2, Facts, LenProperties
      <4>2. posted[i] \in Report
        BY <3>2, <4>1, Frames DEF IsExit
      <4>3. posted[i] \in Range(posted)
        BY <3>2 DEF Range
      <4>. QED BY <2>1, <3>2, <4>2, <4>3 DEF ExitPending
    <3>3. ASSUME frame \in Report, frame.gen = process.generation PROVE ExitPending
      BY <2>1, <3>3 DEF ExitPending
    <3>. QED BY <3>1, <3>2, <3>3
  <2>. QED BY <2>2, <2>3, <2>4
<1>. QED BY <1>2, <1>3

\* What ends or replaces a core is among the pending operations.
LEMMA Unconnected == ASSUME IInv PROVE UnconnectedIsWatched
<1>. SUFFICES ASSUME Operating, sup.m_state = "Starting", process.state = "up",
                     process.generation > sup.m_acceptedGen
              PROVE  \/ sup.m_connectTimer /\ sup.m_connectGen = process.generation
                     \/ \E i \in DOMAIN posted : posted[i].call = "onCoreSpawned" /\ posted[i].gen = process.generation
                     \/ PendingOps # {}
  BY DEF UnconnectedIsWatched
<1>1. ~exiting
  BY DEF Operating
<1>2. sup.m_acceptedGen < process.generation
  BY Facts, SupFields
<1>3. \/ sup.m_connectTimer /\ sup.m_connectGen = process.generation
      \/ SpawnPosted \/ EndPending
  BY <1>1, <1>2 DEF IInv, Watched
<1>4. EndPending => PendingOps # {}
  BY DEF EndPending, PendingOps
<1>. QED BY <1>3, <1>4 DEF SpawnPosted, IsSpawn

\* CoreIsTracked: whatever order the tasks of DS_cores, its reports, the timers and the
\* requests interleave in, the supervisor has a core, is about to have one or will hear of
\* its end, and a core that never connects does not go unnoticed.
THEOREM CoreAlwaysTracked == Spec => []CoreIsTracked
<1>1. IInv => CoreIsTracked
  BY Tracked, Unconnected DEF CoreIsTracked
<1>. QED BY <1>1, Invariance, PTL

\* CountedOncePerCore: a generation is counted at most once among the failures that make
\* the supervisor give up, however often its exit is reported.
THEOREM CountedOnceAlways == Spec => []CountedOncePerCore
<1>1. IInv => CountedOncePerCore
  BY DEF IInv, Failures, CountedOncePerCore
<1>. QED BY <1>1, Invariance, PTL

\* StopCancelsResume: no profile is resumed after the user's stop, in whichever of the two
\* places (m_startWhenUp, started_id) an exit or a restart under way would take it from.
THEOREM StopAlwaysCancelsResume == Spec => []StopCancelsResume
<1>1. IInv => StopCancelsResume
  BY DEF IInv, Cancelled, StopCancelsResume
<1>. QED BY <1>1, Invariance, PTL
=============================================================================
