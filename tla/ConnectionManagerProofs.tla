----------------------- MODULE ConnectionManagerProofs -----------------------
(***************************************************************************)
(* The connection manager, for any profiles and any number of requests.    *)
(*                                                                         *)
(* The three properties need more than they say.  OnceEach: Tracked adds   *)
(* the serials not given out yet, which are nowhere, and that only an      *)
(* outcome carries a serial through the queue; the places are spelled out  *)
(* and counted at the end.  CoreOwesAnswer: Owing holds the supervisor to  *)
(* an answer while a guard restart is open as well, because a start that   *)
(* comes in that window joins the restart without asking for another.      *)
(* StartsOnCleanCore: Stops and Runs follow a profile from the core's      *)
(* start of it through m_running to the stop that takes it away, with the  *)
(* starter, the stopper and DS_cores each at any of their steps.           *)
(***************************************************************************)
EXTENDS ConnectionManager, FiniteSetTheorems, SequenceTheorems, TLAPS

\* TypeOK, variable by variable.
Types ==
    /\ calling \in StartRequest /\ dnsSelect \in StartRequest /\ m_killSwitchDeferredStart \in StartRequest
    /\ m_coreStartRequest \in StartRequest /\ rankReq \in StartRequest
    /\ rankedFor \in BOOLEAN /\ rankingInFlight \in BOOLEAN /\ m_guardCoreRestart \in BOOLEAN
    /\ m_profileConnecting \in BOOLEAN /\ m_profileDisconnecting \in BOOLEAN
    /\ mu_starting \in BOOLEAN /\ mu_stopping \in BOOLEAN /\ prepare_exit \in BOOLEAN /\ core_running \in BOOLEAN
    /\ posted \in Seq(Calls)
    /\ m_running \in Profile /\ started_id \in Profile
    /\ m_bootSerial \in {0} \cup Serials
    /\ starter \in StarterFields /\ stopper \in StopperFields
    /\ killSwitch \in KillSwitchStates
    /\ sup \in SupervisorFields /\ core \in CoreFields /\ exit \in Exit
    /\ tasks \in Seq({"Restart", "StopRestart", "Stopping"})
    /\ answers \in [Serials -> Nat]
    /\ lastSerial \in 0..MaxRequests /\ events \in 0..MaxEvents

\* A place is empty when the code takes it for free.
Vacant ==
    /\ Waiting(rankReq) => rankingInFlight
    /\ mu_starting <=> starter.pc # "none"
    /\ starter.pc \in {"none", "unlock"} => starter.req = NoRequest
    /\ starter.pc \in {"begin", "await", "rpc", "started", "record"} => starter.profile # NoProfile

\* The supervisor owes an answer also while a core is restarted for the guard.
Owing ==
    (m_guardCoreRestart \/ Waiting(m_coreStartRequest)) /\ ~prepare_exit =>
        sup.m_probing \/ sup.m_state \in {"Starting", "Backoff"}

\* A stop keeps mu_stopping and is of a profile that runs; one for a core that died, or is about
\* to be replaced, sends no RPC.
Stops ==
    /\ mu_stopping <=> stopper.pc # "none"
    /\ stopper.pc \in {"rpc", "clear"} => m_running # NoProfile
    /\ stopper.pc = "finish" /\ m_running # NoProfile => starter.pc \in {"none", "unlock"}
    /\ stopper.crash /\ stopper.pc \in {"rpc", "clear"} => core.profile = NoProfile \/ tasks # <<>>

\* What runs in the core is known to the class, or a stop of it is under way.
Runs ==
    /\ starter.pc = "await" => mu_stopping \/ m_running = NoProfile
    /\ starter.pc \in {"rpc", "started", "record"} => m_running = NoProfile
    /\ core.profile # NoProfile => core.state = "up"
    /\ exit.pc = "cleanup" => core.state = "none"
    /\ core.profile # NoProfile /\ ~core.unsure /\ tasks = <<>> =>
         starter.pc \in {"started", "record"} \/ (m_running # NoProfile /\ stopper.pc # "clear")

\* The request with serial s is in none of the six places where one may be, or in one of them.
Nowhere(s) ==
    /\ calling.serial # s /\ dnsSelect.serial # s /\ m_killSwitchDeferredStart.serial # s
    /\ m_coreStartRequest.serial # s /\ rankReq.serial # s /\ starter.req.serial # s
Somewhere(s) ==
    \/ calling.serial = s /\ dnsSelect.serial # s /\ m_killSwitchDeferredStart.serial # s
       /\ m_coreStartRequest.serial # s /\ rankReq.serial # s /\ starter.req.serial # s
    \/ calling.serial # s /\ dnsSelect.serial = s /\ m_killSwitchDeferredStart.serial # s
       /\ m_coreStartRequest.serial # s /\ rankReq.serial # s /\ starter.req.serial # s
    \/ calling.serial # s /\ dnsSelect.serial # s /\ m_killSwitchDeferredStart.serial = s
       /\ m_coreStartRequest.serial # s /\ rankReq.serial # s /\ starter.req.serial # s
    \/ calling.serial # s /\ dnsSelect.serial # s /\ m_killSwitchDeferredStart.serial # s
       /\ m_coreStartRequest.serial = s /\ rankReq.serial # s /\ starter.req.serial # s
    \/ calling.serial # s /\ dnsSelect.serial # s /\ m_killSwitchDeferredStart.serial # s
       /\ m_coreStartRequest.serial # s /\ rankReq.serial = s /\ starter.req.serial # s
    \/ calling.serial # s /\ dnsSelect.serial # s /\ m_killSwitchDeferredStart.serial # s
       /\ m_coreStartRequest.serial # s /\ rankReq.serial # s /\ starter.req.serial = s

\* Its outcome is queued, and only once; only an outcome carries a serial through the queue.
InQueue(s) == \E n \in DOMAIN posted : posted[n].serial = s
QueuedOnce(s) == \A m, n \in DOMAIN posted : posted[m].serial = s /\ posted[n].serial = s => m = n
Unnumbered == \A n \in DOMAIN posted : posted[n].call # "Finished" => posted[n].serial = 0

\* Where a serial is: not given out yet, in one place, in the queue, or answered.
Once(s) ==
    \/ s > lastSerial /\ Nowhere(s) /\ ~InQueue(s) /\ answers[s] = 0
    \/ s <= lastSerial /\ Somewhere(s) /\ ~InQueue(s) /\ answers[s] = 0
    \/ s <= lastSerial /\ Nowhere(s) /\ InQueue(s) /\ QueuedOnce(s) /\ answers[s] = 0
    \/ s <= lastSerial /\ Nowhere(s) /\ ~InQueue(s) /\ answers[s] = 1

Sides == Vacant /\ Owing /\ Stops /\ Runs
Tracked == Unnumbered /\ \A s \in Serials : Once(s)
IInv == Types /\ Sides /\ Tracked

\* The queue as far as serials go is left alone.
Keeps == Unnumbered' /\ \A s \in Serials : (InQueue(s)' <=> InQueue(s)) /\ (QueuedOnce(s) => QueuedOnce(s)')

-----------------------------------------------------------------------------
(* The operators.                                                          *)

\* A report that has become moot stays a call, and carries what it carried.
LEMMA MootLemma ==
  ASSUME NEW c \in Calls
  PROVE  Moot(c) \in Calls /\ Moot(c).serial = c.serial /\ (Moot(c).call = "Finished" <=> c.call = "Finished")
  BY DEF Moot, Calls

\* A posted call is one.
LEMMA CallLemma ==
  ASSUME NEW k \in {"Finished", "StartDone", "Disconnecting"}, NEW n \in {0} \cup Serials
  PROVE  Call(k, n) \in Calls /\ Call(k, n).serial = n /\ Call(k, n).call = k
  BY DEF Call, Calls

\* startFinished counts the answers of the requests it is given.
LEMMA FinishedLemma ==
  ASSUME answers \in [Serials -> Nat], NEW rs, startFinished(rs)
  PROVE  /\ answers' \in [Serials -> Nat]
         /\ \A s \in Serials : answers'[s] = answers[s] + (IF \E r \in rs : r.serial = s THEN 1 ELSE 0)
  BY DEF startFinished

\* A call of stop() keeps the types.
LEMMA StopType ==
  ASSUME Types, NEW crash \in BOOLEAN, NEW manual \in BOOLEAN, stop(crash, manual)
  PROVE  mu_stopping' \in BOOLEAN /\ stopper' \in StopperFields
<1>1. [pc |-> "rpc", crash |-> crash, manual |-> manual] \in StopperFields
  BY DEF StopperFields
<1> QED BY <1>1 DEF stop, Types

\* A call without a serial is queued.
LEMMA PostLemma ==
  ASSUME posted \in Seq(Calls), Unnumbered, NEW c \in Calls, Post(c)
  PROVE  posted' \in Seq(Calls) /\ (c.serial = 0 => Keeps)
<1>1. posted' = Append(posted, c) /\ posted' \in Seq(Calls)
  BY DEF Post
<1>2. /\ DOMAIN posted = 1..Len(posted) /\ DOMAIN posted' = 1..(Len(posted) + 1) /\ Len(posted) \in Nat
      /\ posted'[Len(posted) + 1] = c /\ \A n \in 1..Len(posted) : posted'[n] = posted[n]
  BY <1>1
<1>3. ASSUME c.serial = 0 PROVE Keeps
  <2>1. Unnumbered'
    BY <1>2, <1>3 DEF Unnumbered
  <2>2. ASSUME NEW s \in Serials PROVE (InQueue(s)' <=> InQueue(s)) /\ (QueuedOnce(s) => QueuedOnce(s)')
    <3>1. s # 0
      BY DEF Serials
    <3> QED BY <1>2, <1>3, <3>1 DEF InQueue, QueuedOnce
  <2> QED BY <2>1, <2>2 DEF Keeps
<1> QED BY <1>1, <1>3

\* A call is taken from the queue.
LEMMA TakeLemma ==
  ASSUME posted \in Seq(Calls), Unnumbered, NEW kind, Take(kind)
  PROVE  posted' \in Seq(Calls) /\ (kind # "Finished" => Keeps)
<1>1. posted # <<>> /\ posted' = Tail(posted) /\ posted' \in Seq(Calls)
  BY DEF Take
<1>2. /\ DOMAIN posted = 1..Len(posted) /\ DOMAIN posted' = 1..(Len(posted) - 1) /\ Len(posted) \in Nat \ {0}
      /\ Head(posted) = posted[1] /\ \A n \in 1..(Len(posted) - 1) : posted'[n] = posted[n + 1]
  BY <1>1
<1>3. ASSUME kind # "Finished" PROVE Keeps
  <2>0. posted[1].serial = 0
    BY <1>2, <1>3 DEF Unnumbered, Take
  <2>1. Unnumbered'
    BY <1>2 DEF Unnumbered
  <2>2. ASSUME NEW s \in Serials PROVE (InQueue(s)' <=> InQueue(s)) /\ (QueuedOnce(s) => QueuedOnce(s)')
    <3>1. s # 0
      BY DEF Serials
    <3>2. ASSUME NEW n \in DOMAIN posted, posted[n].serial = s
          PROVE  n - 1 \in DOMAIN posted' /\ posted'[n - 1] = posted[n]
      BY <1>2, <2>0, <3>1, <3>2
    <3>3. InQueue(s)' => InQueue(s)
      BY <1>2 DEF InQueue
    <3>4. InQueue(s) => InQueue(s)'
      BY <3>2 DEF InQueue
    <3>5. QueuedOnce(s) => QueuedOnce(s)'
      BY <1>2 DEF QueuedOnce
    <3> QED BY <3>3, <3>4, <3>5
  <2> QED BY <2>1, <2>2 DEF Keeps
<1> QED BY <1>1, <1>3

\* postProcessRestart queues a task and leaves the calls where they are.
LEMMA RestartLemma ==
  ASSUME Types, Unnumbered, NEW task \in {"Restart", "StopRestart"}, PostRestart(task)
  PROVE  /\ posted' \in Seq(Calls) /\ Keeps
         /\ exit' \in Exit /\ exit'.pc = exit.pc
         /\ tasks' \in Seq({"Restart", "StopRestart", "Stopping"}) /\ tasks' # <<>>
<1>1. Len(posted) \in Nat /\ DOMAIN posted = 1..Len(posted) /\ \A n \in DOMAIN posted : posted[n] \in Calls
  BY DEF Types
<1>2. posted' = [n \in 1..Len(posted) |-> Moot(posted[n])]
  BY <1>1 DEF PostRestart
<1>3. DOMAIN posted' = DOMAIN posted /\ \A n \in DOMAIN posted : posted'[n] = Moot(posted[n])
  BY <1>1, <1>2
<1>4. \A n \in DOMAIN posted : /\ posted'[n] \in Calls /\ posted'[n].serial = posted[n].serial
                               /\ (posted'[n].call = "Finished" <=> posted[n].call = "Finished")
  BY <1>1, <1>3, MootLemma
<1>5. posted' \in Seq(Calls)
  <2>1. posted' \in [1..Len(posted) -> Calls]
    BY <1>1, <1>2, <1>4
  <2> QED BY <1>1, <2>1, SeqDef
<1>6. Keeps
  <2>1. Unnumbered'
    BY <1>3, <1>4 DEF Unnumbered
  <2>2. ASSUME NEW s \in Serials PROVE (InQueue(s)' <=> InQueue(s)) /\ (QueuedOnce(s) => QueuedOnce(s)')
    BY <1>3, <1>4 DEF InQueue, QueuedOnce
  <2> QED BY <2>1, <2>2 DEF Keeps
<1>7. exit' \in Exit /\ exit'.pc = exit.pc
  BY DEF PostRestart, Types, Exit
<1>8. tasks' \in Seq({"Restart", "StopRestart", "Stopping"}) /\ tasks' # <<>>
  <2>1. tasks' = Append(tasks, task) /\ tasks \in Seq({"Restart", "StopRestart", "Stopping"})
    BY DEF PostRestart, Types
  <2> QED BY <2>1
<1> QED BY <1>5, <1>6, <1>7, <1>8

\* The queue is not touched.
LEMMA SameLemma ==
  ASSUME Unnumbered, UNCHANGED posted
  PROVE  Keeps
  BY DEF Unnumbered, InQueue, QueuedOnce, Keeps

\* The outcome of the request with serial k is queued.
LEMMA OutcomeLemma ==
  ASSUME posted \in Seq(Calls), Unnumbered, NEW k \in {0} \cup Serials, Post(Call("Finished", k))
  PROVE  /\ posted' \in Seq(Calls) /\ Unnumbered'
         /\ \A s \in Serials : /\ InQueue(s)' <=> InQueue(s) \/ s = k
                               /\ s # k /\ QueuedOnce(s) => QueuedOnce(s)'
                               /\ ~InQueue(s) => QueuedOnce(s)'
<1>0. Call("Finished", k) \in Calls /\ Call("Finished", k).serial = k /\ Call("Finished", k).call = "Finished"
  BY CallLemma
<1>1. posted' = Append(posted, Call("Finished", k)) /\ posted' \in Seq(Calls)
  BY <1>0 DEF Post
<1>2. /\ DOMAIN posted = 1..Len(posted) /\ DOMAIN posted' = 1..(Len(posted) + 1) /\ Len(posted) \in Nat
      /\ posted'[Len(posted) + 1] = Call("Finished", k) /\ \A n \in 1..Len(posted) : posted'[n] = posted[n]
  BY <1>0, <1>1
<1>3. Unnumbered'
  BY <1>0, <1>2 DEF Unnumbered
<1>4. ASSUME NEW s \in Serials
      PROVE  /\ InQueue(s)' <=> InQueue(s) \/ s = k
             /\ s # k /\ QueuedOnce(s) => QueuedOnce(s)'
             /\ ~InQueue(s) => QueuedOnce(s)'
  <2>1. Len(posted) + 1 \in DOMAIN posted' /\ posted'[Len(posted) + 1].serial = k
    BY <1>0, <1>2
  <2>2. \A n \in DOMAIN posted' : n = Len(posted) + 1 \/ (n \in DOMAIN posted /\ posted'[n] = posted[n])
    BY <1>2
  <2>3. \A n \in DOMAIN posted : n \in DOMAIN posted' /\ posted'[n] = posted[n]
    BY <1>2
  <2>4. InQueue(s)' <=> InQueue(s) \/ s = k
    BY <2>1, <2>2, <2>3 DEF InQueue
  <2>5. s # k /\ QueuedOnce(s) => QueuedOnce(s)'
    BY <2>1, <2>2 DEF QueuedOnce
  <2>6. ~InQueue(s) => QueuedOnce(s)'
    BY <2>2 DEF InQueue, QueuedOnce
  <2> QED BY <2>4, <2>5, <2>6
<1> QED BY <1>1, <1>3, <1>4

\* An outcome is taken from the queue.
LEMMA OutcomeTaken ==
  ASSUME posted \in Seq(Calls), Unnumbered, Take("Finished")
  PROVE  /\ posted' \in Seq(Calls) /\ Unnumbered'
         /\ \A s \in Serials : /\ s # Head(posted).serial => (InQueue(s)' <=> InQueue(s))
                               /\ QueuedOnce(s) => QueuedOnce(s)'
                               /\ s = Head(posted).serial => InQueue(s) /\ (QueuedOnce(s) => ~InQueue(s)')
<1>1. posted # <<>> /\ posted' = Tail(posted) /\ posted' \in Seq(Calls)
  BY DEF Take
<1>2. /\ DOMAIN posted = 1..Len(posted) /\ DOMAIN posted' = 1..(Len(posted) - 1) /\ Len(posted) \in Nat \ {0}
      /\ Head(posted) = posted[1] /\ \A n \in 1..(Len(posted) - 1) : posted'[n] = posted[n + 1]
  BY <1>1
<1>3. Unnumbered'
  BY <1>2 DEF Unnumbered
<1>4. ASSUME NEW s \in Serials
      PROVE  /\ s # Head(posted).serial => (InQueue(s)' <=> InQueue(s))
             /\ QueuedOnce(s) => QueuedOnce(s)'
             /\ s = Head(posted).serial => InQueue(s) /\ (QueuedOnce(s) => ~InQueue(s)')
  <2>1. \A n \in DOMAIN posted : n = 1 \/ (n - 1 \in DOMAIN posted' /\ posted'[n - 1] = posted[n])
    BY <1>2
  <2>2. \A n \in DOMAIN posted' : n + 1 \in DOMAIN posted /\ posted'[n] = posted[n + 1] /\ n + 1 # 1
    BY <1>2
  <2>3. 1 \in DOMAIN posted
    BY <1>2
  <2>4. InQueue(s)' => InQueue(s)
    BY <2>2 DEF InQueue
  <2>5. s # Head(posted).serial => (InQueue(s) => InQueue(s)')
    BY <1>2, <2>1 DEF InQueue
  <2>6. QueuedOnce(s) => QueuedOnce(s)'
    BY <1>2, <2>2 DEF QueuedOnce
  <2>7. s = Head(posted).serial => InQueue(s) /\ (QueuedOnce(s) => ~InQueue(s)')
    BY <1>2, <2>2, <2>3 DEF InQueue, QueuedOnce
  <2> QED BY <2>4, <2>5, <2>6, <2>7
<1> QED BY <1>1, <1>3, <1>4

\* A request that does not wait is none, and has no serial.
LEMMA RequestLemma ==
  ASSUME NEW r \in StartRequest
  PROVE  /\ r.serial \in {0} \cup Serials /\ r.profile \in Profile
         /\ Waiting(r) => r.profile \in Profiles
         /\ ~Waiting(r) => r = NoRequest /\ r.serial = 0
  BY ProfilesAssumption DEF StartRequest, NoRequest, Request, Waiting, Profile

\* A request of the engine itself.
LEMMA InternalLemma ==
  ASSUME NEW p \in Profile
  PROVE  Request(0, p) \in StartRequest /\ Request(0, p).serial = 0 /\ Request(0, p).profile = p
  BY DEF StartRequest, NoRequest, Request, Profile

\* What a new serial is given to.
LEMMA NewLemma ==
  ASSUME NEW p \in Profiles, NEW n \in Serials
  PROVE  Request(n, p) \in StartRequest /\ Request(n, p).serial = n
  BY DEF StartRequest, Request

\* The supervisor's fields are replaced one by one.
LEMMA SupLemma ==
  ASSUME sup \in SupervisorFields, NEW p \in Profile
  PROVE  /\ [sup EXCEPT !.m_startWhenUp = p] \in SupervisorFields
         /\ [sup EXCEPT !.m_startWhenUp = p].m_state = sup.m_state
         /\ [sup EXCEPT !.m_startWhenUp = p].m_probing = sup.m_probing
         /\ [beginRestart EXCEPT !.m_startWhenUp = p] \in SupervisorFields
         /\ [beginRestart EXCEPT !.m_startWhenUp = p].m_state = "Starting"
  BY DEF SupervisorFields, beginRestart

\* The request that waited for the core is answered when another takes its place.
LEMMA SupersededLemma ==
  ASSUME Types, startFinished(superseded)
  PROVE  /\ answers' \in [Serials -> Nat]
         /\ \A s \in Serials : answers'[s] = answers[s] + (IF m_coreStartRequest.serial = s THEN 1 ELSE 0)
<1>1. m_coreStartRequest \in StartRequest /\ answers \in [Serials -> Nat] /\ 0 \notin Serials
  BY DEF Types, Serials
<1>2. \A s \in Serials : (\E r \in superseded : r.serial = s) <=> m_coreStartRequest.serial = s
  <2>1. ~Waiting(m_coreStartRequest) => m_coreStartRequest.serial = 0
    BY <1>1, RequestLemma
  <2> QED BY <1>1, <2>1 DEF superseded
<1>3. /\ answers' \in [Serials -> Nat]
      /\ \A s \in Serials : answers'[s] = answers[s] + (IF \E r \in superseded : r.serial = s THEN 1 ELSE 0)
  BY <1>1, FinishedLemma
<1> QED BY <1>2, <1>3

\* One request is answered.
LEMMA AnswerLemma ==
  ASSUME Types, NEW r, startFinished({r})
  PROVE  /\ answers' \in [Serials -> Nat]
         /\ \A s \in Serials : answers'[s] = answers[s] + (IF r.serial = s THEN 1 ELSE 0)
<1>1. answers \in [Serials -> Nat]
  BY DEF Types
<1>2. /\ answers' \in [Serials -> Nat]
      /\ \A s \in Serials : answers'[s] = answers[s] + (IF \E x \in {r} : x.serial = s THEN 1 ELSE 0)
  BY <1>1, FinishedLemma
<1> QED BY <1>2

\* A request whose server was looked up is the same request.
LEMMA CheckedLemma ==
  ASSUME NEW r \in StartRequest, Waiting(r)
  PROVE  /\ [r EXCEPT !.dnsChecked = TRUE] \in StartRequest
         /\ [r EXCEPT !.dnsChecked = TRUE].serial = r.serial
         /\ [r EXCEPT !.dnsChecked = TRUE].profile = r.profile
<1>1. r \in [serial : {0} \cup Serials, profile : Profiles, dnsChecked : BOOLEAN]
  BY DEF StartRequest, Waiting, NoRequest, Request
<1>2. [r EXCEPT !.dnsChecked = TRUE] \in [serial : {0} \cup Serials, profile : Profiles, dnsChecked : BOOLEAN]
  BY <1>1
<1> QED BY <1>1, <1>2 DEF StartRequest

\* restartCoreForGuard: the request waits for the core, and its restart is queued or was asked.
LEMMA GuardLemma ==
  ASSUME Types, Unnumbered, NEW r \in StartRequest, restartCoreForGuard(r)
  PROVE  /\ m_coreStartRequest' = r /\ startFinished(superseded) /\ m_guardCoreRestart' = TRUE
         /\ sup' \in SupervisorFields
         /\ \/ sup'.m_state = "Starting"
            \/ (m_guardCoreRestart /\ sup'.m_state = sup.m_state /\ sup'.m_probing = sup.m_probing)
         /\ posted' \in Seq(Calls) /\ Keeps
         /\ exit' \in Exit /\ exit'.pc = exit.pc
         /\ tasks' \in Seq({"Restart", "StopRestart", "Stopping"}) /\ (tasks' # <<>> \/ tasks' = tasks)
<1>1. m_coreStartRequest' = r /\ startFinished(superseded) /\ m_guardCoreRestart' = TRUE
  BY RequestLemma DEF restartCoreForGuard, deferStartToCore
<1>2. r.profile \in Profile /\ sup \in SupervisorFields
  BY RequestLemma DEF Types
<1>3. CASE m_guardCoreRestart
  <2>1. sup' = [sup EXCEPT !.m_startWhenUp = r.profile] /\ UNCHANGED <<tasks, exit, posted>>
    BY <1>3 DEF restartCoreForGuard
  <2>2. sup' \in SupervisorFields /\ sup'.m_state = sup.m_state /\ sup'.m_probing = sup.m_probing
    BY <1>2, <2>1, SupLemma
  <2>3. Keeps
    BY <2>1, SameLemma
  <2> QED BY <1>1, <1>3, <2>1, <2>2, <2>3 DEF Types
<1>4. CASE ~m_guardCoreRestart
  <2>1. sup' = [beginRestart EXCEPT !.m_startWhenUp = r.profile] /\ PostRestart("StopRestart")
    BY <1>4 DEF restartCoreForGuard
  <2>2. sup' \in SupervisorFields /\ sup'.m_state = "Starting"
    BY <1>2, <2>1, SupLemma
  <2> QED BY <1>1, <2>1, <2>2, RestartLemma
<1> QED BY <1>3, <1>4

-----------------------------------------------------------------------------
(* start() on the main thread.                                             *)

\* A start that fails is answered.
LEMMA FailStep ==
  ASSUME IInv, Waiting(calling), Fail
  PROVE  IInv'
<1>0. Types /\ Sides /\ Unnumbered /\ \A s \in Serials : Once(s)
  BY DEF IInv, Tracked
<1>q. posted' \in Seq(Calls) /\ Keeps
  BY <1>0, SameLemma DEF Types, Fail, Return, waits, shown, locks, StartUntouched, workers, settings
<1>a. /\ answers' \in [Serials -> Nat]
      /\ \A s \in Serials : answers'[s] = answers[s] + (IF calling.serial = s THEN 1 ELSE 0)
  BY <1>0, AnswerLemma DEF Fail, Return, waits, shown, locks, StartUntouched, workers, settings
<1>1. Types'
  <2>1. calling' \in StartRequest
    BY <1>0 DEF Types, Fail, Return, waits, shown, locks, StartUntouched, workers, settings, StartRequest,
       NoRequest, Request, Profile, Serials
  <2>2. rankedFor' \in BOOLEAN
    BY <1>0 DEF Types, Fail, Return, waits, shown, locks, StartUntouched, workers, settings
  <2>u. UNCHANGED <<dnsSelect, m_killSwitchDeferredStart, m_coreStartRequest, rankReq, rankingInFlight,
     m_guardCoreRestart, m_profileConnecting, m_profileDisconnecting, mu_starting, mu_stopping, prepare_exit,
     core_running, posted, m_running, started_id, m_bootSerial, starter, stopper, killSwitch, sup, core,
     exit, tasks, lastSerial, events>>
    BY DEF Fail, Return, waits, shown, locks, StartUntouched, workers, settings
  <2> QED BY <1>0, <1>q, <1>a, <2>1, <2>2, <2>u DEF Types
<1>2. Sides'
  BY <1>0, <1>1, ProfilesAssumption DEF Types, Profile, StartRequest, NoRequest, StarterFields,
     StopperFields, CoreFields,
     SupervisorFields, Exit, KillSwitchStates, Sides, Vacant, Owing, Stops, Runs, Fail, Return, waits, shown,
     locks, StartUntouched, workers, settings
<1>3. Tracked'
  <2> SUFFICES ASSUME NEW s \in Serials PROVE Once(s)'
    BY <1>q DEF Keeps, Tracked
  <2>1. (InQueue(s)' <=> InQueue(s)) /\ (QueuedOnce(s) => QueuedOnce(s)') /\ Once(s) /\ s \in Nat \ {0}
    BY <1>0, <1>q DEF Keeps, Serials
  <2> QED BY <1>0, <1>a, <2>1, ProfilesAssumption DEF Types, Once, Nowhere, Somewhere, StartRequest,
     NoRequest, Request, StarterFields, Vacant, Sides, Fail, Return, waits, shown, locks, StartUntouched,
     workers, settings
<1> QED BY <1>1, <1>2, <1>3 DEF IInv

\* The request waits for the DNS selection, or is refused.
LEMMA DeferStartForDnsStep ==
  ASSUME IInv, deferStartForDns
  PROVE  IInv'
<1>0. Types /\ Sides /\ Unnumbered /\ \A s \in Serials : Once(s)
  BY DEF IInv, Tracked
<1>q. posted' \in Seq(Calls) /\ Keeps
  BY <1>0, SameLemma DEF Types, deferStartForDns, Waiting, ChecksDns, Return, shown, locks, StartUntouched,
     workers, settings
<1>1. Types'
  <2>1. calling' \in StartRequest
    BY <1>0 DEF Types, deferStartForDns, Waiting, ChecksDns, Return, shown, locks, StartUntouched, workers,
       settings, StartRequest, NoRequest, Request, Profile, Serials
  <2>2. dnsSelect' \in StartRequest
    BY <1>0, CheckedLemma DEF Types, deferStartForDns, Waiting, ChecksDns, Return, shown, locks,
       StartUntouched, workers, settings
  <2>3. rankedFor' \in BOOLEAN
    BY <1>0 DEF Types, deferStartForDns, Waiting, ChecksDns, Return, shown, locks, StartUntouched, workers,
       settings
  <2>4. answers' \in [Serials -> Nat]
    BY <1>0, AnswerLemma DEF Types, deferStartForDns, Waiting, ChecksDns, Return, shown, locks,
       StartUntouched, workers, settings
  <2>u. UNCHANGED <<m_killSwitchDeferredStart, m_coreStartRequest, rankReq, rankingInFlight,
     m_guardCoreRestart, m_profileConnecting, m_profileDisconnecting, mu_starting, mu_stopping, prepare_exit,
     core_running, posted, m_running, started_id, m_bootSerial, starter, stopper, killSwitch, sup, core,
     exit, tasks, lastSerial, events>>
    BY DEF deferStartForDns, Waiting, ChecksDns, Return, shown, locks, StartUntouched, workers, settings
  <2> QED BY <1>0, <1>q, <2>1, <2>2, <2>3, <2>4, <2>u DEF Types
<1>2. Sides'
  BY <1>0, <1>1, ProfilesAssumption DEF Types, Profile, StartRequest, NoRequest, StarterFields,
     StopperFields, CoreFields,
     SupervisorFields, Exit, KillSwitchStates, Sides, Vacant, Owing, Stops, Runs, deferStartForDns, Waiting,
     ChecksDns, Return, shown, locks, StartUntouched, workers, settings
<1>3. Tracked'
  <2> SUFFICES ASSUME NEW s \in Serials PROVE Once(s)'
    BY <1>q DEF Keeps, Tracked
  <2>1. (InQueue(s)' <=> InQueue(s)) /\ (QueuedOnce(s) => QueuedOnce(s)') /\ Once(s) /\ s \in Nat \ {0}
    BY <1>0, <1>q DEF Keeps, Serials
  <2>2. calling'.serial = 0
    BY DEF deferStartForDns, Waiting, ChecksDns, Return, shown, locks, StartUntouched, workers, settings,
       NoRequest, Request
  <2>3. CASE Waiting(dnsSelect)
    <3>1. answers'[s] = answers[s] + (IF calling.serial = s THEN 1 ELSE 0)
      BY <1>0, <2>3, AnswerLemma DEF deferStartForDns, Waiting, ChecksDns, Return, shown, locks,
         StartUntouched, workers, settings
    <3> QED BY <1>0, <2>1, <2>2, <2>3, <3>1 DEF Types, Once, Nowhere, Somewhere, deferStartForDns, Waiting,
       ChecksDns, Return, shown, locks, StartUntouched, workers, settings
  <2>4. CASE ~Waiting(dnsSelect)
    <3>1. dnsSelect.serial = 0
      BY <1>0, <2>4, RequestLemma DEF Types
    <3>2. dnsSelect'.serial = calling.serial
      BY <1>0, <2>4, CheckedLemma DEF Types, deferStartForDns, Waiting, ChecksDns, Return, shown, locks,
         StartUntouched, workers, settings
    <3> QED BY <1>0, <2>1, <2>2, <2>4, <3>1, <3>2 DEF Types, Once, Nowhere, Somewhere, deferStartForDns,
       Waiting, ChecksDns, Return, shown, locks, StartUntouched, workers, settings
  <2> QED BY <2>3, <2>4
<1> QED BY <1>1, <1>2, <1>3 DEF IInv

\* The request waits for the kill switch, in place of the one that did.
LEMMA StartWhileArmingStep ==
  ASSUME IInv, StartWhileArming
  PROVE  IInv'
<1>0. Types /\ Sides /\ Unnumbered /\ \A s \in Serials : Once(s)
  BY DEF IInv, Tracked
<1>q. posted' \in Seq(Calls) /\ Keeps
  BY <1>0, SameLemma DEF Types, StartWhileArming, PastDns, Return, Waiting, shown, locks, StartUntouched,
     ChecksDns, workers, settings
<1>a. /\ answers' \in [Serials -> Nat]
      /\ \A s \in Serials : answers'[s] = answers[s] + (IF m_killSwitchDeferredStart.serial = s THEN 1 ELSE 0)
  <2>1. ASSUME NEW s \in Serials
        PROVE  (\E r \in (IF Waiting(m_killSwitchDeferredStart) THEN {m_killSwitchDeferredStart} ELSE {}) : r.serial = s)
               <=> m_killSwitchDeferredStart.serial = s
    <3>1. m_killSwitchDeferredStart.serial # s \/ Waiting(m_killSwitchDeferredStart)
      BY <1>0, RequestLemma DEF Types, Serials
    <3> QED BY <3>1
  <2> QED BY <1>0, <2>1, FinishedLemma DEF StartWhileArming, PastDns, Return, Waiting, shown, locks,
     StartUntouched, ChecksDns, workers, settings, Types
<1>1. Types'
  <2>1. calling' \in StartRequest
    BY <1>0 DEF Types, StartWhileArming, PastDns, Return, Waiting, shown, locks, StartUntouched, ChecksDns,
       workers, settings, StartRequest, NoRequest, Request, Profile, Serials
  <2>2. m_killSwitchDeferredStart' \in StartRequest
    BY <1>0 DEF Types, StartWhileArming, PastDns, Return, Waiting, shown, locks, StartUntouched, ChecksDns,
       workers, settings, StartRequest, NoRequest, Request, Profile, Serials
  <2>3. rankedFor' \in BOOLEAN
    BY <1>0 DEF Types, StartWhileArming, PastDns, Return, Waiting, shown, locks, StartUntouched, ChecksDns,
       workers, settings
  <2>u. UNCHANGED <<dnsSelect, m_coreStartRequest, rankReq, rankingInFlight, m_guardCoreRestart,
     m_profileConnecting, m_profileDisconnecting, mu_starting, mu_stopping, prepare_exit, core_running,
     posted, m_running, started_id, m_bootSerial, starter, stopper, killSwitch, sup, core, exit, tasks,
     lastSerial, events>>
    BY DEF StartWhileArming, PastDns, Return, Waiting, shown, locks, StartUntouched, ChecksDns, workers,
       settings
  <2> QED BY <1>0, <1>q, <1>a, <2>1, <2>2, <2>3, <2>u DEF Types
<1>2. Sides'
  BY <1>0, <1>1, ProfilesAssumption DEF Types, Profile, StartRequest, NoRequest, StarterFields,
     StopperFields, CoreFields,
     SupervisorFields, Exit, KillSwitchStates, Sides, Vacant, Owing, Stops, Runs, StartWhileArming, PastDns,
     Return, Waiting, shown, locks, StartUntouched, ChecksDns, workers, settings
<1>3. Tracked'
  <2> SUFFICES ASSUME NEW s \in Serials PROVE Once(s)'
    BY <1>q DEF Keeps, Tracked
  <2>1. (InQueue(s)' <=> InQueue(s)) /\ (QueuedOnce(s) => QueuedOnce(s)') /\ Once(s) /\ s \in Nat \ {0}
    BY <1>0, <1>q DEF Keeps, Serials
  <2> QED BY <1>0, <1>a, <2>1, ProfilesAssumption DEF Types, Once, Nowhere, Somewhere, StartRequest,
     NoRequest, Request, StarterFields, Vacant, Sides, StartWhileArming, PastDns, Return, Waiting, shown,
     locks, StartUntouched, ChecksDns, workers, settings
<1> QED BY <1>1, <1>2, <1>3 DEF IInv

\* The request waits for the core that is restarted for the guard.
LEMMA StartAfterGuardRestartStep ==
  ASSUME IInv, StartAfterGuardRestart
  PROVE  IInv'
<1>0. Types /\ Sides /\ Unnumbered /\ \A s \in Serials : Once(s)
  BY DEF IInv, Tracked
<1>c. calling \in StartRequest /\ Waiting(calling)
  BY <1>0 DEF Types, StartAfterGuardRestart, PastKillSwitch, Unguarded, Return, shown, locks, StartUntouched,
     PastDns, runningWithoutGuardIdentity, workers, settings, Waiting, ChecksDns
<1>x. /\ m_coreStartRequest' = calling /\ startFinished(superseded) /\ m_guardCoreRestart' = TRUE
      /\ sup' \in SupervisorFields
      /\ sup'.m_state = "Starting" \/ (m_guardCoreRestart /\ sup'.m_state = sup.m_state /\ sup'.m_probing = sup.m_probing)
      /\ posted' \in Seq(Calls) /\ Keeps
      /\ exit' \in Exit /\ exit'.pc = exit.pc
      /\ tasks' \in Seq({"Restart", "StopRestart", "Stopping"}) /\ (tasks' # <<>> \/ tasks' = tasks)
  BY <1>0, <1>c, GuardLemma DEF StartAfterGuardRestart, PastKillSwitch, Unguarded, Return, shown, locks,
     StartUntouched, PastDns, runningWithoutGuardIdentity, workers, settings, Waiting, ChecksDns
<1>q. posted' \in Seq(Calls) /\ Keeps
  BY <1>x
<1>a. /\ answers' \in [Serials -> Nat]
      /\ \A s \in Serials : answers'[s] = answers[s] + (IF m_coreStartRequest.serial = s THEN 1 ELSE 0)
  BY <1>0, <1>x, SupersededLemma
<1>1. Types'
  <2>1. calling' \in StartRequest
    BY <1>0, <1>x DEF Types, StartAfterGuardRestart, PastKillSwitch, Unguarded, Return, shown, locks,
       StartUntouched, PastDns, runningWithoutGuardIdentity, workers, settings, Waiting, ChecksDns,
       StartRequest, NoRequest, Request, Profile, Serials
  <2>2. m_coreStartRequest' \in StartRequest
    BY <1>c, <1>x
  <2>3. rankedFor' \in BOOLEAN
    BY <1>0, <1>x DEF Types, StartAfterGuardRestart, PastKillSwitch, Unguarded, Return, shown, locks,
       StartUntouched, PastDns, runningWithoutGuardIdentity, workers, settings, Waiting, ChecksDns
  <2>4. m_guardCoreRestart' \in BOOLEAN
    BY <1>c, <1>x
  <2>5. sup' \in SupervisorFields
    BY <1>c, <1>x
  <2>6. exit' \in Exit
    BY <1>c, <1>x
  <2>7. tasks' \in Seq({"Restart", "StopRestart", "Stopping"})
    BY <1>c, <1>x
  <2>u. UNCHANGED <<dnsSelect, m_killSwitchDeferredStart, rankReq, rankingInFlight, m_profileConnecting,
     m_profileDisconnecting, mu_starting, mu_stopping, prepare_exit, core_running, m_running, started_id,
     m_bootSerial, starter, stopper, killSwitch, core, lastSerial, events>>
    BY DEF StartAfterGuardRestart, PastKillSwitch, Unguarded, Return, shown, locks, StartUntouched, PastDns,
       runningWithoutGuardIdentity, workers, settings, Waiting, ChecksDns
  <2> QED BY <1>0, <1>q, <1>a, <2>1, <2>2, <2>3, <2>4, <2>5, <2>6, <2>7, <2>u DEF Types
<1>2. Sides'
  BY <1>0, <1>1, <1>x, ProfilesAssumption DEF Types, Profile, StartRequest, NoRequest, StarterFields,
     StopperFields, CoreFields,
     SupervisorFields, Exit, KillSwitchStates, Sides, Vacant, Owing, Stops, Runs, StartAfterGuardRestart,
     PastKillSwitch, Unguarded, Return, shown, locks, StartUntouched, PastDns, runningWithoutGuardIdentity,
     workers, settings, Waiting, ChecksDns
<1>3. Tracked'
  <2> SUFFICES ASSUME NEW s \in Serials PROVE Once(s)'
    BY <1>q DEF Keeps, Tracked
  <2>1. (InQueue(s)' <=> InQueue(s)) /\ (QueuedOnce(s) => QueuedOnce(s)') /\ Once(s) /\ s \in Nat \ {0}
    BY <1>0, <1>q DEF Keeps, Serials
  <2> QED BY <1>0, <1>a, <1>x, <2>1, ProfilesAssumption DEF Types, Once, Nowhere, Somewhere, StartRequest,
     NoRequest, Request, StarterFields, Vacant, Sides, StartAfterGuardRestart, PastKillSwitch, Unguarded,
     Return, shown, locks, StartUntouched, PastDns, runningWithoutGuardIdentity, workers, settings, Waiting,
     ChecksDns
<1> QED BY <1>1, <1>2, <1>3 DEF IInv

\* The request waits for a sweep.
LEMMA RankBeforeStartStep ==
  ASSUME IInv, rankBeforeStart
  PROVE  IInv'
<1>0. Types /\ Sides /\ Unnumbered /\ \A s \in Serials : Once(s)
  BY DEF IInv, Tracked
<1>q. posted' \in Seq(Calls) /\ Keeps
  BY <1>0, SameLemma DEF Types, rankBeforeStart, PastGuard, Return, shown, locks, StartUntouched,
     PastKillSwitch, Unguarded, workers, settings, PastDns, runningWithoutGuardIdentity, Waiting, ChecksDns
<1>1. Types'
  <2>1. calling' \in StartRequest
    BY <1>0 DEF Types, rankBeforeStart, PastGuard, Return, shown, locks, StartUntouched, PastKillSwitch,
       Unguarded, workers, settings, PastDns, runningWithoutGuardIdentity, Waiting, ChecksDns, StartRequest,
       NoRequest, Request, Profile, Serials
  <2>2. rankReq' \in StartRequest
    BY <1>0 DEF Types, rankBeforeStart, PastGuard, Return, shown, locks, StartUntouched, PastKillSwitch,
       Unguarded, workers, settings, PastDns, runningWithoutGuardIdentity, Waiting, ChecksDns, StartRequest,
       NoRequest, Request, Profile, Serials
  <2>3. rankedFor' \in BOOLEAN
    BY <1>0 DEF Types, rankBeforeStart, PastGuard, Return, shown, locks, StartUntouched, PastKillSwitch,
       Unguarded, workers, settings, PastDns, runningWithoutGuardIdentity, Waiting, ChecksDns
  <2>4. rankingInFlight' \in BOOLEAN
    BY <1>0 DEF Types, rankBeforeStart, PastGuard, Return, shown, locks, StartUntouched, PastKillSwitch,
       Unguarded, workers, settings, PastDns, runningWithoutGuardIdentity, Waiting, ChecksDns
  <2>u. UNCHANGED <<dnsSelect, m_killSwitchDeferredStart, m_coreStartRequest, m_guardCoreRestart,
     m_profileConnecting, m_profileDisconnecting, mu_starting, mu_stopping, prepare_exit, core_running,
     posted, m_running, started_id, m_bootSerial, starter, stopper, killSwitch, sup, core, exit, tasks,
     answers, lastSerial, events>>
    BY DEF rankBeforeStart, PastGuard, Return, shown, locks, StartUntouched, PastKillSwitch, Unguarded,
       workers, settings, PastDns, runningWithoutGuardIdentity, Waiting, ChecksDns
  <2> QED BY <1>0, <1>q, <2>1, <2>2, <2>3, <2>4, <2>u DEF Types
<1>2. Sides'
  BY <1>0, <1>1, ProfilesAssumption DEF Types, Profile, StartRequest, NoRequest, StarterFields,
     StopperFields, CoreFields,
     SupervisorFields, Exit, KillSwitchStates, Sides, Vacant, Owing, Stops, Runs, rankBeforeStart, PastGuard,
     Return, shown, locks, StartUntouched, PastKillSwitch, Unguarded, workers, settings, PastDns,
     runningWithoutGuardIdentity, Waiting, ChecksDns
<1>3. Tracked'
  <2> SUFFICES ASSUME NEW s \in Serials PROVE Once(s)'
    BY <1>q DEF Keeps, Tracked
  <2>1. (InQueue(s)' <=> InQueue(s)) /\ (QueuedOnce(s) => QueuedOnce(s)') /\ Once(s) /\ s \in Nat \ {0}
    BY <1>0, <1>q DEF Keeps, Serials
  <2> QED BY <1>0, <2>1, ProfilesAssumption DEF Types, Once, Nowhere, Somewhere, StartRequest, NoRequest,
     Request, StarterFields, Vacant, Sides, rankBeforeStart, PastGuard, Return, shown, locks, StartUntouched,
     PastKillSwitch, Unguarded, workers, settings, PastDns, runningWithoutGuardIdentity, Waiting, ChecksDns
<1> QED BY <1>1, <1>2, <1>3 DEF IInv

\* The request waits for the core that is being probed.
LEMMA StartWhileProbingStep ==
  ASSUME IInv, StartWhileProbing
  PROVE  IInv'
<1>0. Types /\ Sides /\ Unnumbered /\ \A s \in Serials : Once(s)
  BY DEF IInv, Tracked
<1>c. calling \in StartRequest /\ Waiting(calling) /\ calling.profile \in Profile /\ sup \in SupervisorFields
  BY <1>0, RequestLemma DEF Types, StartWhileProbing, PastLocks, Return, deferStartToCore, shown, locks,
     StartUntouched, PastGuard, workers, settings, PastKillSwitch, Unguarded, PastDns,
     runningWithoutGuardIdentity, Waiting, ChecksDns
<1>x. sup' \in SupervisorFields /\ sup'.m_state = sup.m_state /\ sup'.m_probing = sup.m_probing
  BY <1>c, SupLemma DEF StartWhileProbing, PastLocks, Return, deferStartToCore, shown, locks, StartUntouched,
     PastGuard, workers, settings, PastKillSwitch, Unguarded, PastDns, runningWithoutGuardIdentity, Waiting,
     ChecksDns
<1>r. m_coreStartRequest' = calling /\ calling'.serial = 0
  BY DEF StartWhileProbing, PastLocks, Return, deferStartToCore, shown, locks, StartUntouched, PastGuard,
     workers, settings, PastKillSwitch, Unguarded, PastDns, runningWithoutGuardIdentity, Waiting, ChecksDns,
     NoRequest, Request
<1>q. posted' \in Seq(Calls) /\ Keeps
  BY <1>0, SameLemma DEF Types, StartWhileProbing, PastLocks, Return, deferStartToCore, shown, locks,
     StartUntouched, PastGuard, workers, settings, PastKillSwitch, Unguarded, PastDns,
     runningWithoutGuardIdentity, Waiting, ChecksDns
<1>a. /\ answers' \in [Serials -> Nat]
      /\ \A s \in Serials : answers'[s] = answers[s] + (IF m_coreStartRequest.serial = s THEN 1 ELSE 0)
  BY <1>0, SupersededLemma DEF StartWhileProbing, PastLocks, Return, deferStartToCore, shown, locks,
     StartUntouched, PastGuard, workers, settings, PastKillSwitch, Unguarded, PastDns,
     runningWithoutGuardIdentity, Waiting, ChecksDns
<1>1. Types'
  <2>1. calling' \in StartRequest
    BY <1>0, <1>x DEF Types, StartWhileProbing, PastLocks, Return, deferStartToCore, shown, locks,
       StartUntouched, PastGuard, workers, settings, PastKillSwitch, Unguarded, PastDns,
       runningWithoutGuardIdentity, Waiting, ChecksDns, StartRequest, NoRequest, Request, Profile, Serials
  <2>2. m_coreStartRequest' \in StartRequest
    BY <1>c, <1>r
  <2>3. rankedFor' \in BOOLEAN
    BY <1>0, <1>x DEF Types, StartWhileProbing, PastLocks, Return, deferStartToCore, shown, locks,
       StartUntouched, PastGuard, workers, settings, PastKillSwitch, Unguarded, PastDns,
       runningWithoutGuardIdentity, Waiting, ChecksDns
  <2>4. sup' \in SupervisorFields
    BY <1>x
  <2>u. UNCHANGED <<dnsSelect, m_killSwitchDeferredStart, rankReq, rankingInFlight, m_guardCoreRestart,
     m_profileConnecting, m_profileDisconnecting, mu_starting, mu_stopping, prepare_exit, core_running,
     posted, m_running, started_id, m_bootSerial, starter, stopper, killSwitch, core, exit, tasks,
     lastSerial, events>>
    BY DEF StartWhileProbing, PastLocks, Return, deferStartToCore, shown, locks, StartUntouched, PastGuard,
       workers, settings, PastKillSwitch, Unguarded, PastDns, runningWithoutGuardIdentity, Waiting, ChecksDns
  <2> QED BY <1>0, <1>q, <1>a, <2>1, <2>2, <2>3, <2>4, <2>u DEF Types
<1>2. Sides'
  BY <1>0, <1>1, <1>x, ProfilesAssumption DEF Types, Profile, StartRequest, NoRequest, StarterFields,
     StopperFields, CoreFields,
     SupervisorFields, Exit, KillSwitchStates, Sides, Vacant, Owing, Stops, Runs, StartWhileProbing,
     PastLocks, Return, deferStartToCore, shown, locks, StartUntouched, PastGuard, workers, settings,
     PastKillSwitch, Unguarded, PastDns, runningWithoutGuardIdentity, Waiting, ChecksDns
<1>3. Tracked'
  <2> SUFFICES ASSUME NEW s \in Serials PROVE Once(s)'
    BY <1>q DEF Keeps, Tracked
  <2>1. (InQueue(s)' <=> InQueue(s)) /\ (QueuedOnce(s) => QueuedOnce(s)') /\ Once(s) /\ s \in Nat \ {0}
    BY <1>0, <1>q DEF Keeps, Serials
  <2> QED BY <1>0, <2>1, <1>a, <1>r DEF Types, Once, Nowhere, Somewhere, StartWhileProbing, PastLocks,
     Return, deferStartToCore, shown, locks, StartUntouched, PastGuard, workers, settings, PastKillSwitch,
     Unguarded, PastDns, runningWithoutGuardIdentity, Waiting, ChecksDns
<1> QED BY <1>1, <1>2, <1>3 DEF IInv

\* The request waits for a core that is to be spawned.
LEMMA StartRestartsCoreStep ==
  ASSUME IInv, StartRestartsCore
  PROVE  IInv'
<1>0. Types /\ Sides /\ Unnumbered /\ \A s \in Serials : Once(s)
  BY DEF IInv, Tracked
<1>x. /\ exit' \in Exit /\ exit'.pc = exit.pc
      /\ tasks' \in Seq({"Restart", "StopRestart", "Stopping"}) /\ tasks' # <<>>
  BY <1>0, RestartLemma DEF StartRestartsCore, PastLocks, canStartCore, Return, deferStartToCore, shown,
     locks, StartUntouched, PastGuard, workers, settings, PastKillSwitch, Unguarded, PastDns,
     runningWithoutGuardIdentity, Waiting, ChecksDns
<1>c. calling \in StartRequest /\ Waiting(calling) /\ calling.profile \in Profile /\ sup \in SupervisorFields
  BY <1>0, RequestLemma DEF Types, StartRestartsCore, PastLocks, canStartCore, Return, deferStartToCore,
     shown, locks, StartUntouched, PastGuard, workers, settings, PastKillSwitch, Unguarded, PastDns,
     runningWithoutGuardIdentity, Waiting, ChecksDns
<1>s. sup' \in SupervisorFields /\ sup'.m_state = "Starting"
  BY <1>c, SupLemma DEF StartRestartsCore, PastLocks, canStartCore, Return, deferStartToCore, shown, locks,
     StartUntouched, PastGuard, workers, settings, PastKillSwitch, Unguarded, PastDns,
     runningWithoutGuardIdentity, Waiting, ChecksDns
<1>r. m_coreStartRequest' = calling /\ calling'.serial = 0
  BY DEF StartRestartsCore, PastLocks, canStartCore, Return, deferStartToCore, shown, locks, StartUntouched,
     PastGuard, workers, settings, PastKillSwitch, Unguarded, PastDns, runningWithoutGuardIdentity, Waiting,
     ChecksDns, NoRequest, Request
<1>q. posted' \in Seq(Calls) /\ Keeps
  BY <1>0, RestartLemma DEF StartRestartsCore, PastLocks, canStartCore, Return, deferStartToCore, shown,
     locks, StartUntouched, PastGuard, workers, settings, PastKillSwitch, Unguarded, PastDns,
     runningWithoutGuardIdentity, Waiting, ChecksDns
<1>a. /\ answers' \in [Serials -> Nat]
      /\ \A s \in Serials : answers'[s] = answers[s] + (IF m_coreStartRequest.serial = s THEN 1 ELSE 0)
  BY <1>0, SupersededLemma DEF StartRestartsCore, PastLocks, canStartCore, Return, deferStartToCore, shown,
     locks, StartUntouched, PastGuard, workers, settings, PastKillSwitch, Unguarded, PastDns,
     runningWithoutGuardIdentity, Waiting, ChecksDns
<1>1. Types'
  <2>1. calling' \in StartRequest
    BY <1>0, <1>x DEF Types, StartRestartsCore, PastLocks, canStartCore, Return, deferStartToCore, shown,
       locks, StartUntouched, PastGuard, workers, settings, PastKillSwitch, Unguarded, PastDns,
       runningWithoutGuardIdentity, Waiting, ChecksDns, StartRequest, NoRequest, Request, Profile, Serials
  <2>2. m_coreStartRequest' \in StartRequest
    BY <1>c, <1>r
  <2>3. rankedFor' \in BOOLEAN
    BY <1>0, <1>x DEF Types, StartRestartsCore, PastLocks, canStartCore, Return, deferStartToCore, shown,
       locks, StartUntouched, PastGuard, workers, settings, PastKillSwitch, Unguarded, PastDns,
       runningWithoutGuardIdentity, Waiting, ChecksDns
  <2>4. sup' \in SupervisorFields
    BY <1>s
  <2>5. exit' \in Exit
    BY <1>x
  <2>6. tasks' \in Seq({"Restart", "StopRestart", "Stopping"})
    BY <1>x
  <2>u. UNCHANGED <<dnsSelect, m_killSwitchDeferredStart, rankReq, rankingInFlight, m_guardCoreRestart,
     m_profileConnecting, m_profileDisconnecting, mu_starting, mu_stopping, prepare_exit, core_running,
     m_running, started_id, m_bootSerial, starter, stopper, killSwitch, core, lastSerial, events>>
    BY DEF StartRestartsCore, PastLocks, canStartCore, Return, deferStartToCore, shown, locks,
       StartUntouched, PastGuard, workers, settings, PastKillSwitch, Unguarded, PastDns,
       runningWithoutGuardIdentity, Waiting, ChecksDns
  <2> QED BY <1>0, <1>q, <1>a, <2>1, <2>2, <2>3, <2>4, <2>5, <2>6, <2>u DEF Types
<1>2. Sides'
  BY <1>0, <1>1, <1>x, <1>s, <1>r DEF Types, Sides, Vacant, Owing, Stops, Runs, StartRestartsCore, PastLocks,
     canStartCore, Return, deferStartToCore, shown, locks, StartUntouched, PastGuard, workers, settings,
     PastKillSwitch, Unguarded, PastDns, runningWithoutGuardIdentity, Waiting, ChecksDns
<1>3. Tracked'
  <2> SUFFICES ASSUME NEW s \in Serials PROVE Once(s)'
    BY <1>q DEF Keeps, Tracked
  <2>1. (InQueue(s)' <=> InQueue(s)) /\ (QueuedOnce(s) => QueuedOnce(s)') /\ Once(s) /\ s \in Nat \ {0}
    BY <1>0, <1>q DEF Keeps, Serials
  <2> QED BY <1>0, <2>1, <1>a, <1>r DEF Types, Once, Nowhere, Somewhere, StartRestartsCore, PastLocks,
     canStartCore, Return, deferStartToCore, shown, locks, StartUntouched, PastGuard, workers, settings,
     PastKillSwitch, Unguarded, PastDns, runningWithoutGuardIdentity, Waiting, ChecksDns
<1> QED BY <1>1, <1>2, <1>3 DEF IInv

\* The request goes on on the worker.
LEMMA StartOnWorkerStep ==
  ASSUME IInv, StartOnWorker
  PROVE  IInv'
<1>0. Types /\ Sides /\ Unnumbered /\ \A s \in Serials : Once(s)
  BY DEF IInv, Tracked
<1>q. posted' \in Seq(Calls) /\ Keeps
  BY <1>0, SameLemma DEF Types, StartOnWorker, PastLocks, Return, waits, settings, coreSide, PastGuard,
     PastKillSwitch, Unguarded, PastDns, runningWithoutGuardIdentity, Waiting, ChecksDns
<1>1. Types'
  <2>1. calling' \in StartRequest
    BY <1>0 DEF Types, StartOnWorker, PastLocks, Return, waits, settings, coreSide, PastGuard,
       PastKillSwitch, Unguarded, PastDns, runningWithoutGuardIdentity, Waiting, ChecksDns, StartRequest,
       NoRequest, Request, Profile, Serials
  <2>2. rankedFor' \in BOOLEAN
    BY <1>0 DEF Types, StartOnWorker, PastLocks, Return, waits, settings, coreSide, PastGuard,
       PastKillSwitch, Unguarded, PastDns, runningWithoutGuardIdentity, Waiting, ChecksDns
  <2>3. m_profileConnecting' \in BOOLEAN
    BY <1>0 DEF Types, StartOnWorker, PastLocks, Return, waits, settings, coreSide, PastGuard,
       PastKillSwitch, Unguarded, PastDns, runningWithoutGuardIdentity, Waiting, ChecksDns
  <2>4. mu_starting' \in BOOLEAN
    BY <1>0 DEF Types, StartOnWorker, PastLocks, Return, waits, settings, coreSide, PastGuard,
       PastKillSwitch, Unguarded, PastDns, runningWithoutGuardIdentity, Waiting, ChecksDns
  <2>5. starter' \in StarterFields
    BY <1>0 DEF Types, StartOnWorker, PastLocks, Return, waits, settings, coreSide, PastGuard,
       PastKillSwitch, Unguarded, PastDns, runningWithoutGuardIdentity, Waiting, ChecksDns, StarterFields,
       StartRequest, NoRequest, Request, Profile
  <2>u. UNCHANGED <<dnsSelect, m_killSwitchDeferredStart, m_coreStartRequest, rankReq, rankingInFlight,
     m_guardCoreRestart, m_profileDisconnecting, mu_stopping, prepare_exit, core_running, posted, m_running,
     started_id, m_bootSerial, stopper, killSwitch, sup, core, exit, tasks, answers, lastSerial, events>>
    BY DEF StartOnWorker, PastLocks, Return, waits, settings, coreSide, PastGuard, PastKillSwitch, Unguarded,
       PastDns, runningWithoutGuardIdentity, Waiting, ChecksDns
  <2> QED BY <1>0, <1>q, <2>1, <2>2, <2>3, <2>4, <2>5, <2>u DEF Types
<1>2. Sides'
  BY <1>0, <1>1, ProfilesAssumption DEF Types, Profile, StartRequest, NoRequest, StarterFields,
     StopperFields, CoreFields,
     SupervisorFields, Exit, KillSwitchStates, Sides, Vacant, Owing, Stops, Runs, StartOnWorker, PastLocks,
     Return, waits, settings, coreSide, PastGuard, PastKillSwitch, Unguarded, PastDns,
     runningWithoutGuardIdentity, Waiting, ChecksDns
<1>3. Tracked'
  <2> SUFFICES ASSUME NEW s \in Serials PROVE Once(s)'
    BY <1>q DEF Keeps, Tracked
  <2>1. (InQueue(s)' <=> InQueue(s)) /\ (QueuedOnce(s) => QueuedOnce(s)') /\ Once(s) /\ s \in Nat \ {0}
    BY <1>0, <1>q DEF Keeps, Serials
  <2> QED BY <1>0, <2>1, ProfilesAssumption DEF Types, Once, Nowhere, Somewhere, StartRequest, NoRequest,
     Request, StarterFields, Vacant, Sides, StartOnWorker, PastLocks, Return, waits, settings, coreSide,
     PastGuard, PastKillSwitch, Unguarded, PastDns, runningWithoutGuardIdentity, Waiting, ChecksDns
<1> QED BY <1>1, <1>2, <1>3 DEF IInv

\* A start in the main thread, whichever way it ends.
LEMMA StartStep ==
  ASSUME IInv, start
  PROVE  IInv'
<1>1. ASSUME Fail, Waiting(calling) PROVE IInv'
  BY <1>1, FailStep
<1>2. StartRefused \/ StartGroupUnavailable \/ StartKillSwitchInactive \/ StartBuildFailed \/ StartBusy
        \/ StartCoreUnavailable => Fail /\ Waiting(calling)
  BY DEF StartRefused, StartGroupUnavailable, StartKillSwitchInactive, StartBuildFailed, StartBusy,
     StartCoreUnavailable, PastLocks, PastGuard, PastKillSwitch, PastDns
<1> QED BY <1>1, <1>2, DeferStartForDnsStep, StartWhileArmingStep, StartAfterGuardRestartStep,
   RankBeforeStartStep,
        StartWhileProbingStep, StartRestartsCoreStep, StartOnWorkerStep DEF start

-----------------------------------------------------------------------------
(* What calls start().                                                     *)

\* The user starts a profile: the request gets the next serial.
LEMMA UserStartStep ==
  ASSUME IInv, NEW p \in Profiles, UserStart(p)
  PROVE  IInv'
<1>0. Types /\ Sides /\ Unnumbered /\ \A s \in Serials : Once(s)
  BY DEF IInv, Tracked
<1>x. lastSerial' = lastSerial + 1 /\ lastSerial' \in Serials /\ lastSerial \in Nat /\ calling.serial = 0
  BY <1>0, RequestLemma, BoundsAssumption DEF Types, Serials, UserStart, Loop, Main
<1>r. calling' \in StartRequest /\ calling'.serial = lastSerial'
  BY <1>x, NewLemma DEF UserStart
<1>q. posted' \in Seq(Calls) /\ Keeps
  BY <1>0, SameLemma DEF Types, UserStart, Loop, waits, shown, locks, workers, settings, coreSide, Main, Waiting
<1>1. Types'
  <2>1. calling' \in StartRequest
    BY <1>r
  <2>2. lastSerial' \in 0..MaxRequests
    BY <1>x, BoundsAssumption DEF Serials
  <2>u. UNCHANGED <<dnsSelect, m_killSwitchDeferredStart, m_coreStartRequest, rankReq, rankedFor,
     rankingInFlight, m_guardCoreRestart, m_profileConnecting, m_profileDisconnecting, mu_starting,
     mu_stopping, prepare_exit, core_running, posted, m_running, started_id, m_bootSerial, starter, stopper,
     killSwitch, sup, core, exit, tasks, answers, events>>
    BY DEF UserStart, Loop, waits, shown, locks, workers, settings, coreSide, Main, Waiting
  <2> QED BY <1>0, <1>q, <2>1, <2>2, <2>u DEF Types
<1>2. Sides'
  <2>1. UNCHANGED <<waits, m_guardCoreRestart, locks, workers, m_running, prepare_exit, sup, coreSide>>
    BY DEF UserStart, settings
  <2> QED BY <1>0, <2>1 DEF Sides, Vacant, Owing, Stops, Runs, Waiting, waits, locks, workers, coreSide
<1>3. Tracked'
  <2> SUFFICES ASSUME NEW s \in Serials PROVE Once(s)'
    BY <1>q DEF Keeps, Tracked
  <2>1. (InQueue(s)' <=> InQueue(s)) /\ (QueuedOnce(s) => QueuedOnce(s)') /\ Once(s) /\ s \in Nat \ {0}
    BY <1>0, <1>q DEF Keeps, Serials
  <2>2. UNCHANGED <<dnsSelect, m_killSwitchDeferredStart, m_coreStartRequest, rankReq, starter, answers>>
    BY DEF UserStart, workers, waits
  <2> QED BY <1>x, <1>r, <2>1, <2>2 DEF Once, Nowhere, Somewhere
<1> QED BY <1>1, <1>2, <1>3 DEF IInv

\* The engine starts a profile.
LEMMA InternalStartStep ==
  ASSUME IInv, NEW p \in Profiles, InternalStart(p)
  PROVE  IInv'
<1>0. Types /\ Sides /\ Unnumbered /\ \A s \in Serials : Once(s)
  BY DEF IInv, Tracked
<1>q. posted' \in Seq(Calls) /\ Keeps
  BY <1>0, SameLemma DEF Types, InternalStart, Loop, Event, connectionState, waits, shown, locks, workers,
     settings, coreSide, Main, Waiting
<1>1. Types'
  <2>1. calling' \in StartRequest
    BY <1>0 DEF Types, InternalStart, Loop, Event, connectionState, waits, shown, locks, workers, settings,
       coreSide, Main, Waiting, StartRequest, NoRequest, Request, Profile, Serials
  <2>2. events' \in 0..MaxEvents
    BY <1>0, BoundsAssumption DEF Types, InternalStart, Loop, Event, connectionState, waits, shown, locks,
       workers, settings, coreSide, Main, Waiting
  <2>u. UNCHANGED <<dnsSelect, m_killSwitchDeferredStart, m_coreStartRequest, rankReq, rankedFor,
     rankingInFlight, m_guardCoreRestart, m_profileConnecting, m_profileDisconnecting, mu_starting,
     mu_stopping, prepare_exit, core_running, posted, m_running, started_id, m_bootSerial, starter, stopper,
     killSwitch, sup, core, exit, tasks, answers, lastSerial>>
    BY DEF InternalStart, Loop, Event, connectionState, waits, shown, locks, workers, settings, coreSide,
       Main, Waiting
  <2> QED BY <1>0, <1>q, <2>1, <2>2, <2>u DEF Types
<1>2. Sides'
  BY <1>0, <1>1, ProfilesAssumption DEF Types, Profile, StartRequest, NoRequest, StarterFields,
     StopperFields, CoreFields,
     SupervisorFields, Exit, KillSwitchStates, Sides, Vacant, Owing, Stops, Runs, InternalStart, Loop, Event,
     connectionState, waits, shown, locks, workers, settings, coreSide, Main, Waiting
<1>3. Tracked'
  <2> SUFFICES ASSUME NEW s \in Serials PROVE Once(s)'
    BY <1>q DEF Keeps, Tracked
  <2>1. (InQueue(s)' <=> InQueue(s)) /\ (QueuedOnce(s) => QueuedOnce(s)') /\ Once(s) /\ s \in Nat \ {0}
    BY <1>0, <1>q DEF Keeps, Serials
  <2> QED BY <1>0, <2>1, ProfilesAssumption DEF Types, Once, Nowhere, Somewhere, StartRequest, NoRequest,
     Request, StarterFields, Vacant, Sides, InternalStart, Loop, Event, connectionState, waits, shown, locks,
     workers, settings, coreSide, Main, Waiting
<1> QED BY <1>1, <1>2, <1>3 DEF IInv

\* The DNS selection ends.
LEMMA DnsSelectedStep ==
  ASSUME IInv, NEW f \in BOOLEAN, DnsSelected(f)
  PROVE  IInv'
<1>0. Types /\ Sides /\ Unnumbered /\ \A s \in Serials : Once(s)
  BY DEF IInv, Tracked
<1>q. posted' \in Seq(Calls) /\ Keeps
  BY <1>0, SameLemma DEF Types, DnsSelected, Loop, Waiting, shown, locks, workers, settings, coreSide, Main
<1>1. Types'
  <2>1. calling' \in StartRequest
    BY <1>0 DEF Types, DnsSelected, Loop, Waiting, shown, locks, workers, settings, coreSide, Main,
       StartRequest, NoRequest, Request, Profile, Serials
  <2>2. dnsSelect' \in StartRequest
    BY <1>0 DEF Types, DnsSelected, Loop, Waiting, shown, locks, workers, settings, coreSide, Main,
       StartRequest, NoRequest, Request, Profile, Serials
  <2>3. answers' \in [Serials -> Nat]
    BY <1>0, AnswerLemma DEF Types, DnsSelected, Loop, Waiting, shown, locks, workers, settings, coreSide, Main
  <2>u. UNCHANGED <<m_killSwitchDeferredStart, m_coreStartRequest, rankReq, rankedFor, rankingInFlight,
     m_guardCoreRestart, m_profileConnecting, m_profileDisconnecting, mu_starting, mu_stopping, prepare_exit,
     core_running, posted, m_running, started_id, m_bootSerial, starter, stopper, killSwitch, sup, core,
     exit, tasks, lastSerial, events>>
    BY DEF DnsSelected, Loop, Waiting, shown, locks, workers, settings, coreSide, Main
  <2> QED BY <1>0, <1>q, <2>1, <2>2, <2>3, <2>u DEF Types
<1>2. Sides'
  BY <1>0, <1>1, ProfilesAssumption DEF Types, Profile, StartRequest, NoRequest, StarterFields,
     StopperFields, CoreFields,
     SupervisorFields, Exit, KillSwitchStates, Sides, Vacant, Owing, Stops, Runs, DnsSelected, Loop, Waiting,
     shown, locks, workers, settings, coreSide, Main
<1>3. Tracked'
  <2> SUFFICES ASSUME NEW s \in Serials PROVE Once(s)'
    BY <1>q DEF Keeps, Tracked
  <2>1. (InQueue(s)' <=> InQueue(s)) /\ (QueuedOnce(s) => QueuedOnce(s)') /\ Once(s) /\ s \in Nat \ {0}
    BY <1>0, <1>q DEF Keeps, Serials
  <2>2. dnsSelect'.serial = 0 /\ calling.serial = 0
    BY <1>0, RequestLemma DEF DnsSelected, Loop, Waiting, shown, locks, workers, settings, coreSide, Main,
       NoRequest, Request, Types
  <2>3. CASE f
    <3>1. answers'[s] = answers[s] + (IF dnsSelect.serial = s THEN 1 ELSE 0)
      BY <1>0, <2>3, AnswerLemma DEF DnsSelected, Loop, Waiting, shown, locks, workers, settings, coreSide, Main
    <3> QED BY <1>0, <2>1, <2>2, <2>3, <3>1 DEF Types, Once, Nowhere, Somewhere, DnsSelected, Loop, Waiting,
       shown, locks, workers, settings, coreSide, Main
  <2>4. CASE ~f
    BY <1>0, <2>1, <2>2, <2>4 DEF Types, Once, Nowhere, Somewhere, DnsSelected, Loop, Waiting, shown, locks,
       workers, settings, coreSide, Main
  <2> QED BY <2>3, <2>4
<1> QED BY <1>1, <1>2, <1>3 DEF IInv

\* The sweep ends.
LEMMA RankResumesStep ==
  ASSUME IInv, NEW f \in BOOLEAN, RankResumes(f)
  PROVE  IInv'
<1>0. Types /\ Sides /\ Unnumbered /\ \A s \in Serials : Once(s)
  BY DEF IInv, Tracked
<1>q. posted' \in Seq(Calls) /\ Keeps
  BY <1>0, SameLemma DEF Types, RankResumes, Loop, Waiting, shown, locks, workers, settings, coreSide, Main
<1>1. Types'
  <2>1. calling' \in StartRequest
    BY <1>0 DEF Types, RankResumes, Loop, Waiting, shown, locks, workers, settings, coreSide, Main,
       StartRequest, NoRequest, Request, Profile, Serials
  <2>2. rankReq' \in StartRequest
    BY <1>0 DEF Types, RankResumes, Loop, Waiting, shown, locks, workers, settings, coreSide, Main,
       StartRequest, NoRequest, Request, Profile, Serials
  <2>3. rankedFor' \in BOOLEAN
    BY <1>0 DEF Types, RankResumes, Loop, Waiting, shown, locks, workers, settings, coreSide, Main
  <2>4. rankingInFlight' \in BOOLEAN
    BY <1>0 DEF Types, RankResumes, Loop, Waiting, shown, locks, workers, settings, coreSide, Main
  <2>u. UNCHANGED <<dnsSelect, m_killSwitchDeferredStart, m_coreStartRequest, m_guardCoreRestart,
     m_profileConnecting, m_profileDisconnecting, mu_starting, mu_stopping, prepare_exit, core_running,
     posted, m_running, started_id, m_bootSerial, starter, stopper, killSwitch, sup, core, exit, tasks,
     answers, lastSerial, events>>
    BY DEF RankResumes, Loop, Waiting, shown, locks, workers, settings, coreSide, Main
  <2> QED BY <1>0, <1>q, <2>1, <2>2, <2>3, <2>4, <2>u DEF Types
<1>2. Sides'
  BY <1>0, <1>1, ProfilesAssumption DEF Types, Profile, StartRequest, NoRequest, StarterFields,
     StopperFields, CoreFields,
     SupervisorFields, Exit, KillSwitchStates, Sides, Vacant, Owing, Stops, Runs, RankResumes, Loop, Waiting,
     shown, locks, workers, settings, coreSide, Main
<1>3. Tracked'
  <2> SUFFICES ASSUME NEW s \in Serials PROVE Once(s)'
    BY <1>q DEF Keeps, Tracked
  <2>1. (InQueue(s)' <=> InQueue(s)) /\ (QueuedOnce(s) => QueuedOnce(s)') /\ Once(s) /\ s \in Nat \ {0}
    BY <1>0, <1>q DEF Keeps, Serials
  <2> QED BY <1>0, <2>1, ProfilesAssumption DEF Types, Once, Nowhere, Somewhere, StartRequest, NoRequest,
     Request, StarterFields, Vacant, Sides, RankResumes, Loop, Waiting, shown, locks, workers, settings,
     coreSide, Main
<1> QED BY <1>1, <1>2, <1>3 DEF IInv

\* A sweep that went on in the background ends.
LEMMA RankEndsStep ==
  ASSUME IInv, NEW p \in Profile, RankEnds(p)
  PROVE  IInv'
<1>0. Types /\ Sides /\ Unnumbered /\ \A s \in Serials : Once(s)
  BY DEF IInv, Tracked
<1>q. posted' \in Seq(Calls) /\ Keeps
  BY <1>0, SameLemma DEF Types, RankEnds, Loop, Waiting, Event, connectionState, shown, locks, workers,
     settings, coreSide, Main
<1>1. Types'
  <2>1. calling' \in StartRequest
    BY <1>0 DEF Types, RankEnds, Loop, Waiting, Event, connectionState, shown, locks, workers, settings,
       coreSide, Main, StartRequest, NoRequest, Request, Profile, Serials
  <2>2. rankedFor' \in BOOLEAN
    BY <1>0 DEF Types, RankEnds, Loop, Waiting, Event, connectionState, shown, locks, workers, settings,
       coreSide, Main
  <2>3. rankingInFlight' \in BOOLEAN
    BY <1>0 DEF Types, RankEnds, Loop, Waiting, Event, connectionState, shown, locks, workers, settings,
       coreSide, Main
  <2>4. events' \in 0..MaxEvents
    BY <1>0, BoundsAssumption DEF Types, RankEnds, Loop, Waiting, Event, connectionState, shown, locks,
       workers, settings, coreSide, Main
  <2>u. UNCHANGED <<dnsSelect, m_killSwitchDeferredStart, m_coreStartRequest, rankReq, m_guardCoreRestart,
     m_profileConnecting, m_profileDisconnecting, mu_starting, mu_stopping, prepare_exit, core_running,
     posted, m_running, started_id, m_bootSerial, starter, stopper, killSwitch, sup, core, exit, tasks,
     answers, lastSerial>>
    BY DEF RankEnds, Loop, Waiting, Event, connectionState, shown, locks, workers, settings, coreSide, Main
  <2> QED BY <1>0, <1>q, <2>1, <2>2, <2>3, <2>4, <2>u DEF Types
<1>2. Sides'
  BY <1>0, <1>1, ProfilesAssumption DEF Types, Profile, StartRequest, NoRequest, StarterFields,
     StopperFields, CoreFields,
     SupervisorFields, Exit, KillSwitchStates, Sides, Vacant, Owing, Stops, Runs, RankEnds, Loop, Waiting,
     Event, connectionState, shown, locks, workers, settings, coreSide, Main
<1>3. Tracked'
  <2> SUFFICES ASSUME NEW s \in Serials PROVE Once(s)'
    BY <1>q DEF Keeps, Tracked
  <2>1. (InQueue(s)' <=> InQueue(s)) /\ (QueuedOnce(s) => QueuedOnce(s)') /\ Once(s) /\ s \in Nat \ {0}
    BY <1>0, <1>q DEF Keeps, Serials
  <2> QED BY <1>0, <2>1, ProfilesAssumption DEF Types, Once, Nowhere, Somewhere, StartRequest, NoRequest,
     Request, StarterFields, Vacant, Sides, RankEnds, Loop, Waiting, Event, connectionState, shown, locks,
     workers, settings, coreSide, Main
<1> QED BY <1>1, <1>2, <1>3 DEF IInv

\* The kill switch changes; a core outside the guard is restarted, and the start that waited resumes.
LEMMA KillSwitchChangesStep ==
  ASSUME IInv, NEW k \in KillSwitchStates, killSwitchChanges(k)
  PROVE  IInv'
<1>0. Types /\ Sides /\ Unnumbered /\ \A s \in Serials : Once(s)
  BY DEF IInv, Tracked
<1>x. /\ posted' \in Seq(Calls) /\ Keeps
      /\ answers' \in [Serials -> Nat]
      /\ m_coreStartRequest' \in StartRequest /\ m_guardCoreRestart' \in BOOLEAN
      /\ sup' \in SupervisorFields
      /\ exit' \in Exit /\ exit'.pc = exit.pc
      /\ tasks' \in Seq({"Restart", "StopRestart", "Stopping"}) /\ (tasks' # <<>> \/ tasks' = tasks)
      /\ Owing'
      /\ \A s \in Serials :
          /\ answers'[s] = answers[s] +
                             (IF m_coreStartRequest.serial = s /\ m_coreStartRequest'.serial # s THEN 1 ELSE 0)
          /\ m_coreStartRequest'.serial = s => m_coreStartRequest.serial = s
  <2>0. /\ sup \in SupervisorFields /\ started_id \in Profile /\ sup.m_startWhenUp \in Profile
        /\ m_coreStartRequest \in StartRequest /\ answers \in [Serials -> Nat] /\ 0 \notin Serials
    BY <1>0 DEF Types, SupervisorFields, Serials
  <2> DEFINE guard == k = "Armed" /\ ~m_guardCoreRestart /\ runningWithoutGuardIdentity
             probing == sup.m_probing /\ sup.m_startWhenUp # NoProfile
  <2>1. CASE guard /\ probing
    <3>1. /\ m_coreStartRequest' = IF Waiting(m_coreStartRequest) THEN m_coreStartRequest
                                   ELSE Request(0, sup.m_startWhenUp)
          /\ m_guardCoreRestart' = TRUE
          /\ sup' = [beginRestart EXCEPT !.m_startWhenUp = m_coreStartRequest'.profile]
          /\ PostRestart("StopRestart") /\ UNCHANGED answers
      BY <2>1 DEF killSwitchChanges
    <3>2. Request(0, sup.m_startWhenUp) \in StartRequest /\ Request(0, sup.m_startWhenUp).serial = 0
      BY <2>0, InternalLemma
    <3>3. m_coreStartRequest' \in StartRequest /\ m_coreStartRequest'.serial = m_coreStartRequest.serial
      BY <2>0, <3>1, <3>2, RequestLemma
    <3>4. sup' \in SupervisorFields /\ sup'.m_state = "Starting"
      BY <2>0, <3>1, <3>3, SupLemma, RequestLemma
    <3>5. Owing'
      BY <3>4 DEF Owing
    <3>6. /\ posted' \in Seq(Calls) /\ Keeps
          /\ exit' \in Exit /\ exit'.pc = exit.pc
          /\ tasks' \in Seq({"Restart", "StopRestart", "Stopping"}) /\ tasks' # <<>>
      BY <1>0, <3>1, RestartLemma
    <3> QED BY <2>0, <3>1, <3>3, <3>4, <3>5, <3>6
  <2>2. CASE guard /\ ~probing
    <3>1. restartCoreForGuard(Request(0, started_id))
      BY <2>2 DEF killSwitchChanges
    <3>2. Request(0, started_id) \in StartRequest /\ Request(0, started_id).serial = 0
      BY <2>0, InternalLemma
    <3>3. /\ m_coreStartRequest' = Request(0, started_id) /\ startFinished(superseded) /\ m_guardCoreRestart' = TRUE
          /\ sup' \in SupervisorFields
          /\ sup'.m_state = "Starting" \/ m_guardCoreRestart
          /\ posted' \in Seq(Calls) /\ Keeps
          /\ exit' \in Exit /\ exit'.pc = exit.pc
          /\ tasks' \in Seq({"Restart", "StopRestart", "Stopping"}) /\ (tasks' # <<>> \/ tasks' = tasks)
      BY <1>0, <3>1, <3>2, GuardLemma
    <3>4. Owing'
      BY <2>2, <3>3 DEF Owing
    <3>5. /\ answers' \in [Serials -> Nat]
          /\ \A s \in Serials : answers'[s] = answers[s] + (IF m_coreStartRequest.serial = s THEN 1 ELSE 0)
      BY <1>0, <3>3, SupersededLemma
    <3> QED BY <2>0, <3>2, <3>3, <3>4, <3>5
  <2>3. CASE ~guard
    <3>1. UNCHANGED <<m_coreStartRequest, m_guardCoreRestart, sup, tasks, exit, posted, answers, prepare_exit>>
      BY <2>3 DEF killSwitchChanges, settings
    <3>2. Owing' /\ Keeps
      BY <1>0, <3>1, SameLemma DEF Sides, Owing, Waiting
    <3> QED BY <1>0, <2>0, <3>1, <3>2 DEF Types
  <2> HIDE DEF guard, probing
  <2> QED BY <2>1, <2>2, <2>3
<1>r. /\ calling.serial = 0 /\ NoRequest \in StartRequest /\ NoRequest.serial = 0
      /\ \/ UNCHANGED <<calling, m_killSwitchDeferredStart>>
         \/ calling' = m_killSwitchDeferredStart /\ m_killSwitchDeferredStart' = NoRequest
  BY <1>0, RequestLemma DEF killSwitchChanges, Loop, Main, Types, NoRequest, Request, StartRequest
<1>q. posted' \in Seq(Calls) /\ Keeps
  BY <1>x
<1>1. Types'
  <2>1. calling' \in StartRequest
    BY <1>0, <1>r DEF Types
  <2>2. m_killSwitchDeferredStart' \in StartRequest
    BY <1>0, <1>r DEF Types
  <2>3. m_coreStartRequest' \in StartRequest
    BY <1>x
  <2>4. m_guardCoreRestart' \in BOOLEAN
    BY <1>x
  <2>5. killSwitch' \in KillSwitchStates
    BY DEF killSwitchChanges
  <2>6. sup' \in SupervisorFields
    BY <1>x
  <2>7. exit' \in Exit
    BY <1>x
  <2>8. tasks' \in Seq({"Restart", "StopRestart", "Stopping"})
    BY <1>x
  <2>9. answers' \in [Serials -> Nat]
    BY <1>x
  <2>10. events' \in 0..MaxEvents
    BY <1>0, BoundsAssumption DEF Types, killSwitchChanges, Loop, Event, Waiting,
       runningWithoutGuardIdentity, shown, locks, workers, settings, Main
  <2>u. UNCHANGED <<dnsSelect, rankReq, rankedFor, rankingInFlight, m_profileConnecting,
     m_profileDisconnecting, mu_starting, mu_stopping, prepare_exit, core_running, m_running, started_id,
     m_bootSerial, starter, stopper, core, lastSerial>>
    BY DEF killSwitchChanges, Loop, Event, Waiting, runningWithoutGuardIdentity, shown, locks, workers,
       settings, Main
  <2> QED BY <1>0, <1>q, <2>1, <2>2, <2>3, <2>4, <2>5, <2>6, <2>7, <2>8, <2>9, <2>10, <2>u DEF Types
<1>2. Sides'
  <2>1. UNCHANGED <<rankingInFlight, rankReq, locks, workers, m_running, prepare_exit, core>>
    BY DEF killSwitchChanges, settings
  <2> QED BY <1>0, <1>x, <2>1 DEF Sides, Vacant, Stops, Runs, Waiting, locks, workers
<1>3. Tracked'
  <2> SUFFICES ASSUME NEW s \in Serials PROVE Once(s)'
    BY <1>q DEF Keeps, Tracked
  <2>1. (InQueue(s)' <=> InQueue(s)) /\ (QueuedOnce(s) => QueuedOnce(s)') /\ Once(s) /\ s \in Nat \ {0}
    BY <1>0, <1>q DEF Keeps, Serials
  <2>2. /\ answers'[s] = answers[s] +
                             (IF m_coreStartRequest.serial = s /\ m_coreStartRequest'.serial # s THEN 1 ELSE 0)
        /\ m_coreStartRequest'.serial = s => m_coreStartRequest.serial = s
    BY <1>x
  <2>3. UNCHANGED <<dnsSelect, rankReq, starter, lastSerial>>
    BY DEF killSwitchChanges, workers
  <2> QED BY <1>0, <1>r, <2>1, <2>2, <2>3 DEF Types, Once, Nowhere, Somewhere
<1> QED BY <1>1, <1>2, <1>3 DEF IInv

\* The guard restart window ends.
LEMMA GuardWindowEndsStep ==
  ASSUME IInv, GuardWindowEnds
  PROVE  IInv'
<1>0. Types /\ Sides /\ Unnumbered /\ \A s \in Serials : Once(s)
  BY DEF IInv, Tracked
<1>q. posted' \in Seq(Calls) /\ Keeps
  BY <1>0, SameLemma DEF Types, GuardWindowEnds, Loop, waits, shown, locks, workers, settings, coreSide,
     Main, Waiting
<1>1. Types'
  <2>1. m_guardCoreRestart' \in BOOLEAN
    BY <1>0 DEF Types, GuardWindowEnds, Loop, waits, shown, locks, workers, settings, coreSide, Main, Waiting
  <2>u. UNCHANGED <<calling, dnsSelect, m_killSwitchDeferredStart, m_coreStartRequest, rankReq, rankedFor,
     rankingInFlight, m_profileConnecting, m_profileDisconnecting, mu_starting, mu_stopping, prepare_exit,
     core_running, posted, m_running, started_id, m_bootSerial, starter, stopper, killSwitch, sup, core,
     exit, tasks, answers, lastSerial, events>>
    BY DEF GuardWindowEnds, Loop, waits, shown, locks, workers, settings, coreSide, Main, Waiting
  <2> QED BY <1>0, <1>q, <2>1, <2>u DEF Types
<1>2. Sides'
  BY <1>0, <1>1, ProfilesAssumption DEF Types, Profile, StartRequest, NoRequest, StarterFields,
     StopperFields, CoreFields,
     SupervisorFields, Exit, KillSwitchStates, Sides, Vacant, Owing, Stops, Runs, GuardWindowEnds, Loop,
     waits, shown, locks, workers, settings, coreSide, Main, Waiting
<1>3. Tracked'
  <2> SUFFICES ASSUME NEW s \in Serials PROVE Once(s)'
    BY <1>q DEF Keeps, Tracked
  <2>1. (InQueue(s)' <=> InQueue(s)) /\ (QueuedOnce(s) => QueuedOnce(s)') /\ Once(s) /\ s \in Nat \ {0}
    BY <1>0, <1>q DEF Keeps, Serials
  <2> QED BY <1>0, <2>1, ProfilesAssumption DEF Types, Once, Nowhere, Somewhere, StartRequest, NoRequest,
     Request, StarterFields, Vacant, Sides, GuardWindowEnds, Loop, waits, shown, locks, workers, settings,
     coreSide, Main, Waiting
<1> QED BY <1>1, <1>2, <1>3 DEF IInv

\* A core is up: the start that waited for it resumes, or is refused.
LEMMA OnCoreStartedStep ==
  ASSUME IInv, NEW h \in BOOLEAN, onCoreStarted(h)
  PROVE  IInv'
<1>0. Types /\ Sides /\ Unnumbered /\ \A s \in Serials : Once(s)
  BY DEF IInv, Tracked
<1>c. m_coreStartRequest \in StartRequest /\ sup \in SupervisorFields /\ sup.m_startWhenUp \in Profile
  BY <1>0 DEF Types, SupervisorFields
<1>m. calling.serial = 0 /\ m_coreStartRequest' = NoRequest /\ m_guardCoreRestart' = FALSE /\ ~Waiting(NoRequest)
      /\ NoRequest \in StartRequest /\ NoRequest.serial = 0
  BY <1>0, RequestLemma DEF onCoreStarted, Loop, Main, Types, NoRequest, Request, StartRequest, Waiting
<1>x. /\ answers' \in [Serials -> Nat] /\ calling' \in StartRequest
      /\ \A s \in Serials :
          /\ answers'[s] = answers[s] + (IF m_coreStartRequest.serial = s /\ calling'.serial # s THEN 1 ELSE 0)
          /\ calling'.serial = s => m_coreStartRequest.serial = s
  <2> DEFINE id == sup.m_startWhenUp
             matches == m_coreStartRequest.profile = id
             next == IF matches THEN m_coreStartRequest ELSE Request(0, id)
             refused == h /\ next.serial # 0 /\ next.serial = m_bootSerial
  <2>0. /\ calling' = IF refused THEN NoRequest ELSE next
        /\ startFinished(IF ~matches THEN superseded ELSE IF refused THEN {next} ELSE {})
    BY DEF onCoreStarted
  <2>1. Request(0, id) \in StartRequest /\ Request(0, id).serial = 0
    BY <1>c, InternalLemma
  <2>2. answers \in [Serials -> Nat] /\ 0 \notin Serials
    BY <1>0 DEF Types, Serials
  <2>3. CASE ~matches
    <3>1. startFinished(superseded) /\ calling' = Request(0, id)
      BY <2>0, <2>1, <2>3
    <3>2. /\ answers' \in [Serials -> Nat]
          /\ \A s \in Serials : answers'[s] = answers[s] + (IF m_coreStartRequest.serial = s THEN 1 ELSE 0)
      BY <1>0, <3>1, SupersededLemma
    <3> QED BY <2>1, <2>2, <3>1, <3>2
  <2>4. CASE matches /\ refused
    <3>1. startFinished({m_coreStartRequest}) /\ calling' = NoRequest
      BY <2>0, <2>4
    <3>2. /\ answers' \in [Serials -> Nat]
          /\ \A s \in Serials : answers'[s] = answers[s] + (IF m_coreStartRequest.serial = s THEN 1 ELSE 0)
      BY <1>0, <3>1, AnswerLemma
    <3> QED BY <1>m, <2>2, <3>1, <3>2
  <2>5. CASE matches /\ ~refused
    <3>1. startFinished({}) /\ calling' = m_coreStartRequest
      BY <2>0, <2>5
    <3>2. /\ answers' \in [Serials -> Nat]
          /\ \A s \in Serials : answers'[s] = answers[s] + (IF \E r \in {} : r.serial = s THEN 1 ELSE 0)
      BY <2>2, <3>1, FinishedLemma
    <3> QED BY <1>c, <2>2, <3>1, <3>2
  <2> HIDE DEF matches, refused
  <2> QED BY <2>3, <2>4, <2>5
<1>q. posted' \in Seq(Calls) /\ Keeps
  BY <1>0, SameLemma DEF Types, onCoreStarted, Loop, shown, locks, workers, settings, coreSide, Main, Waiting
<1>1. Types'
  <2>1. calling' \in StartRequest
    BY <1>x
  <2>2. m_coreStartRequest' \in StartRequest
    BY <1>m
  <2>3. m_guardCoreRestart' \in BOOLEAN
    BY <1>0, <1>x DEF Types, onCoreStarted, Loop, shown, locks, workers, settings, coreSide, Main, Waiting
  <2>4. m_bootSerial' \in {0} \cup Serials
    BY DEF onCoreStarted
  <2>5. killSwitch' \in KillSwitchStates
    BY <1>0 DEF Types, KillSwitchStates, onCoreStarted
  <2>6. sup' \in SupervisorFields
    <3>1. NoProfile \in Profile
      BY DEF Profile
    <3>2. sup' = [sup EXCEPT !.m_probing = FALSE, !.m_startWhenUp = NoProfile]
      BY DEF onCoreStarted
    <3> QED BY <1>c, <3>1, <3>2 DEF SupervisorFields
  <2>7. answers' \in [Serials -> Nat]
    BY <1>x
  <2>u. UNCHANGED <<dnsSelect, m_killSwitchDeferredStart, rankReq, rankedFor, rankingInFlight,
     m_profileConnecting, m_profileDisconnecting, mu_starting, mu_stopping, prepare_exit, core_running,
     posted, m_running, started_id, starter, stopper, core, exit, tasks, lastSerial, events>>
    BY DEF onCoreStarted, Loop, shown, locks, workers, settings, coreSide, Main, Waiting
  <2> QED BY <1>0, <1>q, <2>1, <2>2, <2>3, <2>4, <2>5, <2>6, <2>7, <2>u DEF Types
<1>2. Sides'
  <2>1. UNCHANGED <<rankingInFlight, rankReq, locks, workers, m_running, prepare_exit, coreSide>>
    BY DEF onCoreStarted, settings
  <2> QED BY <1>0, <1>m, <2>1 DEF Sides, Vacant, Owing, Stops, Runs, Waiting, locks, workers, coreSide
<1>3. Tracked'
  <2> SUFFICES ASSUME NEW s \in Serials PROVE Once(s)'
    BY <1>q DEF Keeps, Tracked
  <2>1. (InQueue(s)' <=> InQueue(s)) /\ (QueuedOnce(s) => QueuedOnce(s)') /\ Once(s) /\ s \in Nat \ {0}
    BY <1>0, <1>q DEF Keeps, Serials
  <2>2. /\ answers'[s] = answers[s] + (IF m_coreStartRequest.serial = s /\ calling'.serial # s THEN 1 ELSE 0)
        /\ calling'.serial = s => m_coreStartRequest.serial = s
    BY <1>x
  <2>3. UNCHANGED <<dnsSelect, m_killSwitchDeferredStart, rankReq, starter, lastSerial>>
    BY DEF onCoreStarted, workers
  <2> QED BY <1>0, <1>m, <2>1, <2>2, <2>3 DEF Types, Once, Nowhere, Somewhere
<1> QED BY <1>1, <1>2, <1>3 DEF IInv

-----------------------------------------------------------------------------
(* Stops asked on the main thread.                                         *)

\* The user stops the profile.
LEMMA UserStopStep ==
  ASSUME IInv, UserStop
  PROVE  IInv'
<1>0. Types /\ Sides /\ Unnumbered /\ \A s \in Serials : Once(s)
  BY DEF IInv, Tracked
<1>q. posted' \in Seq(Calls) /\ Keeps
  BY <1>0, SameLemma DEF Types, UserStop, Loop, Event, stops, waits, coreSide, Main, Waiting
<1>1. Types'
  <2>1. m_profileDisconnecting' \in BOOLEAN
    BY <1>0 DEF Types, UserStop, Loop, Event, stops, waits, coreSide, Main, Waiting
  <2>2. mu_stopping' \in BOOLEAN
    BY <1>0, StopType DEF UserStop, Loop, Event, stops, waits, coreSide, Main, Waiting
  <2>3. started_id' \in Profile
    BY <1>0 DEF Types, UserStop, Loop, Event, stops, waits, coreSide, Main, Waiting, Profile, StarterFields
  <2>4. stopper' \in StopperFields
    BY <1>0, StopType DEF UserStop, Loop, Event, stops, waits, coreSide, Main, Waiting
  <2>5. sup' \in SupervisorFields
    BY <1>0 DEF Types, UserStop, Loop, Event, stops, waits, coreSide, Main, Waiting, SupervisorFields,
       Profile, StartRequest, NoRequest, Request
  <2>6. events' \in 0..MaxEvents
    BY <1>0, BoundsAssumption DEF Types, UserStop, Loop, Event, stops, waits, coreSide, Main, Waiting
  <2>u. UNCHANGED <<calling, dnsSelect, m_killSwitchDeferredStart, m_coreStartRequest, rankReq, rankedFor,
     rankingInFlight, m_guardCoreRestart, m_profileConnecting, mu_starting, prepare_exit, core_running,
     posted, m_running, m_bootSerial, starter, killSwitch, core, exit, tasks, answers, lastSerial>>
    BY DEF UserStop, Loop, Event, stops, waits, coreSide, Main, Waiting
  <2> QED BY <1>0, <1>q, <2>1, <2>2, <2>3, <2>4, <2>5, <2>6, <2>u DEF Types
<1>2. Sides'
  BY <1>0, <1>1, ProfilesAssumption DEF Types, Profile, StartRequest, NoRequest, StarterFields,
     StopperFields, CoreFields,
     SupervisorFields, Exit, KillSwitchStates, Sides, Vacant, Owing, Stops, Runs, UserStop, Loop, Event,
     stop, stops, waits, coreSide, Main, Waiting
<1>3. Tracked'
  <2> SUFFICES ASSUME NEW s \in Serials PROVE Once(s)'
    BY <1>q DEF Keeps, Tracked
  <2>1. (InQueue(s)' <=> InQueue(s)) /\ (QueuedOnce(s) => QueuedOnce(s)') /\ Once(s) /\ s \in Nat \ {0}
    BY <1>0, <1>q DEF Keeps, Serials
  <2> QED BY <1>0, <2>1, ProfilesAssumption DEF Types, Once, Nowhere, Somewhere, StartRequest, NoRequest,
     Request, StarterFields, Vacant, Sides, UserStop, Loop, Event, stops, waits, coreSide, Main, Waiting
<1> QED BY <1>1, <1>2, <1>3 DEF IInv

\* The program begins to exit.
LEMMA BeginExitStep ==
  ASSUME IInv, BeginExit
  PROVE  IInv'
<1>0. Types /\ Sides /\ Unnumbered /\ \A s \in Serials : Once(s)
  BY DEF IInv, Tracked
<1>q. posted' \in Seq(Calls) /\ Keeps
  BY <1>0, SameLemma DEF Types, BeginExit, Loop, Event, stops, waits, coreSide, Main, Waiting
<1>1. Types'
  <2>1. m_profileDisconnecting' \in BOOLEAN
    BY <1>0 DEF Types, BeginExit, Loop, Event, stops, waits, coreSide, Main, Waiting
  <2>2. mu_stopping' \in BOOLEAN
    BY <1>0, StopType DEF BeginExit, Loop, Event, stops, waits, coreSide, Main, Waiting
  <2>3. prepare_exit' \in BOOLEAN
    BY <1>0 DEF Types, BeginExit, Loop, Event, stops, waits, coreSide, Main, Waiting
  <2>4. stopper' \in StopperFields
    BY <1>0, StopType DEF BeginExit, Loop, Event, stops, waits, coreSide, Main, Waiting
  <2>5. events' \in 0..MaxEvents
    BY <1>0, BoundsAssumption DEF Types, BeginExit, Loop, Event, stops, waits, coreSide, Main, Waiting
  <2>u. UNCHANGED <<calling, dnsSelect, m_killSwitchDeferredStart, m_coreStartRequest, rankReq, rankedFor,
     rankingInFlight, m_guardCoreRestart, m_profileConnecting, mu_starting, core_running, posted, m_running,
     started_id, m_bootSerial, starter, killSwitch, sup, core, exit, tasks, answers, lastSerial>>
    BY DEF BeginExit, Loop, Event, stops, waits, coreSide, Main, Waiting
  <2> QED BY <1>0, <1>q, <2>1, <2>2, <2>3, <2>4, <2>5, <2>u DEF Types
<1>2. Sides'
  BY <1>0, <1>1, ProfilesAssumption DEF Types, Profile, StartRequest, NoRequest, StarterFields,
     StopperFields, CoreFields,
     SupervisorFields, Exit, KillSwitchStates, Sides, Vacant, Owing, Stops, Runs, BeginExit, Loop, Event,
     stop, stops, waits, coreSide, Main, Waiting
<1>3. Tracked'
  <2> SUFFICES ASSUME NEW s \in Serials PROVE Once(s)'
    BY <1>q DEF Keeps, Tracked
  <2>1. (InQueue(s)' <=> InQueue(s)) /\ (QueuedOnce(s) => QueuedOnce(s)') /\ Once(s) /\ s \in Nat \ {0}
    BY <1>0, <1>q DEF Keeps, Serials
  <2> QED BY <1>0, <2>1, ProfilesAssumption DEF Types, Once, Nowhere, Somewhere, StartRequest, NoRequest,
     Request, StarterFields, Vacant, Sides, BeginExit, Loop, Event, stops, waits, coreSide, Main, Waiting
<1> QED BY <1>1, <1>2, <1>3 DEF IInv

\* The core is killed for the exit.
LEMMA EndExitStep ==
  ASSUME IInv, EndExit
  PROVE  IInv'
<1>0. Types /\ Sides /\ Unnumbered /\ \A s \in Serials : Once(s)
  BY DEF IInv, Tracked
<1>q. posted' \in Seq(Calls) /\ Keeps
  BY <1>0, SameLemma DEF Types, EndExit, Loop, NoStopper, NoCore, waits, shown, locks, workers, settings,
     Main, Waiting
<1>1. Types'
  <2>1. core_running' \in BOOLEAN
    BY <1>0 DEF Types, EndExit, Loop, NoStopper, NoCore, waits, shown, locks, workers, settings, Main, Waiting
  <2>2. sup' \in SupervisorFields
    BY <1>0 DEF Types, EndExit, Loop, NoStopper, NoCore, waits, shown, locks, workers, settings, Main,
       Waiting, SupervisorFields, Profile, StartRequest, NoRequest, Request
  <2>3. core' \in CoreFields
    BY <1>0 DEF Types, EndExit, Loop, NoStopper, NoCore, waits, shown, locks, workers, settings, Main,
       Waiting, CoreFields, Profile, StarterFields
  <2>4. tasks' \in Seq({"Restart", "StopRestart", "Stopping"})
    BY <1>0 DEF Types, EndExit, Loop, NoStopper, NoCore, waits, shown, locks, workers, settings, Main, Waiting
  <2>u. UNCHANGED <<calling, dnsSelect, m_killSwitchDeferredStart, m_coreStartRequest, rankReq, rankedFor,
     rankingInFlight, m_guardCoreRestart, m_profileConnecting, m_profileDisconnecting, mu_starting,
     mu_stopping, prepare_exit, posted, m_running, started_id, m_bootSerial, starter, stopper, killSwitch,
     exit, answers, lastSerial, events>>
    BY DEF EndExit, Loop, NoStopper, NoCore, waits, shown, locks, workers, settings, Main, Waiting
  <2> QED BY <1>0, <1>q, <2>1, <2>2, <2>3, <2>4, <2>u DEF Types
<1>2. Sides'
  BY <1>0, <1>1, ProfilesAssumption DEF Types, Profile, StartRequest, NoRequest, StarterFields,
     StopperFields, CoreFields,
     SupervisorFields, Exit, KillSwitchStates, Sides, Vacant, Owing, Stops, Runs, EndExit, Loop, NoStopper,
     NoCore, waits, shown, locks, workers, settings, Main, Waiting
<1>3. Tracked'
  <2> SUFFICES ASSUME NEW s \in Serials PROVE Once(s)'
    BY <1>q DEF Keeps, Tracked
  <2>1. (InQueue(s)' <=> InQueue(s)) /\ (QueuedOnce(s) => QueuedOnce(s)') /\ Once(s) /\ s \in Nat \ {0}
    BY <1>0, <1>q DEF Keeps, Serials
  <2> QED BY <1>0, <2>1, ProfilesAssumption DEF Types, Once, Nowhere, Somewhere, StartRequest, NoRequest,
     Request, StarterFields, Vacant, Sides, EndExit, Loop, NoStopper, NoCore, waits, shown, locks, workers,
     settings, Main, Waiting
<1> QED BY <1>1, <1>2, <1>3 DEF IInv

-----------------------------------------------------------------------------
(* The start worker.                                                       *)

\* The worker stops what runs.
LEMMA WorkerBeginsStep ==
  ASSUME IInv, WorkerBegins
  PROVE  IInv'
<1>0. Types /\ Sides /\ Unnumbered /\ \A s \in Serials : Once(s)
  BY DEF IInv, Tracked
<1>q. posted' \in Seq(Calls) /\ Keeps
  <2>1. Call("Disconnecting", 0) \in Calls /\ Call("Disconnecting", 0).serial = 0
    BY CallLemma
  <2>2. CASE UNCHANGED posted
    BY <1>0, <2>2, SameLemma DEF Types
  <2>3. CASE Post(Call("Disconnecting", 0))
    BY <1>0, <2>1, <2>3, PostLemma DEF Types
  <2> QED BY <2>2, <2>3 DEF WorkerBegins, stops, WorkerUntouched, waits, shown
<1>1. Types'
  <2>1. mu_stopping' \in BOOLEAN
    BY <1>0, StopType DEF WorkerBegins, stops, WorkerUntouched, waits, shown
  <2>2. starter' \in StarterFields
    BY <1>0 DEF Types, WorkerBegins, stops, WorkerUntouched, waits, shown, StarterFields, StartRequest,
       NoRequest, Request, Profile
  <2>3. stopper' \in StopperFields
    BY <1>0, StopType DEF WorkerBegins, stops, WorkerUntouched, waits, shown
  <2>u. UNCHANGED <<calling, dnsSelect, m_killSwitchDeferredStart, m_coreStartRequest, rankReq, rankedFor,
     rankingInFlight, m_guardCoreRestart, m_profileConnecting, m_profileDisconnecting, mu_starting,
     prepare_exit, core_running, m_running, started_id, m_bootSerial, killSwitch, sup, core, exit, tasks,
     answers, lastSerial, events>>
    BY DEF WorkerBegins, stops, WorkerUntouched, waits, shown
  <2> QED BY <1>0, <1>q, <2>1, <2>2, <2>3, <2>u DEF Types
<1>2. Sides'
  BY <1>0, <1>1, ProfilesAssumption DEF Types, Profile, StartRequest, NoRequest, StarterFields,
     StopperFields, CoreFields,
     SupervisorFields, Exit, KillSwitchStates, Sides, Vacant, Owing, Stops, Runs, WorkerBegins, stop, stops,
     WorkerUntouched, waits, shown
<1>3. Tracked'
  <2> SUFFICES ASSUME NEW s \in Serials PROVE Once(s)'
    BY <1>q DEF Keeps, Tracked
  <2>1. (InQueue(s)' <=> InQueue(s)) /\ (QueuedOnce(s) => QueuedOnce(s)') /\ Once(s) /\ s \in Nat \ {0}
    BY <1>0, <1>q DEF Keeps, Serials
  <2> QED BY <1>0, <2>1, ProfilesAssumption DEF Types, Once, Nowhere, Somewhere, StartRequest, NoRequest,
     Request, StarterFields, Vacant, Sides, WorkerBegins, stops, WorkerUntouched, waits, shown
<1> QED BY <1>1, <1>2, <1>3 DEF IInv

\* The worker waits for that stop.
LEMMA WorkerAwaitsStopStep ==
  ASSUME IInv, WorkerAwaitsStop
  PROVE  IInv'
<1>0. Types /\ Sides /\ Unnumbered /\ \A s \in Serials : Once(s)
  BY DEF IInv, Tracked
<1>q. posted' \in Seq(Calls) /\ Keeps
  BY <1>0, SameLemma DEF Types, WorkerAwaitsStop, locks, WorkerUntouched, waits, shown
<1>1. Types'
  <2>1. starter' \in StarterFields
    BY <1>0 DEF Types, WorkerAwaitsStop, locks, WorkerUntouched, waits, shown, StarterFields, StartRequest,
       NoRequest, Request, Profile
  <2>u. UNCHANGED <<calling, dnsSelect, m_killSwitchDeferredStart, m_coreStartRequest, rankReq, rankedFor,
     rankingInFlight, m_guardCoreRestart, m_profileConnecting, m_profileDisconnecting, mu_starting,
     mu_stopping, prepare_exit, core_running, posted, m_running, started_id, m_bootSerial, stopper,
     killSwitch, sup, core, exit, tasks, answers, lastSerial, events>>
    BY DEF WorkerAwaitsStop, locks, WorkerUntouched, waits, shown
  <2> QED BY <1>0, <1>q, <2>1, <2>u DEF Types
<1>2. Sides'
  BY <1>0, <1>1, ProfilesAssumption DEF Types, Profile, StartRequest, NoRequest, StarterFields,
     StopperFields, CoreFields,
     SupervisorFields, Exit, KillSwitchStates, Sides, Vacant, Owing, Stops, Runs, WorkerAwaitsStop, locks,
     WorkerUntouched, waits, shown
<1>3. Tracked'
  <2> SUFFICES ASSUME NEW s \in Serials PROVE Once(s)'
    BY <1>q DEF Keeps, Tracked
  <2>1. (InQueue(s)' <=> InQueue(s)) /\ (QueuedOnce(s) => QueuedOnce(s)') /\ Once(s) /\ s \in Nat \ {0}
    BY <1>0, <1>q DEF Keeps, Serials
  <2> QED BY <1>0, <2>1, ProfilesAssumption DEF Types, Once, Nowhere, Somewhere, StartRequest, NoRequest,
     Request, StarterFields, Vacant, Sides, WorkerAwaitsStop, locks, WorkerUntouched, waits, shown
<1> QED BY <1>1, <1>2, <1>3 DEF IInv

\* The core starts the profile.
LEMMA RpcStartsStep ==
  ASSUME IInv, RpcStarts
  PROVE  IInv'
<1>0. Types /\ Sides /\ Unnumbered /\ \A s \in Serials : Once(s)
  BY DEF IInv, Tracked
<1>q. posted' \in Seq(Calls) /\ Keeps
  BY <1>0, SameLemma DEF Types, RpcStarts, locks, WorkerUntouched, waits, shown
<1>1. Types'
  <2>1. starter' \in StarterFields
    BY <1>0 DEF Types, RpcStarts, locks, WorkerUntouched, waits, shown, StarterFields, StartRequest,
       NoRequest, Request, Profile
  <2>2. core' \in CoreFields
    BY <1>0 DEF Types, RpcStarts, locks, WorkerUntouched, waits, shown, CoreFields, Profile, StarterFields
  <2>u. UNCHANGED <<calling, dnsSelect, m_killSwitchDeferredStart, m_coreStartRequest, rankReq, rankedFor,
     rankingInFlight, m_guardCoreRestart, m_profileConnecting, m_profileDisconnecting, mu_starting,
     mu_stopping, prepare_exit, core_running, posted, m_running, started_id, m_bootSerial, stopper,
     killSwitch, sup, exit, tasks, answers, lastSerial, events>>
    BY DEF RpcStarts, locks, WorkerUntouched, waits, shown
  <2> QED BY <1>0, <1>q, <2>1, <2>2, <2>u DEF Types
<1>2. Sides'
  BY <1>0, <1>1, ProfilesAssumption DEF Types, Profile, StartRequest, NoRequest, StarterFields,
     StopperFields, CoreFields,
     SupervisorFields, Exit, KillSwitchStates, Sides, Vacant, Owing, Stops, Runs, RpcStarts, locks,
     WorkerUntouched, waits, shown
<1>3. Tracked'
  <2> SUFFICES ASSUME NEW s \in Serials PROVE Once(s)'
    BY <1>q DEF Keeps, Tracked
  <2>1. (InQueue(s)' <=> InQueue(s)) /\ (QueuedOnce(s) => QueuedOnce(s)') /\ Once(s) /\ s \in Nat \ {0}
    BY <1>0, <1>q DEF Keeps, Serials
  <2> QED BY <1>0, <2>1, ProfilesAssumption DEF Types, Once, Nowhere, Somewhere, StartRequest, NoRequest,
     Request, StarterFields, Vacant, Sides, RpcStarts, locks, WorkerUntouched, waits, shown
<1> QED BY <1>1, <1>2, <1>3 DEF IInv

\* The start fails, and its outcome is queued.
LEMMA RpcFailsStep ==
  ASSUME IInv, NEW l \in BOOLEAN, RpcFails(l)
  PROVE  IInv'
<1>0. Types /\ Sides /\ Unnumbered /\ \A s \in Serials : Once(s)
  BY DEF IInv, Tracked
<1>q. /\ posted' \in Seq(Calls) /\ Unnumbered'
      /\ \A s \in Serials : /\ InQueue(s)' <=> InQueue(s) \/ s = starter.req.serial
                            /\ s # starter.req.serial /\ QueuedOnce(s) => QueuedOnce(s)'
                            /\ ~InQueue(s) => QueuedOnce(s)'
  <2>1. starter.req.serial \in {0} \cup Serials
    BY <1>0, RequestLemma DEF Types, StarterFields
  <2> QED BY <1>0, <2>1, OutcomeLemma DEF Types, RpcFails, locks, WorkerUntouched, waits, shown
<1>1. Types'
  <2>1. starter' \in StarterFields
    BY <1>0 DEF Types, RpcFails, locks, WorkerUntouched, waits, shown, StarterFields, StartRequest,
       NoRequest, Request, Profile
  <2>2. core' \in CoreFields
    BY <1>0 DEF Types, RpcFails, locks, WorkerUntouched, waits, shown, CoreFields, Profile, StarterFields
  <2>u. UNCHANGED <<calling, dnsSelect, m_killSwitchDeferredStart, m_coreStartRequest, rankReq, rankedFor,
     rankingInFlight, m_guardCoreRestart, m_profileConnecting, m_profileDisconnecting, mu_starting,
     mu_stopping, prepare_exit, core_running, m_running, started_id, m_bootSerial, stopper, killSwitch, sup,
     exit, tasks, answers, lastSerial, events>>
    BY DEF RpcFails, locks, WorkerUntouched, waits, shown
  <2> QED BY <1>0, <1>q, <2>1, <2>2, <2>u DEF Types
<1>2. Sides'
  BY <1>0, <1>1, ProfilesAssumption DEF Types, Profile, StartRequest, NoRequest, StarterFields,
     StopperFields, CoreFields,
     SupervisorFields, Exit, KillSwitchStates, Sides, Vacant, Owing, Stops, Runs, RpcFails, locks,
     WorkerUntouched, waits, shown
<1>3. Tracked'
  <2> SUFFICES ASSUME NEW s \in Serials PROVE Once(s)'
    BY <1>q DEF Tracked
  <2>1. Once(s) /\ s \in Nat \ {0}
    BY <1>0 DEF Serials
  <2>2. /\ InQueue(s)' <=> InQueue(s) \/ s = starter.req.serial
        /\ s # starter.req.serial /\ QueuedOnce(s) => QueuedOnce(s)'
        /\ ~InQueue(s) => QueuedOnce(s)'
    BY <1>q
  <2>3. starter'.req.serial = 0
    BY <1>0 DEF Types, StarterFields, NoRequest, Request, RpcFails, locks, WorkerUntouched, waits, shown
  <2>4. starter.req.serial = s => Nowhere(s)'
    BY <2>1, <2>3 DEF Once, Nowhere, Somewhere, RpcFails, locks, WorkerUntouched, waits, shown
  <2>5. starter.req.serial # s => (Nowhere(s)' <=> Nowhere(s)) /\ (Somewhere(s)' <=> Somewhere(s))
    BY <2>1, <2>3 DEF Nowhere, Somewhere, RpcFails, locks, WorkerUntouched, waits, shown
  <2>6. lastSerial' = lastSerial /\ answers' = answers
    BY DEF RpcFails, locks, WorkerUntouched, waits, shown
  <2>7. CASE starter.req.serial = s
    BY <2>1, <2>2, <2>4, <2>6, <2>7 DEF Once, Nowhere
  <2>8. CASE starter.req.serial # s
    BY <2>1, <2>2, <2>5, <2>6, <2>8 DEF Once
  <2> QED BY <2>7, <2>8
<1> QED BY <1>1, <1>2, <1>3 DEF IInv

\* The start is recorded as started_id.
LEMMA WorkerStartedStep ==
  ASSUME IInv, WorkerStarted
  PROVE  IInv'
<1>0. Types /\ Sides /\ Unnumbered /\ \A s \in Serials : Once(s)
  BY DEF IInv, Tracked
<1>q. posted' \in Seq(Calls) /\ Keeps
  BY <1>0, SameLemma DEF Types, WorkerStarted, locks, WorkerUntouched, waits, shown
<1>1. Types'
  <2>1. started_id' \in Profile
    BY <1>0 DEF Types, WorkerStarted, locks, WorkerUntouched, waits, shown, Profile, StarterFields
  <2>2. starter' \in StarterFields
    BY <1>0 DEF Types, WorkerStarted, locks, WorkerUntouched, waits, shown, StarterFields, StartRequest,
       NoRequest, Request, Profile
  <2>u. UNCHANGED <<calling, dnsSelect, m_killSwitchDeferredStart, m_coreStartRequest, rankReq, rankedFor,
     rankingInFlight, m_guardCoreRestart, m_profileConnecting, m_profileDisconnecting, mu_starting,
     mu_stopping, prepare_exit, core_running, posted, m_running, m_bootSerial, stopper, killSwitch, sup,
     core, exit, tasks, answers, lastSerial, events>>
    BY DEF WorkerStarted, locks, WorkerUntouched, waits, shown
  <2> QED BY <1>0, <1>q, <2>1, <2>2, <2>u DEF Types
<1>2. Sides'
  BY <1>0, <1>1, ProfilesAssumption DEF Types, Profile, StartRequest, NoRequest, StarterFields,
     StopperFields, CoreFields,
     SupervisorFields, Exit, KillSwitchStates, Sides, Vacant, Owing, Stops, Runs, WorkerStarted, locks,
     WorkerUntouched, waits, shown
<1>3. Tracked'
  <2> SUFFICES ASSUME NEW s \in Serials PROVE Once(s)'
    BY <1>q DEF Keeps, Tracked
  <2>1. (InQueue(s)' <=> InQueue(s)) /\ (QueuedOnce(s) => QueuedOnce(s)') /\ Once(s) /\ s \in Nat \ {0}
    BY <1>0, <1>q DEF Keeps, Serials
  <2> QED BY <1>0, <2>1, ProfilesAssumption DEF Types, Once, Nowhere, Somewhere, StartRequest, NoRequest,
     Request, StarterFields, Vacant, Sides, WorkerStarted, locks, WorkerUntouched, waits, shown
<1> QED BY <1>1, <1>2, <1>3 DEF IInv

\* The start is recorded as running, and its outcome is queued.
LEMMA WorkerRecordsStep ==
  ASSUME IInv, WorkerRecords
  PROVE  IInv'
<1>0. Types /\ Sides /\ Unnumbered /\ \A s \in Serials : Once(s)
  BY DEF IInv, Tracked
<1>q. /\ posted' \in Seq(Calls) /\ Unnumbered'
      /\ \A s \in Serials : /\ InQueue(s)' <=> InQueue(s) \/ s = starter.req.serial
                            /\ s # starter.req.serial /\ QueuedOnce(s) => QueuedOnce(s)'
                            /\ ~InQueue(s) => QueuedOnce(s)'
  <2>1. starter.req.serial \in {0} \cup Serials
    BY <1>0, RequestLemma DEF Types, StarterFields
  <2> QED BY <1>0, <2>1, OutcomeLemma DEF Types, WorkerRecords, locks, WorkerUntouched, waits, shown
<1>1. Types'
  <2>1. m_running' \in Profile
    BY <1>0 DEF Types, WorkerRecords, locks, WorkerUntouched, waits, shown, Profile, StarterFields
  <2>2. starter' \in StarterFields
    BY <1>0 DEF Types, WorkerRecords, locks, WorkerUntouched, waits, shown, StarterFields, StartRequest,
       NoRequest, Request, Profile
  <2>u. UNCHANGED <<calling, dnsSelect, m_killSwitchDeferredStart, m_coreStartRequest, rankReq, rankedFor,
     rankingInFlight, m_guardCoreRestart, m_profileConnecting, m_profileDisconnecting, mu_starting,
     mu_stopping, prepare_exit, core_running, started_id, m_bootSerial, stopper, killSwitch, sup, core, exit,
     tasks, answers, lastSerial, events>>
    BY DEF WorkerRecords, locks, WorkerUntouched, waits, shown
  <2> QED BY <1>0, <1>q, <2>1, <2>2, <2>u DEF Types
<1>2. Sides'
  BY <1>0, <1>1, ProfilesAssumption DEF Types, Profile, StartRequest, NoRequest, StarterFields,
     StopperFields, CoreFields,
     SupervisorFields, Exit, KillSwitchStates, Sides, Vacant, Owing, Stops, Runs, WorkerRecords, locks,
     WorkerUntouched, waits, shown
<1>3. Tracked'
  <2> SUFFICES ASSUME NEW s \in Serials PROVE Once(s)'
    BY <1>q DEF Tracked
  <2>1. Once(s) /\ s \in Nat \ {0}
    BY <1>0 DEF Serials
  <2>2. /\ InQueue(s)' <=> InQueue(s) \/ s = starter.req.serial
        /\ s # starter.req.serial /\ QueuedOnce(s) => QueuedOnce(s)'
        /\ ~InQueue(s) => QueuedOnce(s)'
    BY <1>q
  <2>3. starter'.req.serial = 0
    BY <1>0 DEF Types, StarterFields, NoRequest, Request, WorkerRecords, locks, WorkerUntouched, waits, shown
  <2>4. starter.req.serial = s => Nowhere(s)'
    BY <2>1, <2>3 DEF Once, Nowhere, Somewhere, WorkerRecords, locks, WorkerUntouched, waits, shown
  <2>5. starter.req.serial # s => (Nowhere(s)' <=> Nowhere(s)) /\ (Somewhere(s)' <=> Somewhere(s))
    BY <2>1, <2>3 DEF Nowhere, Somewhere, WorkerRecords, locks, WorkerUntouched, waits, shown
  <2>6. lastSerial' = lastSerial /\ answers' = answers
    BY DEF WorkerRecords, locks, WorkerUntouched, waits, shown
  <2>7. CASE starter.req.serial = s
    BY <2>1, <2>2, <2>4, <2>6, <2>7 DEF Once, Nowhere
  <2>8. CASE starter.req.serial # s
    BY <2>1, <2>2, <2>5, <2>6, <2>8 DEF Once
  <2> QED BY <2>7, <2>8
<1> QED BY <1>1, <1>2, <1>3 DEF IInv

\* The worker ends.
LEMMA WorkerEndsStep ==
  ASSUME IInv, WorkerEnds
  PROVE  IInv'
<1>0. Types /\ Sides /\ Unnumbered /\ \A s \in Serials : Once(s)
  BY DEF IInv, Tracked
<1>q. posted' \in Seq(Calls) /\ Keeps
  <2>1. Call("StartDone", 0) \in Calls /\ Call("StartDone", 0).serial = 0
    BY CallLemma
  <2> QED BY <1>0, <2>1, PostLemma DEF Types, WorkerEnds, NoStarter, WorkerUntouched, waits, shown
<1>1. Types'
  <2>1. mu_starting' \in BOOLEAN
    BY <1>0 DEF Types, WorkerEnds, NoStarter, WorkerUntouched, waits, shown
  <2>2. starter' \in StarterFields
    BY <1>0 DEF Types, WorkerEnds, NoStarter, WorkerUntouched, waits, shown, StarterFields, StartRequest,
       NoRequest, Request, Profile
  <2>u. UNCHANGED <<calling, dnsSelect, m_killSwitchDeferredStart, m_coreStartRequest, rankReq, rankedFor,
     rankingInFlight, m_guardCoreRestart, m_profileConnecting, m_profileDisconnecting, mu_stopping,
     prepare_exit, core_running, m_running, started_id, m_bootSerial, stopper, killSwitch, sup, core, exit,
     tasks, answers, lastSerial, events>>
    BY DEF WorkerEnds, NoStarter, WorkerUntouched, waits, shown
  <2> QED BY <1>0, <1>q, <2>1, <2>2, <2>u DEF Types
<1>2. Sides'
  BY <1>0, <1>1, ProfilesAssumption DEF Types, Profile, StartRequest, NoRequest, StarterFields,
     StopperFields, CoreFields,
     SupervisorFields, Exit, KillSwitchStates, Sides, Vacant, Owing, Stops, Runs, WorkerEnds, NoStarter,
     WorkerUntouched, waits, shown
<1>3. Tracked'
  <2> SUFFICES ASSUME NEW s \in Serials PROVE Once(s)'
    BY <1>q DEF Keeps, Tracked
  <2>1. (InQueue(s)' <=> InQueue(s)) /\ (QueuedOnce(s) => QueuedOnce(s)') /\ Once(s) /\ s \in Nat \ {0}
    BY <1>0, <1>q DEF Keeps, Serials
  <2> QED BY <1>0, <2>1, ProfilesAssumption DEF Types, Once, Nowhere, Somewhere, StartRequest, NoRequest,
     Request, StarterFields, Vacant, Sides, WorkerEnds, NoStarter, WorkerUntouched, waits, shown
<1> QED BY <1>1, <1>2, <1>3 DEF IInv

-----------------------------------------------------------------------------
(* The stop worker.                                                        *)

\* The core is asked to stop.
LEMMA StopRpcStep ==
  ASSUME IInv, NEW d \in BOOLEAN, NEW o \in BOOLEAN, StopRpc(d, o)
  PROVE  IInv'
<1>0. Types /\ Sides /\ Unnumbered /\ \A s \in Serials : Once(s)
  BY DEF IInv, Tracked
<1>x. /\ core'.profile = IF d THEN NoProfile ELSE core.profile
      /\ core'.unsure = (core.unsure \/ (~o /\ ~stopper.crash /\ core.state = "up"))
      /\ core'.state = core.state
      /\ stopper'.pc = "clear" /\ stopper'.crash = stopper.crash
  BY <1>0 DEF Types, CoreFields, StopperFields, StopRpc
<1>q. posted' \in Seq(Calls) /\ Keeps
  BY <1>0, SameLemma DEF Types, StopRpc, shown, StopUntouched, waits
<1>1. Types'
  <2>1. stopper' \in StopperFields
    BY <1>0, <1>x DEF Types, StopRpc, shown, StopUntouched, waits, StopperFields
  <2>2. core' \in CoreFields
    BY <1>0, <1>x DEF Types, StopRpc, shown, StopUntouched, waits, CoreFields, Profile, StarterFields
  <2>u. UNCHANGED <<calling, dnsSelect, m_killSwitchDeferredStart, m_coreStartRequest, rankReq, rankedFor,
     rankingInFlight, m_guardCoreRestart, m_profileConnecting, m_profileDisconnecting, mu_starting,
     mu_stopping, prepare_exit, core_running, posted, m_running, started_id, m_bootSerial, starter,
     killSwitch, sup, exit, tasks, answers, lastSerial, events>>
    BY DEF StopRpc, shown, StopUntouched, waits
  <2> QED BY <1>0, <1>q, <2>1, <2>2, <2>u DEF Types
<1>2. Sides'
  <2>1. /\ stopper.pc = "rpc" /\ (o => d) /\ (stopper.crash => ~d)
        /\ UNCHANGED <<mu_stopping, m_running, tasks, starter, mu_starting, rankReq, rankingInFlight,
           prepare_exit>>
        /\ UNCHANGED <<m_guardCoreRestart, m_coreStartRequest, sup, exit>>
    BY DEF StopRpc, shown, StopUntouched, waits
  <2>2. Vacant' /\ Owing'
    BY <1>0, <2>1 DEF Sides, Vacant, Owing, Waiting
  <2>3. Stops'
    BY <1>0, <1>x, <2>1 DEF Sides, Stops
  <2>4. core'.profile # NoProfile => core.profile # NoProfile /\ ~d /\ core.state = "up"
    BY <1>0, <1>x DEF Sides, Runs
  <2>5. ASSUME core'.profile # NoProfile, ~core'.unsure, tasks' = <<>> PROVE starter'.pc \in {"started", "record"}
    <3>1. ~stopper.crash \/ core.profile = NoProfile \/ tasks # <<>>
      BY <1>0, <2>1 DEF Sides, Stops
    <3>2. stopper.crash
      BY <1>x, <2>1, <2>4, <2>5
    <3> QED BY <2>1, <2>4, <2>5, <3>1, <3>2
  <2>6. Runs'
    BY <1>0, <1>x, <2>1, <2>4, <2>5 DEF Sides, Runs
  <2> QED BY <2>2, <2>3, <2>6 DEF Sides
<1>3. Tracked'
  <2> SUFFICES ASSUME NEW s \in Serials PROVE Once(s)'
    BY <1>q DEF Keeps, Tracked
  <2>1. (InQueue(s)' <=> InQueue(s)) /\ (QueuedOnce(s) => QueuedOnce(s)') /\ Once(s) /\ s \in Nat \ {0}
    BY <1>0, <1>q DEF Keeps, Serials
  <2> QED BY <1>0, <1>x, <2>1, ProfilesAssumption DEF Types, Once, Nowhere, Somewhere, StartRequest,
     NoRequest, Request, StarterFields, Vacant, Sides, StopRpc, shown, StopUntouched, waits
<1> QED BY <1>1, <1>2, <1>3 DEF IInv

\* The running profile is cleared.
LEMMA StopClearsStep ==
  ASSUME IInv, StopClears
  PROVE  IInv'
<1>0. Types /\ Sides /\ Unnumbered /\ \A s \in Serials : Once(s)
  BY DEF IInv, Tracked
<1>q. posted' \in Seq(Calls) /\ Keeps
  BY <1>0, SameLemma DEF Types, StopClears, shown, StopUntouched, waits
<1>1. Types'
  <2>1. m_running' \in Profile
    BY <1>0 DEF Types, StopClears, shown, StopUntouched, waits, Profile, StarterFields
  <2>2. started_id' \in Profile
    BY <1>0 DEF Types, StopClears, shown, StopUntouched, waits, Profile, StarterFields
  <2>3. stopper' \in StopperFields
    BY <1>0 DEF Types, StopClears, shown, StopUntouched, waits, StopperFields
  <2>u. UNCHANGED <<calling, dnsSelect, m_killSwitchDeferredStart, m_coreStartRequest, rankReq, rankedFor,
     rankingInFlight, m_guardCoreRestart, m_profileConnecting, m_profileDisconnecting, mu_starting,
     mu_stopping, prepare_exit, core_running, posted, m_bootSerial, starter, killSwitch, sup, core, exit,
     tasks, answers, lastSerial, events>>
    BY DEF StopClears, shown, StopUntouched, waits
  <2> QED BY <1>0, <1>q, <2>1, <2>2, <2>3, <2>u DEF Types
<1>2. Sides'
  BY <1>0, <1>1, ProfilesAssumption DEF Types, Profile, StartRequest, NoRequest, StarterFields,
     StopperFields, CoreFields,
     SupervisorFields, Exit, KillSwitchStates, Sides, Vacant, Owing, Stops, Runs, StopClears, shown,
     StopUntouched, waits
<1>3. Tracked'
  <2> SUFFICES ASSUME NEW s \in Serials PROVE Once(s)'
    BY <1>q DEF Keeps, Tracked
  <2>1. (InQueue(s)' <=> InQueue(s)) /\ (QueuedOnce(s) => QueuedOnce(s)') /\ Once(s) /\ s \in Nat \ {0}
    BY <1>0, <1>q DEF Keeps, Serials
  <2> QED BY <1>0, <2>1, ProfilesAssumption DEF Types, Once, Nowhere, Somewhere, StartRequest, NoRequest,
     Request, StarterFields, Vacant, Sides, StopClears, shown, StopUntouched, waits
<1> QED BY <1>1, <1>2, <1>3 DEF IInv

\* The stop ends.
LEMMA StopFinishesStep ==
  ASSUME IInv, StopFinishes
  PROVE  IInv'
<1>0. Types /\ Sides /\ Unnumbered /\ \A s \in Serials : Once(s)
  BY DEF IInv, Tracked
<1>q. posted' \in Seq(Calls) /\ Keeps
  BY <1>0, SameLemma DEF Types, StopFinishes, Main, NoStopper, StopUntouched, Waiting, waits
<1>1. Types'
  <2>1. m_profileDisconnecting' \in BOOLEAN
    BY <1>0 DEF Types, StopFinishes, Main, NoStopper, StopUntouched, Waiting, waits
  <2>2. mu_stopping' \in BOOLEAN
    BY <1>0 DEF Types, StopFinishes, Main, NoStopper, StopUntouched, Waiting, waits
  <2>3. stopper' \in StopperFields
    BY <1>0 DEF Types, StopFinishes, Main, NoStopper, StopUntouched, Waiting, waits, StopperFields
  <2>u. UNCHANGED <<calling, dnsSelect, m_killSwitchDeferredStart, m_coreStartRequest, rankReq, rankedFor,
     rankingInFlight, m_guardCoreRestart, m_profileConnecting, mu_starting, prepare_exit, core_running,
     posted, m_running, started_id, m_bootSerial, starter, killSwitch, sup, core, exit, tasks, answers,
     lastSerial, events>>
    BY DEF StopFinishes, Main, NoStopper, StopUntouched, Waiting, waits
  <2> QED BY <1>0, <1>q, <2>1, <2>2, <2>3, <2>u DEF Types
<1>2. Sides'
  BY <1>0, <1>1, ProfilesAssumption DEF Types, Profile, StartRequest, NoRequest, StarterFields,
     StopperFields, CoreFields,
     SupervisorFields, Exit, KillSwitchStates, Sides, Vacant, Owing, Stops, Runs, StopFinishes, Main,
     NoStopper, StopUntouched, Waiting, waits
<1>3. Tracked'
  <2> SUFFICES ASSUME NEW s \in Serials PROVE Once(s)'
    BY <1>q DEF Keeps, Tracked
  <2>1. (InQueue(s)' <=> InQueue(s)) /\ (QueuedOnce(s) => QueuedOnce(s)') /\ Once(s) /\ s \in Nat \ {0}
    BY <1>0, <1>q DEF Keeps, Serials
  <2> QED BY <1>0, <2>1, ProfilesAssumption DEF Types, Once, Nowhere, Somewhere, StartRequest, NoRequest,
     Request, StarterFields, Vacant, Sides, StopFinishes, Main, NoStopper, StopUntouched, Waiting, waits
<1> QED BY <1>1, <1>2, <1>3 DEF IInv

-----------------------------------------------------------------------------
(* The core, DS_cores and the supervisor.                                  *)

\* A core connects.
LEMMA CoreConnectsStep ==
  ASSUME IInv, CoreConnects
  PROVE  IInv'
<1>0. Types /\ Sides /\ Unnumbered /\ \A s \in Serials : Once(s)
  BY DEF IInv, Tracked
<1>q. posted' \in Seq(Calls) /\ Keeps
  BY <1>0, SameLemma DEF Types, CoreConnects, Loop, shown, CoreUntouched, Main, Waiting
<1>1. Types'
  <2>1. core_running' \in BOOLEAN
    BY <1>0 DEF Types, CoreConnects, Loop, shown, CoreUntouched, Main, Waiting
  <2>2. sup' \in SupervisorFields
    BY <1>0 DEF Types, CoreConnects, Loop, shown, CoreUntouched, Main, Waiting, SupervisorFields, Profile,
       StartRequest, NoRequest, Request
  <2>3. core' \in CoreFields
    BY <1>0 DEF Types, CoreConnects, Loop, shown, CoreUntouched, Main, Waiting, CoreFields, Profile,
       StarterFields
  <2>u. UNCHANGED <<calling, dnsSelect, m_killSwitchDeferredStart, m_coreStartRequest, rankReq, rankedFor,
     rankingInFlight, m_guardCoreRestart, m_profileConnecting, m_profileDisconnecting, mu_starting,
     mu_stopping, prepare_exit, posted, m_running, started_id, m_bootSerial, starter, stopper, killSwitch,
     exit, tasks, answers, lastSerial, events>>
    BY DEF CoreConnects, Loop, shown, CoreUntouched, Main, Waiting
  <2> QED BY <1>0, <1>q, <2>1, <2>2, <2>3, <2>u DEF Types
<1>2. Sides'
  BY <1>0, <1>1, ProfilesAssumption DEF Types, Profile, StartRequest, NoRequest, StarterFields,
     StopperFields, CoreFields,
     SupervisorFields, Exit, KillSwitchStates, Sides, Vacant, Owing, Stops, Runs, CoreConnects, Loop, shown,
     CoreUntouched, Main, Waiting
<1>3. Tracked'
  <2> SUFFICES ASSUME NEW s \in Serials PROVE Once(s)'
    BY <1>q DEF Keeps, Tracked
  <2>1. (InQueue(s)' <=> InQueue(s)) /\ (QueuedOnce(s) => QueuedOnce(s)') /\ Once(s) /\ s \in Nat \ {0}
    BY <1>0, <1>q DEF Keeps, Serials
  <2> QED BY <1>0, <2>1, ProfilesAssumption DEF Types, Once, Nowhere, Somewhere, StartRequest, NoRequest,
     Request, StarterFields, Vacant, Sides, CoreConnects, Loop, shown, CoreUntouched, Main, Waiting
<1> QED BY <1>1, <1>2, <1>3 DEF IInv

\* The core dies.
LEMMA CoreDiesStep ==
  ASSUME IInv, CoreDies
  PROVE  IInv'
<1>0. Types /\ Sides /\ Unnumbered /\ \A s \in Serials : Once(s)
  BY DEF IInv, Tracked
<1>q. posted' \in Seq(Calls) /\ Keeps
  BY <1>0, SameLemma DEF Types, CoreDies, Event, NoExit, NoCore, shown, CoreUntouched
<1>1. Types'
  <2>1. core_running' \in BOOLEAN
    BY <1>0 DEF Types, CoreDies, Event, NoExit, NoCore, shown, CoreUntouched
  <2>2. core' \in CoreFields
    BY <1>0 DEF Types, CoreDies, Event, NoExit, NoCore, shown, CoreUntouched, CoreFields, Profile, StarterFields
  <2>3. exit' \in Exit
    <3>1. core.accepted \in BOOLEAN /\ (tasks # <<>>) \in BOOLEAN
      BY <1>0 DEF Types, CoreFields
    <3>2. exit' = [pc |-> "cleanup", connected |-> core.accepted, moot |-> tasks # <<>>]
      BY DEF CoreDies
    <3>3. [pc |-> "cleanup", connected |-> core.accepted, moot |-> tasks # <<>>] \in Exit
      BY <3>1 DEF Exit
    <3> QED BY <3>2, <3>3
  <2>4. events' \in 0..MaxEvents
    BY <1>0, BoundsAssumption DEF Types, CoreDies, Event, NoExit, NoCore, shown, CoreUntouched
  <2>u. UNCHANGED <<calling, dnsSelect, m_killSwitchDeferredStart, m_coreStartRequest, rankReq, rankedFor,
     rankingInFlight, m_guardCoreRestart, m_profileConnecting, m_profileDisconnecting, mu_starting,
     mu_stopping, prepare_exit, posted, m_running, started_id, m_bootSerial, starter, stopper, killSwitch,
     sup, tasks, answers, lastSerial>>
    BY DEF CoreDies, Event, NoExit, NoCore, shown, CoreUntouched
  <2> QED BY <1>0, <1>q, <2>1, <2>2, <2>3, <2>4, <2>u DEF Types
<1>2. Sides'
  BY <1>0, <1>1, ProfilesAssumption DEF Types, Profile, StartRequest, NoRequest, StarterFields,
     StopperFields, CoreFields,
     SupervisorFields, Exit, KillSwitchStates, Sides, Vacant, Owing, Stops, Runs, CoreDies, Event, NoExit,
     NoCore, shown, CoreUntouched
<1>3. Tracked'
  <2> SUFFICES ASSUME NEW s \in Serials PROVE Once(s)'
    BY <1>q DEF Keeps, Tracked
  <2>1. (InQueue(s)' <=> InQueue(s)) /\ (QueuedOnce(s) => QueuedOnce(s)') /\ Once(s) /\ s \in Nat \ {0}
    BY <1>0, <1>q DEF Keeps, Serials
  <2> QED BY <1>0, <2>1, ProfilesAssumption DEF Types, Once, Nowhere, Somewhere, StartRequest, NoRequest,
     Request, StarterFields, Vacant, Sides, CoreDies, Event, NoExit, NoCore, shown, CoreUntouched
<1> QED BY <1>1, <1>2, <1>3 DEF IInv

\* The profile of a core that died is stopped.
LEMMA CleansUpStep ==
  ASSUME IInv, CleansUp
  PROVE  IInv'
<1>0. Types /\ Sides /\ Unnumbered /\ \A s \in Serials : Once(s)
  BY DEF IInv, Tracked
<1>q. posted' \in Seq(Calls) /\ Keeps
  <2>1. Call("Disconnecting", 0) \in Calls /\ Call("Disconnecting", 0).serial = 0
    BY CallLemma
  <2>2. CASE UNCHANGED posted
    BY <1>0, <2>2, SameLemma DEF Types
  <2>3. CASE Post(Call("Disconnecting", 0))
    BY <1>0, <2>1, <2>3, PostLemma DEF Types
  <2> QED BY <2>2, <2>3 DEF CleansUp, stops, shown, CoreUntouched
<1>1. Types'
  <2>1. mu_stopping' \in BOOLEAN
    BY <1>0, StopType DEF CleansUp, stops, shown, CoreUntouched
  <2>2. stopper' \in StopperFields
    BY <1>0, StopType DEF CleansUp, stops, shown, CoreUntouched
  <2>3. exit' \in Exit
    BY <1>0 DEF Types, CleansUp, stops, shown, CoreUntouched, Exit
  <2>u. UNCHANGED <<calling, dnsSelect, m_killSwitchDeferredStart, m_coreStartRequest, rankReq, rankedFor,
     rankingInFlight, m_guardCoreRestart, m_profileConnecting, m_profileDisconnecting, mu_starting,
     prepare_exit, core_running, m_running, started_id, m_bootSerial, starter, killSwitch, sup, core, tasks,
     answers, lastSerial, events>>
    BY DEF CleansUp, stops, shown, CoreUntouched
  <2> QED BY <1>0, <1>q, <2>1, <2>2, <2>3, <2>u DEF Types
<1>2. Sides'
  BY <1>0, <1>1, ProfilesAssumption DEF Types, Profile, StartRequest, NoRequest, StarterFields,
     StopperFields, CoreFields,
     SupervisorFields, Exit, KillSwitchStates, Sides, Vacant, Owing, Stops, Runs, CleansUp, stop, stops,
     shown, CoreUntouched
<1>3. Tracked'
  <2> SUFFICES ASSUME NEW s \in Serials PROVE Once(s)'
    BY <1>q DEF Keeps, Tracked
  <2>1. (InQueue(s)' <=> InQueue(s)) /\ (QueuedOnce(s) => QueuedOnce(s)') /\ Once(s) /\ s \in Nat \ {0}
    BY <1>0, <1>q DEF Keeps, Serials
  <2> QED BY <1>0, <2>1, ProfilesAssumption DEF Types, Once, Nowhere, Somewhere, StartRequest, NoRequest,
     Request, StarterFields, Vacant, Sides, CleansUp, stops, shown, CoreUntouched
<1> QED BY <1>1, <1>2, <1>3 DEF IInv

\* The exit of the core is reported, or is moot.
LEMMA ReportsExitStep ==
  ASSUME IInv, ReportsExit
  PROVE  IInv'
<1>0. Types /\ Sides /\ Unnumbered /\ \A s \in Serials : Once(s)
  BY DEF IInv, Tracked
<1>q. posted' \in Seq(Calls) /\ Keeps
  <2>1. Exited(exit.connected) \in Calls /\ Exited(exit.connected).serial = 0
    BY <1>0 DEF Exited, Calls, Types, Exit
  <2>2. CASE UNCHANGED posted
    BY <1>0, <2>2, SameLemma DEF Types
  <2>3. CASE Post(Exited(exit.connected))
    BY <1>0, <2>1, <2>3, PostLemma DEF Types
  <2> QED BY <2>2, <2>3 DEF ReportsExit, NoStopper, NoExit, shown, CoreUntouched
<1>1. Types'
  <2>1. exit' \in Exit
    BY <1>0 DEF Types, ReportsExit, NoStopper, NoExit, shown, CoreUntouched, Exit
  <2>u. UNCHANGED <<calling, dnsSelect, m_killSwitchDeferredStart, m_coreStartRequest, rankReq, rankedFor,
     rankingInFlight, m_guardCoreRestart, m_profileConnecting, m_profileDisconnecting, mu_starting,
     mu_stopping, prepare_exit, core_running, m_running, started_id, m_bootSerial, starter, stopper,
     killSwitch, sup, core, tasks, answers, lastSerial, events>>
    BY DEF ReportsExit, NoStopper, NoExit, shown, CoreUntouched
  <2> QED BY <1>0, <1>q, <2>1, <2>u DEF Types
<1>2. Sides'
  BY <1>0, <1>1, ProfilesAssumption DEF Types, Profile, StartRequest, NoRequest, StarterFields,
     StopperFields, CoreFields,
     SupervisorFields, Exit, KillSwitchStates, Sides, Vacant, Owing, Stops, Runs, ReportsExit, NoStopper,
     NoExit, shown, CoreUntouched
<1>3. Tracked'
  <2> SUFFICES ASSUME NEW s \in Serials PROVE Once(s)'
    BY <1>q DEF Keeps, Tracked
  <2>1. (InQueue(s)' <=> InQueue(s)) /\ (QueuedOnce(s) => QueuedOnce(s)') /\ Once(s) /\ s \in Nat \ {0}
    BY <1>0, <1>q DEF Keeps, Serials
  <2> QED BY <1>0, <2>1, ProfilesAssumption DEF Types, Once, Nowhere, Somewhere, StartRequest, NoRequest,
     Request, StarterFields, Vacant, Sides, ReportsExit, NoStopper, NoExit, shown, CoreUntouched
<1> QED BY <1>1, <1>2, <1>3 DEF IInv

\* DS_cores runs a task.
LEMMA RunTaskStep ==
  ASSUME IInv, RunTask
  PROVE  IInv'
<1>0. Types /\ Sides /\ Unnumbered /\ \A s \in Serials : Once(s)
  BY DEF IInv, Tracked
<1>x. /\ tasks' \in Seq({"Restart", "StopRestart", "Stopping"})
      /\ Head(tasks) = "StopRestart" => tasks' # <<>>
  <2>1. tasks \in Seq({"Restart", "StopRestart", "Stopping"}) /\ tasks # <<>>
    BY <1>0 DEF Types, RunTask, NoStopper, stops, NoCore, shown, CoreUntouched
  <2>2. Tail(tasks) \in Seq({"Restart", "StopRestart", "Stopping"})
    BY <2>1
  <2>3. /\ <<"Stopping">> \o Tail(tasks) \in Seq({"Restart", "StopRestart", "Stopping"}) 
        /\ <<"Stopping">> \o Tail(tasks) # <<>>
    BY <2>2
  <2> QED BY <2>2, <2>3 DEF RunTask, NoStopper, stops, NoCore, shown, CoreUntouched
<1>q. posted' \in Seq(Calls) /\ Keeps
  <2>1. Call("Disconnecting", 0) \in Calls /\ Call("Disconnecting", 0).serial = 0
    BY CallLemma
  <2>2. CASE UNCHANGED posted
    BY <1>0, <2>2, SameLemma DEF Types
  <2>3. CASE Post(Call("Disconnecting", 0))
    BY <1>0, <2>1, <2>3, PostLemma DEF Types
  <2> QED BY <2>2, <2>3 DEF RunTask, NoStopper, stops, NoCore, shown, CoreUntouched
<1>1. Types'
  <2>1. mu_stopping' \in BOOLEAN
    BY <1>0, StopType DEF Types, RunTask, NoStopper, stops, NoCore, shown, CoreUntouched
  <2>2. core_running' \in BOOLEAN
    BY <1>0, <1>x DEF Types, RunTask, NoStopper, stops, NoCore, shown, CoreUntouched
  <2>3. stopper' \in StopperFields
    BY <1>0, StopType DEF Types, RunTask, NoStopper, stops, NoCore, shown, CoreUntouched
  <2>4. core' \in CoreFields
    BY <1>0, <1>x DEF Types, RunTask, NoStopper, stops, NoCore, shown, CoreUntouched, CoreFields, Profile,
       StarterFields
  <2>5. tasks' \in Seq({"Restart", "StopRestart", "Stopping"})
    BY <1>x
  <2>u. UNCHANGED <<calling, dnsSelect, m_killSwitchDeferredStart, m_coreStartRequest, rankReq, rankedFor,
     rankingInFlight, m_guardCoreRestart, m_profileConnecting, m_profileDisconnecting, mu_starting,
     prepare_exit, m_running, started_id, m_bootSerial, starter, killSwitch, sup, exit, answers, lastSerial,
     events>>
    BY DEF RunTask, NoStopper, stops, NoCore, shown, CoreUntouched
  <2> QED BY <1>0, <1>q, <2>1, <2>2, <2>3, <2>4, <2>5, <2>u DEF Types
<1>2. Sides'
  <2>0. /\ tasks # <<>> /\ exit.pc # "cleanup"
        /\ UNCHANGED <<m_running, starter, mu_starting, rankReq, rankingInFlight, prepare_exit>>
        /\ UNCHANGED <<m_guardCoreRestart, m_coreStartRequest, sup, exit>>
    BY DEF RunTask, NoStopper, stops, NoCore, shown, CoreUntouched
  <2>1. Vacant' /\ Owing'
    BY <1>0, <2>0 DEF Sides, Vacant, Owing, Waiting
  <2>2. CASE Head(tasks) = "StopRestart"
    <3>1. tasks' # <<>> /\ UNCHANGED core /\ stop(TRUE, FALSE)
      BY <1>x, <2>2 DEF RunTask, NoStopper, stops, NoCore, shown, CoreUntouched
    <3>2. Stops'
      BY <1>0, <2>0, <3>1 DEF Sides, Stops, stop, stops, Types, StopperFields
    <3>3. Runs'
      BY <1>0, <2>0, <3>1 DEF Sides, Runs, Stops, stop, stops, Types, StopperFields
    <3> QED BY <2>1, <3>2, <3>3 DEF Sides
  <2>3. CASE Head(tasks) # "StopRestart"
    <3>1. core'.profile = NoProfile /\ UNCHANGED <<mu_stopping, stopper>>
      BY <2>3 DEF RunTask, NoStopper, stops, NoCore, shown, CoreUntouched
    <3>2. Stops'
      BY <1>0, <2>0, <3>1 DEF Sides, Stops
    <3>3. Runs'
      BY <1>0, <2>0, <3>1 DEF Sides, Runs
    <3> QED BY <2>1, <3>2, <3>3 DEF Sides
  <2> QED BY <2>2, <2>3
<1>3. Tracked'
  <2> SUFFICES ASSUME NEW s \in Serials PROVE Once(s)'
    BY <1>q DEF Keeps, Tracked
  <2>1. (InQueue(s)' <=> InQueue(s)) /\ (QueuedOnce(s) => QueuedOnce(s)') /\ Once(s) /\ s \in Nat \ {0}
    BY <1>0, <1>q DEF Keeps, Serials
  <2> QED BY <1>0, <1>x, <2>1, ProfilesAssumption DEF Types, Once, Nowhere, Somewhere, StartRequest,
     NoRequest, Request, StarterFields, Vacant, Sides, RunTask, NoStopper, stops, NoCore, shown, CoreUntouched
<1> QED BY <1>1, <1>2, <1>3 DEF IInv

\* The restart timer fires.
LEMMA PostRestartStep ==
  ASSUME IInv, postRestart
  PROVE  IInv'
<1>0. Types /\ Sides /\ Unnumbered /\ \A s \in Serials : Once(s)
  BY DEF IInv, Tracked
<1>x. /\ exit' \in Exit /\ exit'.pc = exit.pc
      /\ tasks' \in Seq({"Restart", "StopRestart", "Stopping"}) /\ tasks' # <<>>
  BY <1>0, RestartLemma DEF postRestart, Loop, shown, CoreUntouched, Main, Waiting
<1>q. posted' \in Seq(Calls) /\ Keeps
  BY <1>0, RestartLemma DEF postRestart, Loop, shown, CoreUntouched, Main, Waiting
<1>1. Types'
  <2>1. sup' \in SupervisorFields
    BY <1>0, <1>x DEF Types, postRestart, Loop, shown, CoreUntouched, Main, Waiting, SupervisorFields,
       Profile, StartRequest, NoRequest, Request
  <2>2. exit' \in Exit
    BY <1>x
  <2>3. tasks' \in Seq({"Restart", "StopRestart", "Stopping"})
    BY <1>x
  <2>u. UNCHANGED <<calling, dnsSelect, m_killSwitchDeferredStart, m_coreStartRequest, rankReq, rankedFor,
     rankingInFlight, m_guardCoreRestart, m_profileConnecting, m_profileDisconnecting, mu_starting,
     mu_stopping, prepare_exit, core_running, m_running, started_id, m_bootSerial, starter, stopper,
     killSwitch, core, answers, lastSerial, events>>
    BY DEF postRestart, Loop, shown, CoreUntouched, Main, Waiting
  <2> QED BY <1>0, <1>q, <2>1, <2>2, <2>3, <2>u DEF Types
<1>2. Sides'
  BY <1>0, <1>1, <1>x, ProfilesAssumption DEF Types, Profile, StartRequest, NoRequest, StarterFields,
     StopperFields, CoreFields,
     SupervisorFields, Exit, KillSwitchStates, Sides, Vacant, Owing, Stops, Runs, postRestart, Loop, shown,
     CoreUntouched, Main, Waiting
<1>3. Tracked'
  <2> SUFFICES ASSUME NEW s \in Serials PROVE Once(s)'
    BY <1>q DEF Keeps, Tracked
  <2>1. (InQueue(s)' <=> InQueue(s)) /\ (QueuedOnce(s) => QueuedOnce(s)') /\ Once(s) /\ s \in Nat \ {0}
    BY <1>0, <1>q DEF Keeps, Serials
  <2> QED BY <1>0, <1>x, <2>1, ProfilesAssumption DEF Types, Once, Nowhere, Somewhere, StartRequest,
     NoRequest, Request, StarterFields, Vacant, Sides, postRestart, Loop, shown, CoreUntouched, Main, Waiting
<1> QED BY <1>1, <1>2, <1>3 DEF IInv

-----------------------------------------------------------------------------
(* The main thread's queue.                                                *)

\* The outcome of a start is emitted.
LEMMA FinishedStep ==
  ASSUME IInv, Finished
  PROVE  IInv'
<1>0. Types /\ Sides /\ Unnumbered /\ \A s \in Serials : Once(s)
  BY DEF IInv, Tracked
<1>q. /\ posted' \in Seq(Calls) /\ Unnumbered'
      /\ \A s \in Serials : /\ s # Head(posted).serial => (InQueue(s)' <=> InQueue(s))
                            /\ QueuedOnce(s) => QueuedOnce(s)'
                            /\ s = Head(posted).serial => InQueue(s) /\ (QueuedOnce(s) => ~InQueue(s)')
  BY <1>0, OutcomeTaken DEF Types, Finished, shown, SupervisorUntouched, QueueUntouched
<1>a. /\ answers' \in [Serials -> Nat]
      /\ \A s \in Serials : answers'[s] = answers[s] + (IF Head(posted).serial = s THEN 1 ELSE 0)
  BY <1>0, AnswerLemma DEF Finished, shown, SupervisorUntouched, QueueUntouched
<1>1. Types'
  <2>u. UNCHANGED <<calling, dnsSelect, m_killSwitchDeferredStart, m_coreStartRequest, rankReq, rankedFor,
     rankingInFlight, m_guardCoreRestart, m_profileConnecting, m_profileDisconnecting, mu_starting,
     mu_stopping, prepare_exit, core_running, m_running, started_id, m_bootSerial, starter, stopper,
     killSwitch, sup, core, exit, tasks, lastSerial, events>>
    BY DEF Finished, shown, SupervisorUntouched, QueueUntouched
  <2> QED BY <1>0, <1>q, <1>a, <2>u DEF Types
<1>2. Sides'
  BY <1>0, <1>1, ProfilesAssumption DEF Types, Profile, StartRequest, NoRequest, StarterFields,
     StopperFields, CoreFields,
     SupervisorFields, Exit, KillSwitchStates, Sides, Vacant, Owing, Stops, Runs, Finished, shown,
     SupervisorUntouched, QueueUntouched
<1>3. Tracked'
  <2> SUFFICES ASSUME NEW s \in Serials PROVE Once(s)'
    BY <1>q DEF Tracked
  <2>1. Once(s) /\ answers'[s] = answers[s] + (IF Head(posted).serial = s THEN 1 ELSE 0)
    BY <1>0, <1>a
  <2>2. /\ s # Head(posted).serial => (InQueue(s)' <=> InQueue(s))
        /\ QueuedOnce(s) => QueuedOnce(s)'
        /\ s = Head(posted).serial => InQueue(s) /\ (QueuedOnce(s) => ~InQueue(s)')
    BY <1>q
  <2>3. (Nowhere(s)' <=> Nowhere(s)) /\ (Somewhere(s)' <=> Somewhere(s)) /\ lastSerial' = lastSerial
    BY DEF Nowhere, Somewhere, Finished, shown, SupervisorUntouched, QueueUntouched
  <2> QED BY <1>0, <2>1, <2>2, <2>3 DEF Types, Once
<1> QED BY <1>1, <1>2, <1>3 DEF IInv

\* The worker's end is heard.
LEMMA StartDoneStep ==
  ASSUME IInv, StartDone
  PROVE  IInv'
<1>0. Types /\ Sides /\ Unnumbered /\ \A s \in Serials : Once(s)
  BY DEF IInv, Tracked
<1>q. posted' \in Seq(Calls) /\ Keeps
  BY <1>0, TakeLemma DEF Types, StartDone, SupervisorUntouched, QueueUntouched
<1>1. Types'
  <2>1. m_profileConnecting' \in BOOLEAN
    BY <1>0 DEF Types, StartDone, SupervisorUntouched, QueueUntouched
  <2>u. UNCHANGED <<calling, dnsSelect, m_killSwitchDeferredStart, m_coreStartRequest, rankReq, rankedFor,
     rankingInFlight, m_guardCoreRestart, m_profileDisconnecting, mu_starting, mu_stopping, prepare_exit,
     core_running, m_running, started_id, m_bootSerial, starter, stopper, killSwitch, sup, core, exit, tasks,
     answers, lastSerial, events>>
    BY DEF StartDone, SupervisorUntouched, QueueUntouched
  <2> QED BY <1>0, <1>q, <2>1, <2>u DEF Types
<1>2. Sides'
  BY <1>0, <1>1, ProfilesAssumption DEF Types, Profile, StartRequest, NoRequest, StarterFields,
     StopperFields, CoreFields,
     SupervisorFields, Exit, KillSwitchStates, Sides, Vacant, Owing, Stops, Runs, StartDone,
     SupervisorUntouched, QueueUntouched
<1>3. Tracked'
  <2> SUFFICES ASSUME NEW s \in Serials PROVE Once(s)'
    BY <1>q DEF Keeps, Tracked
  <2>1. (InQueue(s)' <=> InQueue(s)) /\ (QueuedOnce(s) => QueuedOnce(s)') /\ Once(s) /\ s \in Nat \ {0}
    BY <1>0, <1>q DEF Keeps, Serials
  <2> QED BY <1>0, <2>1, ProfilesAssumption DEF Types, Once, Nowhere, Somewhere, StartRequest, NoRequest,
     Request, StarterFields, Vacant, Sides, StartDone, SupervisorUntouched, QueueUntouched
<1> QED BY <1>1, <1>2, <1>3 DEF IInv

\* A stop is shown.
LEMMA DisconnectingStep ==
  ASSUME IInv, Disconnecting
  PROVE  IInv'
<1>0. Types /\ Sides /\ Unnumbered /\ \A s \in Serials : Once(s)
  BY DEF IInv, Tracked
<1>q. posted' \in Seq(Calls) /\ Keeps
  BY <1>0, TakeLemma DEF Types, Disconnecting, SupervisorUntouched, QueueUntouched
<1>1. Types'
  <2>1. m_profileDisconnecting' \in BOOLEAN
    BY <1>0 DEF Types, Disconnecting, SupervisorUntouched, QueueUntouched
  <2>u. UNCHANGED <<calling, dnsSelect, m_killSwitchDeferredStart, m_coreStartRequest, rankReq, rankedFor,
     rankingInFlight, m_guardCoreRestart, m_profileConnecting, mu_starting, mu_stopping, prepare_exit,
     core_running, m_running, started_id, m_bootSerial, starter, stopper, killSwitch, sup, core, exit, tasks,
     answers, lastSerial, events>>
    BY DEF Disconnecting, SupervisorUntouched, QueueUntouched
  <2> QED BY <1>0, <1>q, <2>1, <2>u DEF Types
<1>2. Sides'
  BY <1>0, <1>1, ProfilesAssumption DEF Types, Profile, StartRequest, NoRequest, StarterFields,
     StopperFields, CoreFields,
     SupervisorFields, Exit, KillSwitchStates, Sides, Vacant, Owing, Stops, Runs, Disconnecting,
     SupervisorUntouched, QueueUntouched
<1>3. Tracked'
  <2> SUFFICES ASSUME NEW s \in Serials PROVE Once(s)'
    BY <1>q DEF Keeps, Tracked
  <2>1. (InQueue(s)' <=> InQueue(s)) /\ (QueuedOnce(s) => QueuedOnce(s)') /\ Once(s) /\ s \in Nat \ {0}
    BY <1>0, <1>q DEF Keeps, Serials
  <2> QED BY <1>0, <2>1, ProfilesAssumption DEF Types, Once, Nowhere, Somewhere, StartRequest, NoRequest,
     Request, StarterFields, Vacant, Sides, Disconnecting, SupervisorUntouched, QueueUntouched
<1> QED BY <1>1, <1>2, <1>3 DEF IInv

\* The exit of a core is handled, perhaps with giving up.
LEMMA CoreExitedStep ==
  ASSUME IInv, NEW g \in BOOLEAN, NEW e \in BOOLEAN, CoreExited(g, e)
  PROVE  IInv'
<1>0. Types /\ Sides /\ Unnumbered /\ \A s \in Serials : Once(s)
  BY DEF IInv, Tracked
<1>x. /\ answers' \in [Serials -> Nat]
      /\ m_coreStartRequest' \in StartRequest /\ m_guardCoreRestart' \in BOOLEAN
      /\ sup' \in SupervisorFields /\ started_id' \in Profile
      /\ Owing'
      /\ \A s \in Serials :
          /\ answers'[s] = answers[s] +
                             (IF m_coreStartRequest.serial = s /\ m_coreStartRequest'.serial # s THEN 1 ELSE 0)
          /\ m_coreStartRequest'.serial = s => m_coreStartRequest.serial = s
  <2>0. sup \in SupervisorFields /\ started_id \in Profile /\ NoProfile \in Profile /\ sup.m_startWhenUp \in Profile
    BY <1>0 DEF Types, Profile, SupervisorFields
  <2>1. CASE prepare_exit
    <3>1. UNCHANGED <<sup, started_id, m_guardCoreRestart, m_coreStartRequest, answers, prepare_exit>>
      BY <2>1 DEF CoreExited, shown, QueueUntouched, SupervisorUntouched
    <3> QED BY <1>0, <2>1, <3>1 DEF Types, Owing
  <2>2. CASE ~prepare_exit
    <3> DEFINE m == IF g THEN "GaveUp" ELSE "Backoff"
    <3>0. onCoreExited(Head(posted).connected, g, e)
      BY <2>2 DEF CoreExited
    <3>1. PICK p \in Profile : sup' = [sup EXCEPT !.m_state = m, !.m_probing = FALSE, !.m_startWhenUp = p]
      BY <2>0, <3>0 DEF onCoreExited
    <3>2. sup' \in SupervisorFields /\ sup'.m_state = m
      BY <2>0, <3>1 DEF SupervisorFields
    <3>3. started_id' \in Profile
      BY <2>0, <3>0 DEF onCoreExited
    <3>4. CASE g
      <4>1. m_guardCoreRestart' = FALSE /\ m_coreStartRequest' = NoRequest /\ startFinished(superseded)
        BY <3>0, <3>4 DEF onCoreExited, deferStartToCore
      <4>2. NoRequest \in StartRequest /\ NoRequest.serial = 0 /\ ~Waiting(NoRequest)
        BY DEF StartRequest, NoRequest, Request, Waiting
      <4>3. /\ answers' \in [Serials -> Nat]
            /\ \A s \in Serials : answers'[s] = answers[s] + (IF m_coreStartRequest.serial = s THEN 1 ELSE 0)
        BY <1>0, <4>1, SupersededLemma
      <4>4. Owing'
        BY <4>1, <4>2 DEF Owing, Waiting
      <4>5. \A s \in Serials : m_coreStartRequest'.serial # s
        BY <4>1, <4>2 DEF Serials
      <4> QED BY <3>2, <3>3, <4>1, <4>2, <4>3, <4>4, <4>5
    <3>5. CASE ~g
      <4>1. UNCHANGED <<m_guardCoreRestart, m_coreStartRequest, answers>>
        BY <3>0, <3>5 DEF onCoreExited
      <4>2. Owing'
        BY <3>2, <3>5 DEF Owing
      <4> QED BY <1>0, <3>2, <3>3, <4>1, <4>2 DEF Types
    <3> QED BY <3>4, <3>5
  <2> QED BY <2>1, <2>2
<1>q. posted' \in Seq(Calls) /\ Keeps
  BY <1>0, TakeLemma DEF Types, CoreExited, shown, QueueUntouched
<1>1. Types'
  <2>1. m_coreStartRequest' \in StartRequest
    BY <1>x
  <2>2. m_guardCoreRestart' \in BOOLEAN
    BY <1>x
  <2>3. started_id' \in Profile
    BY <1>x
  <2>4. sup' \in SupervisorFields
    BY <1>x
  <2>5. answers' \in [Serials -> Nat]
    BY <1>x
  <2>u. UNCHANGED <<calling, dnsSelect, m_killSwitchDeferredStart, rankReq, rankedFor, rankingInFlight,
     m_profileConnecting, m_profileDisconnecting, mu_starting, mu_stopping, prepare_exit, core_running,
     m_running, m_bootSerial, starter, stopper, killSwitch, core, exit, tasks, lastSerial, events>>
    BY DEF CoreExited, shown, QueueUntouched
  <2> QED BY <1>0, <1>q, <2>1, <2>2, <2>3, <2>4, <2>5, <2>u DEF Types
<1>2. Sides'
  BY <1>0, <1>x DEF Sides, Vacant, Stops, Runs, CoreExited, QueueUntouched, shown, Waiting
<1>3. Tracked'
  <2> SUFFICES ASSUME NEW s \in Serials PROVE Once(s)'
    BY <1>q DEF Keeps, Tracked
  <2>1. (InQueue(s)' <=> InQueue(s)) /\ (QueuedOnce(s) => QueuedOnce(s)') /\ Once(s) /\ s \in Nat \ {0}
    BY <1>0, <1>q DEF Keeps, Serials
  <2>2. /\ answers'[s] = answers[s] +
                             (IF m_coreStartRequest.serial = s /\ m_coreStartRequest'.serial # s THEN 1 ELSE 0)
        /\ m_coreStartRequest'.serial = s => m_coreStartRequest.serial = s
    BY <1>x
  <2>3. UNCHANGED <<calling, dnsSelect, m_killSwitchDeferredStart, rankReq, starter, lastSerial>>
    BY DEF CoreExited, QueueUntouched
  <2> QED BY <1>0, <2>1, <2>2, <2>3 DEF Types, Once, Nowhere, Somewhere
<1> QED BY <1>1, <1>2, <1>3 DEF IInv

\* A moot report is dropped.
LEMMA ExitHandledStep ==
  ASSUME IInv, ExitHandled
  PROVE  IInv'
<1>0. Types /\ Sides /\ Unnumbered /\ \A s \in Serials : Once(s)
  BY DEF IInv, Tracked
<1>q. posted' \in Seq(Calls) /\ Keeps
  BY <1>0, TakeLemma DEF Types, ExitHandled, shown, SupervisorUntouched, QueueUntouched
<1>1. Types'
  <2>u. UNCHANGED <<calling, dnsSelect, m_killSwitchDeferredStart, m_coreStartRequest, rankReq, rankedFor,
     rankingInFlight, m_guardCoreRestart, m_profileConnecting, m_profileDisconnecting, mu_starting,
     mu_stopping, prepare_exit, core_running, m_running, started_id, m_bootSerial, starter, stopper,
     killSwitch, sup, core, exit, tasks, answers, lastSerial, events>>
    BY DEF ExitHandled, shown, SupervisorUntouched, QueueUntouched
  <2> QED BY <1>0, <1>q, <2>u DEF Types
<1>2. Sides'
  BY <1>0, <1>1, ProfilesAssumption DEF Types, Profile, StartRequest, NoRequest, StarterFields,
     StopperFields, CoreFields,
     SupervisorFields, Exit, KillSwitchStates, Sides, Vacant, Owing, Stops, Runs, ExitHandled, shown,
     SupervisorUntouched, QueueUntouched
<1>3. Tracked'
  <2> SUFFICES ASSUME NEW s \in Serials PROVE Once(s)'
    BY <1>q DEF Keeps, Tracked
  <2>1. (InQueue(s)' <=> InQueue(s)) /\ (QueuedOnce(s) => QueuedOnce(s)') /\ Once(s) /\ s \in Nat \ {0}
    BY <1>0, <1>q DEF Keeps, Serials
  <2> QED BY <1>0, <2>1, ProfilesAssumption DEF Types, Once, Nowhere, Somewhere, StartRequest, NoRequest,
     Request, StarterFields, Vacant, Sides, ExitHandled, shown, SupervisorUntouched, QueueUntouched
<1> QED BY <1>1, <1>2, <1>3 DEF IInv

-----------------------------------------------------------------------------
(* Every step.                                                             *)

\* Nothing happens.
LEMMA StutterStep ==
  ASSUME IInv, UNCHANGED vars
  PROVE  IInv'
<1>1. /\ UNCHANGED <<calling, rankedFor, posted, dnsSelect, m_killSwitchDeferredStart, m_coreStartRequest>>
      /\ UNCHANGED <<rankingInFlight, rankReq, m_guardCoreRestart, m_bootSerial, m_profileConnecting>>
      /\ UNCHANGED <<m_profileDisconnecting, mu_starting, mu_stopping, starter, stopper, m_running, started_id>>
      /\ UNCHANGED <<prepare_exit, killSwitch, sup, core, core_running, tasks, exit, answers, lastSerial,
         events>>
  BY DEF vars, waits, shown, locks, workers, settings, coreSide
<1>2. Types'
  BY <1>1 DEF IInv, Types
<1>3. Sides'
  BY <1>1 DEF IInv, Sides, Vacant, Owing, Stops, Runs, Waiting
<1>4. Tracked'
  BY <1>1 DEF IInv, Tracked, Unnumbered, Once, Nowhere, Somewhere, InQueue, QueuedOnce
<1> QED BY <1>2, <1>3, <1>4 DEF IInv

\* Every step keeps the inductive invariant.
LEMMA NextStep ==
  ASSUME IInv, [Next]_vars
  PROVE  IInv'
<1>1. CASE start
  BY <1>1, StartStep
<1>2. CASE Posts
  BY <1>2, FinishedStep, StartDoneStep, DisconnectingStep, ExitHandledStep, CoreExitedStep DEF Posts
<1>3. CASE Resumes
  BY <1>3, DnsSelectedStep, RankResumesStep, RankEndsStep, OnCoreStartedStep DEF Resumes
<1>4. CASE StartWorker
  BY <1>4, WorkerBeginsStep, WorkerAwaitsStopStep, RpcStartsStep, WorkerStartedStep, WorkerRecordsStep,
     WorkerEndsStep, RpcFailsStep DEF StartWorker
<1>5. CASE StopWorker
  BY <1>5, StopRpcStep, StopClearsStep, StopFinishesStep DEF StopWorker
<1>6. CASE Cores
  BY <1>6, CoreConnectsStep, CleansUpStep, ReportsExitStep, RunTaskStep, PostRestartStep DEF Cores
<1>7. CASE \E p \in Profiles : UserStart(p) \/ InternalStart(p)
  BY <1>7, UserStartStep, InternalStartStep
<1>8. CASE \E k \in KillSwitchStates : killSwitchChanges(k)
  BY <1>8, KillSwitchChangesStep
<1>9. CASE UserStop \/ GuardWindowEnds \/ CoreDies \/ BeginExit \/ EndExit
  BY <1>9, UserStopStep, GuardWindowEndsStep, CoreDiesStep, BeginExitStep, EndExitStep
<1>10. CASE UNCHANGED vars
  BY <1>10, StutterStep
<1> QED BY <1>1, <1>2, <1>3, <1>4, <1>5, <1>6, <1>7, <1>8, <1>9, <1>10 DEF Next

\* The first state: at most the boot's request is there, and waits for the core.
LEMMA InitLemma ==
  ASSUME Init
  PROVE  IInv
<1>1. PICK p \in Profile, serial \in {0, 1} :
         /\ serial = 1 => p # NoProfile
         /\ m_coreStartRequest = IF serial = 1 THEN Request(1, p) ELSE NoRequest
         /\ m_bootSerial = serial /\ lastSerial = serial
         /\ \/ /\ sup = [m_state |-> "Starting", m_probing |-> FALSE, m_startWhenUp |-> p]
               /\ core = [NoCore EXCEPT !.state = "launching", !.guard_identity = (killSwitch # "Off")]
            \/ /\ serial = 0 /\ p = NoProfile
               /\ sup = [m_state |-> "ListenFailed", m_probing |-> FALSE, m_startWhenUp |-> NoProfile]
               /\ core = NoCore
  BY DEF Init
<1>2. 1 \in Serials /\ 0 \notin Serials /\ MaxRequests \in Nat /\ MaxEvents \in Nat /\ 1 <= MaxRequests
  BY BoundsAssumption DEF Serials
<1>3. NoRequest \in StartRequest /\ NoRequest.serial = 0 /\ ~Waiting(NoRequest)
  BY DEF StartRequest, NoRequest, Request, Waiting
<1>4. m_coreStartRequest \in StartRequest /\ m_coreStartRequest.serial = lastSerial
  <2>1. CASE serial = 1
    BY <1>1, <1>2, <2>1, NewLemma DEF Profile
  <2>2. CASE serial = 0
    BY <1>1, <1>3, <2>2
  <2> QED BY <2>1, <2>2
<1>5. sup \in SupervisorFields
  <2>1. [m_state |-> "Starting", m_probing |-> FALSE, m_startWhenUp |-> p] \in SupervisorFields
    BY DEF SupervisorFields
  <2>2. [m_state |-> "ListenFailed", m_probing |-> FALSE, m_startWhenUp |-> NoProfile] \in SupervisorFields
    BY DEF SupervisorFields, Profile
  <2> QED BY <1>1, <2>1, <2>2
<1>6. core \in CoreFields /\ core.profile = NoProfile
  <2>1. NoCore \in CoreFields /\ NoCore.profile = NoProfile
    BY DEF NoCore, CoreFields, Profile
  <2>2. /\ [NoCore EXCEPT !.state = "launching", !.guard_identity = (killSwitch # "Off")] \in CoreFields
        /\ [NoCore EXCEPT !.state = "launching", !.guard_identity = (killSwitch # "Off")].profile = NoProfile
    BY <2>1 DEF CoreFields
  <2> QED BY <1>1, <2>1, <2>2
<1>7. starter \in StarterFields /\ starter.pc = "none" /\ starter.req = NoRequest
  BY <1>3 DEF Init, NoStarter, StarterFields, Profile
<1>8. stopper \in StopperFields /\ stopper.pc = "none" /\ exit \in Exit /\ exit.pc = "none"
  BY DEF Init, NoStopper, StopperFields, NoExit, Exit
<1>9. posted \in Seq(Calls) /\ tasks \in Seq({"Restart", "StopRestart", "Stopping"}) /\ posted = <<>> /\ tasks = <<>>
  BY DEF Init
<1>10. answers \in [Serials -> Nat] /\ \A s \in Serials : answers[s] = 0
  BY DEF Init
<1>11. lastSerial \in 0..MaxRequests /\ events \in 0..MaxEvents /\ m_bootSerial \in {0} \cup Serials
  BY <1>1, <1>2 DEF Init
<1>12. Types
  BY <1>3, <1>4, <1>5, <1>6, <1>7, <1>8, <1>9, <1>10, <1>11 DEF Init, Types, KillSwitchStates, Profile
<1>13. Vacant
  BY <1>3, <1>7 DEF Init, Vacant
<1>14. Owing
  BY <1>1, <1>3 DEF Init, Owing
<1>15. Stops /\ Runs
  BY <1>6, <1>7, <1>8 DEF Init, Stops, Runs
<1>16. Tracked
  <2>1. DOMAIN posted = {}
    BY <1>9
  <2>2. Unnumbered /\ \A s \in Serials : ~InQueue(s)
    BY <2>1 DEF Unnumbered, InQueue
  <2>3. ASSUME NEW s \in Serials PROVE Once(s)
    <3>1. s \in Nat \ {0} /\ ~InQueue(s) /\ answers[s] = 0 /\ lastSerial \in {0, 1}
      BY <1>1, <1>10, <2>2 DEF Serials
    <3>2. /\ calling.serial = 0 /\ dnsSelect.serial = 0 /\ m_killSwitchDeferredStart.serial = 0 /\ rankReq.serial = 0
          /\ starter.req.serial = 0
      BY <1>3, <1>7 DEF Init
    <3> QED BY <1>4, <3>1, <3>2 DEF Once, Nowhere, Somewhere
  <2> QED BY <2>2, <2>3 DEF Tracked
<1> QED BY <1>12, <1>13, <1>14, <1>15, <1>16 DEF IInv, Sides

-----------------------------------------------------------------------------
(* The theorems.                                                           *)

\* The inductive invariant holds of every behaviour of the class and what it talks to.
THEOREM Invariance == Spec => []IInv
<1>1. Init => IInv
  BY InitLemma
<1>2. IInv /\ [Next]_vars => IInv'
  BY NextStep
<1> QED BY <1>1, <1>2, PTL DEF Spec

\* Every field of the class, and what it sees of the others, keeps its type.
THEOREM TypeCorrect == Spec => []TypeOK
<1>1. IInv => TypeOK
  BY DEF IInv, Types, TypeOK
<1> QED BY <1>1, Invariance, PTL

\* A start that waits for the core waits for a core that is probed, spawned or to be restarted:
\* nothing that takes the supervisor out of those states leaves the request behind (deferStartToCore).
THEOREM CoreOwes == Spec => []CoreOwesAnswer
<1>1. IInv => CoreOwesAnswer
  BY DEF IInv, Sides, Owing, CoreOwesAnswer
<1> QED BY <1>1, Invariance, PTL

\* The Start RPC reaches a core that runs nothing, unless an earlier RPC to it failed or its
\* restart is queued: the worker has waited for the stop of what ran, whoever asked for it.
THEOREM CleanStart == Spec => []StartsOnCleanCore
<1>1. IInv => StartsOnCleanCore
  <2> SUFFICES ASSUME IInv, starter.pc = "rpc", core.profile # NoProfile, ~core.unsure, tasks = <<>>
               PROVE  FALSE
    BY DEF StartsOnCleanCore
  <2>1. m_running = NoProfile
    BY DEF IInv, Sides, Runs
  <2> QED BY <2>1 DEF IInv, Sides, Runs
<1> QED BY <1>1, Invariance, PTL

\* The places of a request, counted.
LEMMA PlacesLemma ==
  ASSUME NEW s
  PROVE  /\ Nowhere(s) => Cardinality(Places(s)) = 0
         /\ Somewhere(s) => Cardinality(Places(s)) = 1
<1> DEFINE place == <<calling, dnsSelect, m_killSwitchDeferredStart, m_coreStartRequest, rankReq, starter.req>>
<1>1. /\ place[1] = calling /\ place[2] = dnsSelect /\ place[3] = m_killSwitchDeferredStart
      /\ place[4] = m_coreStartRequest /\ place[5] = rankReq /\ place[6] = starter.req
  OBVIOUS
<1>2. Places(s) = {n \in 1..6 : place[n].serial = s}
  BY DEF Places
<1> HIDE DEF place
<1>3. 1..6 = {1, 2, 3, 4, 5, 6}
  OBVIOUS
<1>4. ASSUME Nowhere(s) PROVE Cardinality(Places(s)) = 0
  <2>1. Places(s) = {}
    BY <1>1, <1>2, <1>3, <1>4 DEF Nowhere
  <2> QED BY <2>1, FS_EmptySet
<1>5. ASSUME Somewhere(s) PROVE Cardinality(Places(s)) = 1
  <2>1. PICK n \in 1..6 : Places(s) = {n}
    <3>1. \/ Places(s) = {1} \/ Places(s) = {2} \/ Places(s) = {3} \/ Places(s) = {4} \/ Places(s) = {5}
          \/ Places(s) = {6}
      BY <1>1, <1>2, <1>3, <1>5 DEF Somewhere
    <3> QED BY <3>1
  <2> QED BY <2>1, FS_Singleton
<1> QED BY <1>4, <1>5

\* The outcomes of a request in the queue, counted.
LEMMA OutcomesLemma ==
  ASSUME NEW s
  PROVE  /\ ~InQueue(s) => Cardinality(Outcomes(s)) = 0
         /\ InQueue(s) /\ QueuedOnce(s) => Cardinality(Outcomes(s)) = 1
<1>1. ASSUME ~InQueue(s) PROVE Cardinality(Outcomes(s)) = 0
  <2>1. Outcomes(s) = {}
    BY <1>1 DEF InQueue, Outcomes
  <2> QED BY <2>1, FS_EmptySet
<1>2. ASSUME InQueue(s), QueuedOnce(s) PROVE Cardinality(Outcomes(s)) = 1
  <2>1. PICK n \in DOMAIN posted : posted[n].serial = s
    BY <1>2 DEF InQueue
  <2>2. Outcomes(s) = {n}
    BY <1>2, <2>1 DEF QueuedOnce, Outcomes
  <2> QED BY <2>2, FS_Singleton
<1> QED BY <1>1, <1>2

\* startFinished is emitted at most once for a request, and until it is the request, or its
\* outcome, is in exactly one place: none is dropped, none is answered twice.
THEOREM AnsweredOnce == Spec => []OnceEach
<1>1. IInv => OnceEach
  <2> SUFFICES ASSUME IInv, NEW s \in 1..lastSerial
               PROVE  Cardinality(Places(s)) + Cardinality(Outcomes(s)) + answers[s] = 1
    BY DEF OnceEach
  <2>1. s \in Serials /\ ~(s > lastSerial)
    BY BoundsAssumption DEF IInv, Types, Serials
  <2>2. Once(s)
    BY <2>1 DEF IInv, Tracked
  <2>3. CASE Somewhere(s) /\ ~InQueue(s) /\ answers[s] = 0
    BY <2>3, PlacesLemma, OutcomesLemma
  <2>4. CASE Nowhere(s) /\ InQueue(s) /\ QueuedOnce(s) /\ answers[s] = 0
    BY <2>4, PlacesLemma, OutcomesLemma
  <2>5. CASE Nowhere(s) /\ ~InQueue(s) /\ answers[s] = 1
    BY <2>5, PlacesLemma, OutcomesLemma
  <2> QED BY <2>1, <2>2, <2>3, <2>4, <2>5 DEF Once
<1> QED BY <1>1, Invariance, PTL

=============================================================================
