--------------------------- MODULE CoreLifecycle ---------------------------
(***************************************************************************)
(* The life of a profile inside the core (core/internal/rpc/lifecycle.go): *)
(* Start and Stop calls, each in a goroutine of its own and serialised by  *)
(* lifecycleMu; what they start and the package variables that name it;    *)
(* Teardown on a signal; the exit when the GUI's connection drops.  The    *)
(* caller is ConnectionManager, which gives up on a call after a timeout.  *)
(***************************************************************************)
EXTENDS Integers, FiniteSets

CONSTANTS
    MaxCalls,    \* bound: the Start and Stop calls the GUI sends
    Requests     \* what the profiles ask for

ASSUME MaxCallsAssumption == MaxCalls \in Nat \ {0}
\* An extra process, an Xray sidecar, opaque Xray configs, a Tun, and with it the relay switched off.
ASSUME RequestsAssumption ==
    Requests \subseteq [extra : BOOLEAN, xray : {"off", "eager", "lazy"}, full : BOOLEAN, tun : BOOLEAN, relay : BOOLEAN]

VARIABLES
    goos,        \* the platform, chosen once
    gui,         \* ConnectionManager: "idle", "starting", "running" or "stopping"
    awaited,     \* the call it waits for, 0 for none
    sent,        \* calls sent so far; a call is named by its number
    waiting,     \* calls whose goroutine waits for lifecycleMu
    cur,         \* the call that holds lifecycleMu
    pc,          \* where that call is
    req,         \* what a Start was asked for
    slot,        \* the package variables: which Start's resource each one names, 0 for nil
    up,          \* what really runs: <<kind, the Start that started it>>
    doomed,      \* what the handler took out of the slots and has yet to close
    mark,        \* autoRedirectMark
    pins,        \* dnspins holds a table
    dns,         \* sysdns: "off", "prepared", "applied", or "left": a Release could not put a service back
    core,        \* "up", "draining" (in shutdown), "drained" (Teardown is done) or "exited"
    ipc,         \* the connection to the GUI: "open", "dropped" or "released"
    exit,        \* how the core ended
    refused      \* history: a Start found an instance already started

caller == <<gui, awaited, sent>>
call == <<waiting, cur, pc, req>>
profile == <<slot, up, doomed, mark, pins, dns>>
process == <<core, ipc, exit>>
vars == <<goos, caller, call, profile, process, refused>>

XrayKinds == {"xray", "gate", "full"}
Kinds == XrayKinds \cup {"box", "extra", "watch", "relay"}
Ids == 1..MaxCalls

Ops == {"Start", "Stop", "Teardown"}
NoCall == [id |-> 0, op |-> "none"]
Teardown == [id |-> 0, op |-> "Teardown"]
Calls == [id : Ids, op : {"Start", "Stop"}] \cup {Teardown}

NoRequest == [extra |-> FALSE, xray |-> "off", full |-> FALSE, tun |-> FALSE, relay |-> FALSE]

TypeOK ==
    /\ goos \in {"darwin", "linux", "windows"}
    /\ gui \in {"idle", "starting", "running", "stopping"} /\ awaited \in 0..MaxCalls /\ sent \in 0..MaxCalls
    /\ waiting \subseteq Calls /\ cur \in Calls \cup {NoCall}
    /\ pc \in {"free", "start", "xray", "full", "dns", "box", "apply", "relay", "applyFailed", "watch",
               "stop", "closeBox", "stopExtra", "unslot", "close", "hung"}
    /\ req \in Requests \cup {NoRequest}
    /\ slot \in [Kinds -> 0..MaxCalls]
    /\ up \subseteq Kinds \X Ids /\ doomed \subseteq Kinds \X Ids
    /\ mark \in BOOLEAN /\ pins \in BOOLEAN /\ dns \in {"off", "prepared", "applied", "left"}
    /\ core \in {"up", "draining", "drained", "exited"} /\ ipc \in {"open", "dropped", "released"}
    /\ exit \in {"none", "teardown", "timeout", "dropped", "killed"}
    /\ refused \in BOOLEAN

Init ==
    /\ goos \in {"darwin", "linux", "windows"}
    /\ gui = "idle" /\ awaited = 0 /\ sent = 0
    /\ waiting = {} /\ cur = NoCall /\ pc = "free" /\ req = NoRequest
    /\ slot = [k \in Kinds |-> 0] /\ up = {} /\ doomed = {}
    /\ mark = FALSE /\ pins = FALSE /\ dns = "off"
    /\ core = "up" /\ ipc = "open" /\ exit = "none" /\ refused = FALSE

-----------------------------------------------------------------------------
(* ConnectionManager.  A start with a profile running stops it first.      *)

Send(op, state) ==
    /\ core = "up" /\ ipc = "open" /\ sent < MaxCalls
    /\ sent' = sent + 1 /\ awaited' = sent' /\ gui' = state
    /\ waiting' = waiting \cup {[id |-> sent', op |-> op]}
    /\ UNCHANGED <<goos, cur, pc, req, profile, process, refused>>

SendStart == gui = "idle" /\ Send("Start", "starting")

SendStop == gui = "running" /\ Send("Stop", "stopping")

\* LocalSocketChannel::Call gives up.  A Start is then reported as CoreUnavailable and nothing is
\* running; a Stop ends with nothing running whether or not the core answered.
CallTimesOut ==
    /\ awaited # 0
    /\ awaited' = 0 /\ gui' = "idle"
    /\ UNCHANGED <<goos, sent, call, profile, process, refused>>

\* The handler's answer reaches a caller that still waits for it.
Answer(ok) ==
    IF cur.op # "Teardown" /\ awaited = cur.id
    THEN awaited' = 0 /\ gui' = (IF cur.op = "Start" /\ ok THEN "running" ELSE "idle") /\ UNCHANGED sent
    ELSE UNCHANGED caller

-----------------------------------------------------------------------------
(* The lock, and what every handler does with it.                          *)

running == core # "exited"
At(step) == running /\ pc = step
Goto(step) == pc' = step /\ UNCHANGED <<goos, caller, waiting, cur, req, process, refused>>

\* Both handlers unlock in a defer.
Return(ok) ==
    /\ pc' = "free" /\ cur' = NoCall /\ req' = NoRequest
    /\ Answer(ok)
    /\ core' = IF cur.op = "Teardown" THEN "drained" ELSE core
    /\ UNCHANGED <<ipc, exit>>
    /\ UNCHANGED <<goos, waiting>>

\* Start's deferred function, when err is set.
StartFails ==
    /\ slot' = [slot EXCEPT !["box"] = 0] /\ mark' = FALSE
    /\ Return(FALSE)

Launch(k) == slot' = [slot EXCEPT ![k] = cur.id] /\ up' = up \cup {<<k, cur.id>>}

Stopped(k) == up \ {<<k, slot[k]>>}

-----------------------------------------------------------------------------
(* Start.                                                                  *)

lockStart(c, r) ==
    /\ At("free") /\ c \in waiting /\ c.op = "Start"
    /\ waiting' = waiting \ {c} /\ cur' = c /\ req' = r /\ pc' = "start"
    /\ UNCHANGED <<goos, caller, profile, process, refused>>

\* Mutation: the early return keeps the lock.
MutKeepsLock ==
    /\ At("start") /\ slot["box"] # 0 /\ awaited = cur.id
    /\ Answer(FALSE) /\ refused' = TRUE
    /\ UNCHANGED <<goos, call, profile, process>>

\* "instance already started" is an error like any other.
alreadyStarted ==
    /\ At("start") /\ slot["box"] # 0
    /\ StartFails /\ refused' = TRUE
    /\ UNCHANGED <<up, doomed, pins, dns>>

\* The arguments or the config file are refused before extraProcess is assigned, or Start() fails after it.
extraFails(assigned) ==
    /\ At("start") /\ slot["box"] = 0 /\ req.extra
    /\ slot' = [slot EXCEPT !["box"] = 0, !["extra"] = IF assigned THEN cur.id ELSE @] /\ mark' = FALSE
    /\ Return(FALSE)
    /\ UNCHANGED <<up, doomed, pins, dns, refused>>

\* The extra process, and autoRedirectMark from the config.
startExtra(m) ==
    /\ At("start") /\ slot["box"] = 0
    /\ m => goos = "linux" /\ req.tun
    /\ mark' = m
    /\ IF req.extra THEN Launch("extra") ELSE UNCHANGED <<slot, up>>
    /\ Goto("xray") /\ UNCHANGED <<doomed, pins, dns>>

xrayKind == IF req.xray = "lazy" THEN "gate" ELSE "xray"

startXray ==
    /\ At("xray")
    /\ IF req.xray = "off" THEN UNCHANGED <<slot, up>>
       ELSE /\ up' = up \cup {<<xrayKind, cur.id>>}
            /\ slot' = [slot EXCEPT !["xray"] = 0, !["gate"] = 0, ![xrayKind] = cur.id]
    /\ Goto("full") /\ UNCHANGED <<doomed, mark, pins, dns>>

\* The instance or the gate has closed itself; nothing else is undone.
xrayFails ==
    /\ At("xray") /\ req.xray # "off"
    /\ StartFails
    /\ UNCHANGED <<up, doomed, pins, dns, refused>>

startXrayFullGates ==
    /\ At("full")
    /\ IF req.full THEN Launch("full") ELSE UNCHANGED <<slot, up>>
    /\ Goto("dns") /\ UNCHANGED <<doomed, mark, pins, dns>>

\* unwind() has closed the gates that opened.
fullGatesFail ==
    /\ At("full") /\ req.full
    /\ Goto("unslot") /\ UNCHANGED profile

\* A system DNS is set up on macOS only; the mark is Linux's, the forwarding watch is Windows'.
systemDNS == goos = "darwin" /\ req.tun

\* A service of the system's network may be pointed at the core.
Pointed == dns \in {"applied", "left"}

\* sysdns.Release.  A service it cannot put back is logged, stays pointed and stays on this process's record;
\* the caller goes on.
Release(ok) ==
    /\ ok \/ Pointed
    /\ dns' = IF ok THEN "off" ELSE "left"

\* dnspins.Set, then Prepare, which leaves alone what is already on its record.
prepareDns ==
    /\ At("dns")
    /\ pins' = TRUE /\ dns' = IF systemDNS /\ ~Pointed THEN "prepared" ELSE dns
    /\ Goto("box") /\ UNCHANGED <<slot, up, doomed, mark>>

\* Mutation: the failure returns without stopSidecars.
MutPrepareLeaves(ok) ==
    /\ At("dns") /\ systemDNS /\ ok
    /\ pins' = TRUE
    /\ StartFails
    /\ UNCHANGED <<up, doomed, dns, refused>>

\* stopSidecars: Release, the extra process, then closeXray.
prepareFails(ok) ==
    /\ At("dns") /\ systemDNS
    /\ pins' = TRUE /\ Release(ok)
    /\ up' = Stopped("extra") /\ slot' = [slot EXCEPT !["extra"] = 0]
    /\ Goto("unslot") /\ UNCHANGED <<doomed, mark>>

createBox ==
    /\ At("box")
    /\ Launch("box")
    /\ Goto(IF systemDNS THEN "apply" ELSE "watch") /\ UNCHANGED <<doomed, mark, pins, dns>>

createFails(ok) ==
    /\ At("box")
    /\ Release(ok)
    /\ up' = Stopped("extra") /\ slot' = [slot EXCEPT !["extra"] = 0]
    /\ Goto("unslot") /\ UNCHANGED <<doomed, mark, pins>>

\* "not prepared": the main goroutine has released what Prepare did.
applyDns ==
    /\ At("apply") /\ dns # "off"
    /\ dns' = "applied"
    /\ Goto(IF req.relay THEN "relay" ELSE "watch") /\ UNCHANGED <<slot, up, doomed, mark, pins>>

\* Release and CloseWithTimeout, the box still published.  Apply has recorded the service before it failed.
applyFails(ok) ==
    /\ At("apply")
    /\ ok \/ dns # "off"
    /\ dns' = IF ok THEN "off" ELSE "left"
    /\ up' = Stopped("box")
    /\ Goto("applyFailed") /\ UNCHANGED <<slot, doomed, mark, pins>>

stopSidecars(ok) ==
    /\ At("applyFailed")
    /\ Release(ok)
    /\ up' = Stopped("extra") /\ slot' = [slot EXCEPT !["extra"] = 0]
    /\ Goto("unslot") /\ UNCHANGED <<doomed, mark, pins>>

\* sysrelay.Disable writes its marker, then the switch; a switch that is off already is left alone, and
\* an error is only logged.
disableRelay(ok) ==
    /\ At("relay")
    /\ IF ok /\ slot["relay"] = 0 THEN Launch("relay") ELSE UNCHANGED <<slot, up>>
    /\ Goto("watch") /\ UNCHANGED <<doomed, mark, pins, dns>>

\* Disable dereferences a default interface there may not be: Serve recovers, err is not set.
disablePanics ==
    /\ At("relay")
    /\ Return(FALSE)
    /\ UNCHANGED <<profile, refused>>

startDone ==
    /\ At("watch")
    /\ IF req.tun /\ goos = "windows" THEN Launch("watch") ELSE UNCHANGED <<slot, up>>
    /\ Return(TRUE)
    /\ UNCHANGED <<doomed, mark, pins, dns, refused>>

-----------------------------------------------------------------------------
(* Stop, and the tail it shares with a Start that fails.                   *)

lockStop(c) ==
    /\ At("free") /\ c \in waiting /\ c.op # "Start"
    /\ waiting' = waiting \ {c} /\ cur' = c /\ pc' = "stop"
    /\ UNCHANGED <<goos, caller, req, profile, process, refused>>

nothingToStop ==
    /\ At("stop") /\ slot["box"] = 0
    /\ Return(TRUE)
    /\ UNCHANGED <<profile, refused>>

\* Mutation: the box closes while the system resolver still points at it.
MutReleaseLast(restored, ok) ==
    /\ At("stop") /\ slot["box"] # 0
    /\ pins' = FALSE /\ UNCHANGED dns
    /\ up' = Stopped("watch") \ (IF restored THEN {<<"relay", slot["relay"]>>} ELSE {})
    /\ slot' = [slot EXCEPT !["watch"] = 0, !["box"] = 0, !["relay"] = IF restored THEN 0 ELSE @]
    /\ doomed' = {<<"box", slot["box"]>>}
    /\ Goto("closeBox") /\ UNCHANGED mark

\* The watch, the pins, the system DNS and the relay, then the box is unpublished.
unpublish(restored, ok) ==
    /\ At("stop") /\ slot["box"] # 0
    /\ pins' = FALSE /\ Release(ok)
    /\ up' = Stopped("watch") \ (IF restored THEN {<<"relay", slot["relay"]>>} ELSE {})
    /\ slot' = [slot EXCEPT !["watch"] = 0, !["box"] = 0, !["relay"] = IF restored THEN 0 ELSE @]
    /\ doomed' = {<<"box", slot["box"]>>}
    /\ Goto("closeBox") /\ UNCHANGED mark

\* CloseWithTimeout blocks until the box has closed, which it may never do.
closeHangs == At("closeBox") /\ Goto("hung") /\ UNCHANGED profile

closeBox ==
    /\ At("closeBox")
    /\ up' = up \ doomed /\ doomed' = {}
    /\ Goto("stopExtra") /\ UNCHANGED <<slot, mark, pins, dns>>

stopExtra ==
    /\ At("stopExtra")
    /\ up' = Stopped("extra") /\ slot' = [slot EXCEPT !["extra"] = 0]
    /\ Goto("unslot") /\ UNCHANGED <<doomed, mark, pins, dns>>

\* Mutation: the instances close while their slots still name them.
MutCloseInPlace ==
    /\ At("unslot")
    /\ up' = up \ {<<k, slot[k]>> : k \in XrayKinds}
    /\ Goto("close") /\ UNCHANGED <<slot, doomed, mark, pins, dns>>

\* closeXray: the slots first, then what they named.
unslot ==
    /\ At("unslot")
    /\ doomed' = up \cap {<<k, slot[k]>> : k \in XrayKinds}
    /\ slot' = [k \in Kinds |-> IF k \in XrayKinds THEN 0 ELSE slot[k]]
    /\ Goto("close") /\ UNCHANGED <<up, mark, pins, dns>>

closeXray ==
    /\ At("close")
    /\ up' = up \ doomed /\ doomed' = {}
    /\ IF cur.op = "Start" THEN StartFails
       ELSE mark' = FALSE /\ UNCHANGED slot /\ Return(TRUE)
    /\ UNCHANGED <<pins, dns, refused>>

-----------------------------------------------------------------------------
(* The end of the core.                                                    *)

\* What runs inside the core ends with it; the switch of the relay stays, and so does the extra process,
\* except on Linux, where Pdeathsig takes it down.
Survivors == {r \in up : r[1] = "relay" \/ (r[1] = "extra" /\ goos # "linux")}

\* The core's memory is gone; the relay's marker is a file.
Exit(how) ==
    /\ core' = "exited" /\ exit' = how /\ up' = Survivors
    /\ slot' = [k \in Kinds |-> IF k = "relay" THEN slot[k] ELSE 0]
    /\ waiting' = {} /\ cur' = NoCall /\ pc' = "free" /\ req' = NoRequest
    /\ doomed' = {} /\ mark' = FALSE /\ pins' = FALSE
    /\ awaited' = 0 /\ gui' = "idle"
    /\ UNCHANGED <<goos, sent, dns, ipc, refused>>

\* shutdown(), on a signal or when the parent is found gone.
shutdown ==
    /\ core = "up" /\ core' = "draining"
    /\ waiting' = waiting \cup {Teardown}
    /\ UNCHANGED <<goos, caller, cur, pc, req, profile, ipc, exit, refused>>

teardownDone == core = "drained" /\ Exit("teardown")

\* Mutation: shutdown() waits for as long as the teardown takes.
MutNoTimeout == FALSE /\ Exit("timeout")

teardownTimesOut == core = "draining" /\ Exit("timeout")

Killed == running /\ Exit("killed")

\* The GUI is gone: Serve returns, and the main goroutine releases the DNS and exits.
dropIpc ==
    /\ running /\ ipc = "open" /\ ipc' = "dropped"
    /\ UNCHANGED <<goos, caller, call, profile, core, exit, refused>>

dropRelease(ok) ==
    /\ running /\ ipc = "dropped" /\ ipc' = "released" /\ Release(ok)
    /\ UNCHANGED <<goos, caller, call, slot, up, doomed, mark, pins, core, exit, refused>>

dropExit == running /\ ipc = "released" /\ Exit("dropped")

-----------------------------------------------------------------------------
Start ==
    \/ alreadyStarted \/ startXray \/ xrayFails \/ startXrayFullGates \/ fullGatesFail
    \/ prepareDns \/ createBox \/ applyDns \/ disablePanics \/ startDone
    \/ \E b \in BOOLEAN : extraFails(b) \/ startExtra(b) \/ disableRelay(b)
    \/ \E ok \in BOOLEAN : prepareFails(ok) \/ createFails(ok) \/ applyFails(ok) \/ stopSidecars(ok)

Stop ==
    \/ nothingToStop \/ closeHangs \/ closeBox \/ stopExtra \/ unslot \/ closeXray
    \/ \E b, ok \in BOOLEAN : unpublish(b, ok)

Lock(c) == lockStop(c) \/ \E r \in Requests : lockStart(c, r)

Finished == core = "exited" /\ UNCHANGED vars

Next ==
    \/ SendStart \/ SendStop \/ CallTimesOut
    \/ \E c \in waiting : Lock(c)
    \/ Start \/ Stop
    \/ shutdown \/ teardownDone \/ teardownTimesOut \/ Killed \/ dropIpc \/ dropExit
    \/ \E ok \in BOOLEAN : dropRelease(ok)
    \/ Finished

\* The goroutine that holds lifecycleMu runs, the lock is handed on, and the goroutines of shutdown() and of
\* Serve go on.  Nobody has to call, and no timeout has to fire but for the one of shutdown().
Fairness ==
    /\ WF_vars(Start \/ Stop) /\ WF_vars(\E c \in waiting : Lock(c))
    /\ WF_vars(teardownDone \/ teardownTimesOut) /\ WF_vars(dropExit \/ \E ok \in BOOLEAN : dropRelease(ok))

Spec == Init /\ [][Next]_vars /\ Fairness

-----------------------------------------------------------------------------
Named(k) == {<<k, slot[k]>>}
Free == running /\ pc = "free"

\* Between two calls, what runs is what a package variable names, so the next Stop can reach it: no exit
\* path of Start forgets a gate, an instance, a box, a watch or a relay (the extra process apart, see
\* StopEndsSession), as long as no Start has met a box already running.
NothingForgotten ==
    Free /\ ~refused => \A r \in up : r[1] # "extra" => slot[r[1]] = r[2]

\* "Slots are cleared before the close so no reader picks up a pointer that is going away": a poller finds
\* a running Xray instance or gate in a slot, at any moment, lock or no lock.
XraySlotsAreLive == running => \A k \in XrayKinds : slot[k] # 0 => Named(k) \subseteq up

Listening == \E r \in up \ doomed : r[1] = "box"

\* No box closes before the resolver has been put back, or a Release has tried to and could not: on every path of
\* Start and Stop, and of the main goroutine as it leaves, what is pointed at the core without a box that is up and
\* not about to close is what a failed Release left.
ResolverHasListener == running /\ Pointed /\ ~Listening => dns = "left"

\* Every handler gives lifecycleMu back, so a call runs and returns, unless a box hangs as it closes or the core
\* ends.
CallsReturn == \A c \in Calls : c \in waiting ~> (c \notin waiting /\ pc = "free") \/ pc = "hung" \/ core = "exited"

\* shutdown() ends the core, even when the teardown hangs.
ShutdownExits == core = "draining" ~> core = "exited"

-----------------------------------------------------------------------------
(* What the repository says and the code does not do.                      *)

\* Stop says that it releases the DNS first, "so the system resolver never points at a listener that is already
\* gone"; but it closes the box also when Release could not put a service back.
ResolverNeverStale == running /\ Pointed => Listening

\* lifecycle.go says of Teardown that it "takes down the tunnel" and "stops the child processes", "the same the
\* Stop command does": when a Stop or a Teardown returns, neither a box nor an extra process is left.
StopEndsSession ==
    [][cur.op \in {"Stop", "Teardown"} /\ pc' = "free" /\ running' => \A r \in up' : r[1] \notin {"box", "extra"}]_vars
=============================================================================
