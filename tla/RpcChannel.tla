----------------------------- MODULE RpcChannel -----------------------------
(***************************************************************************)
(* The client's end of the channel to the core, LocalSocketChannel of      *)
(* src/src/api/RPC.cpp, with the core's end, Serve of                      *)
(* src/core/internal/rpc/dispatch.go.                                      *)
(*                                                                         *)
(* Threads: any number of callers inside Call(), the I/O thread that owns  *)
(* the socket and the read buffer, the main thread inside Reconnect(), and *)
(* the goroutines of the core.  A step is what a thread does between two   *)
(* points where another can interfere: pending_mu and call->mu are real    *)
(* locks here, because their order is what keeps wakeAllWithError() and    *)
(* Call() from waiting on each other.                                      *)
(*                                                                         *)
(* An answer is two fragments, the header and the data, which Serve writes *)
(* one after the other and which the client may read apart.  Requests are  *)
(* not cut: Serve reads each to its end before it acts on it.              *)
(***************************************************************************)
EXTENDS Naturals, Sequences, FiniteSets

CONSTANTS
  Calls,      \* the calls made, each with the id next_id gave it
  NCores,     \* bound: cores that connect one after another, numbered from 1
  NoCall

ASSUME CallsAssumption  == NoCall \notin Calls
ASSUME NCoresAssumption == NCores \in Nat

Cores == 1..NCores
NoSock == 0

VARIABLES
  connected,  \* connected_
  pmu,        \* who holds pending_mu over several steps: "free", "io" or "main"
  pending,    \* the ids in the map pending
  pc,         \* [Calls -> where Call() is]; "woke" holds call->mu
  done,       \* [Calls -> BOOLEAN]: PendingCall::done
  answer,     \* [Calls -> status and data of the PendingCall]
  outcome,    \* [Calls -> what the wrapper of Client returned]
  main,       \* where Reconnect() is on the main thread
  ioq,        \* calls queued to io_anchor, oldest first
  io,         \* what the I/O thread is doing
  claimed,    \* the frame whose slot processBuffer() has taken
  sock,       \* the core behind sock, or NoSock
  buf,        \* read_buf
  life,       \* [Cores -> "none" | "up" | "dead"]: the core process
  unheard,    \* cores whose disconnected() was not emitted yet
  out,        \* [Cores -> fragments written by the core and not read]
  at,         \* [Calls -> the core the request reached, or NoSock]
  srv,        \* [Calls -> where the goroutine serving it is]
  exec        \* [Calls -> "no" | "ok" | "error"]: what dispatch() did

client == <<connected, pmu, pending, pc, done, answer, outcome, main, ioq, io,
            claimed, sock, buf, unheard>>
server == <<life, out, at, srv, exec>>
vars == <<client, server>>

-----------------------------------------------------------------------------
Frag(i, part) == [call |-> i, part |-> part, status |-> exec[i]]
NoAnswer == [status |-> "error", of |-> NoCall]   \* status = 1, data empty
Write(i) == [kind |-> "write", call |-> i, core |-> NoSock]
Swap(c)  == [kind |-> "swap", call |-> NoCall, core |-> c]

Newest == IF \E c \in Cores : life[c] # "none"
          THEN CHOOSE c \in Cores : life[c] # "none" /\ \A d \in Cores : life[d] # "none" => d <= c
          ELSE NoSock

Init ==
  /\ connected = FALSE /\ pmu = "free" /\ pending = {}
  /\ pc      = [i \in Calls |-> "idle"]
  /\ done    = [i \in Calls |-> FALSE]
  /\ answer  = [i \in Calls |-> NoAnswer]
  /\ outcome = [i \in Calls |-> "idle"]
  /\ main = "idle" /\ ioq = <<>> /\ io = "idle"
  /\ claimed = [id |-> NoCall, answer |-> NoAnswer]
  /\ sock = NoSock /\ buf = <<>>
  /\ life    = [c \in Cores |-> "none"]
  /\ unheard = Cores
  /\ out     = [c \in Cores |-> <<>>]
  /\ at      = [i \in Calls |-> NoSock]
  /\ srv     = [i \in Calls |-> "none"]
  /\ exec    = [i \in Calls |-> "no"]

-----------------------------------------------------------------------------
(* Call(): the steps of a caller.                                          *)

CallerStep(i, from, to) ==
  /\ pc[i] = from
  /\ pc' = [pc EXCEPT ![i] = to]
  /\ UNCHANGED <<connected, pmu, done, answer, main, io, claimed, sock, buf, unheard, server>>

Refused(i) ==
  /\ ~connected
  /\ CallerStep(i, "idle", "returned")
  /\ outcome' = [outcome EXCEPT ![i] = "refused"]
  /\ UNCHANGED <<pending, ioq>>

Begin(i) ==
  /\ connected
  /\ CallerStep(i, "idle", "begun")
  /\ outcome' = [outcome EXCEPT ![i] = "open"]
  /\ UNCHANGED <<pending, ioq>>

Register(i) ==
  /\ pmu = "free"
  /\ CallerStep(i, "begun", "registered")
  /\ pending' = pending \cup {i}
  /\ UNCHANGED <<outcome, ioq>>

QueueWrite(i) ==
  /\ CallerStep(i, "registered", "waiting")
  /\ ioq' = Append(ioq, Write(i))
  /\ UNCHANGED <<pending, outcome>>

\* What the tail of Call() and the wrapper of Client make of the PendingCall:
\* woken without data is a failure, and so is an answer with status 0 that
\* tryDeserialize() cannot read.
Results(i) ==
  IF answer[i].of = NoCall THEN {"failed"}
  ELSE {answer[i].status} \cup (IF answer[i].status = "ok" THEN {"failed"} ELSE {})

Finish(i, from) ==
  /\ done[i]
  /\ CallerStep(i, from, "returned")
  /\ \E r \in Results(i) : outcome' = [outcome EXCEPT ![i] = r]
  /\ UNCHANGED <<pending, ioq>>

\* wait_for() returns, by the notification or by the clock, holding call->mu
WaitEnds(i) ==
  /\ CallerStep(i, "waiting", "woke")
  /\ UNCHANGED <<pending, outcome, ioq>>

\* a timed-out caller takes its slot back, unless it was taken already
ReclaimFrom(i, from) ==
  /\ pmu = "free"
  /\ CallerStep(i, from, IF i \in pending THEN "gaveup" ELSE "rewait")
  /\ pending' = pending \ {i}
  /\ outcome' = IF i \in pending THEN [outcome EXCEPT ![i] = "failed"] ELSE outcome
  /\ UNCHANGED ioq

\* mutant: the caller keeps call->mu while it asks for pending_mu
MutUnlockLate(i) == Finish(i, "woke") \/ (~done[i] /\ ReclaimFrom(i, "woke"))

\* the lock is released before pending_mu is taken
Unlock(i) ==
  \/ Finish(i, "woke")
  \/ /\ ~done[i]
     /\ CallerStep(i, "woke", "timedout")
     /\ UNCHANGED <<pending, outcome, ioq>>

\* mutants: the slot is left in the map; the caller does not ask who took it
MutReclaimKeeps(i) ==
  /\ pmu = "free"
  /\ CallerStep(i, "timedout", IF i \in pending THEN "gaveup" ELSE "rewait")
  /\ outcome' = IF i \in pending THEN [outcome EXCEPT ![i] = "failed"] ELSE outcome
  /\ UNCHANGED <<pending, ioq>>
MutReclaimBlind(i) ==
  /\ pmu = "free"
  /\ CallerStep(i, "timedout", "gaveup")
  /\ pending' = pending \ {i}
  /\ outcome' = [outcome EXCEPT ![i] = "failed"]
  /\ UNCHANGED ioq

Reclaim(i) == ReclaimFrom(i, "timedout")

\* claimedByReader.  External assumption: whoever took the slot sets done, its
\* next statement, before a second full timeout has passed.
SecondWaitEnds(i) == Finish(i, "rewait")

CallSteps(i) ==
  \/ Register(i) \/ QueueWrite(i) \/ WaitEnds(i) \/ Unlock(i)
  \/ Reclaim(i) \/ SecondWaitEnds(i)

-----------------------------------------------------------------------------
(* wakeAllWithError(), on either thread: the flag, the lock of the map,    *)
(* then call->mu of every entry in turn while the map stays locked.        *)

TakePending(t) ==
  /\ pmu = "free"
  /\ pmu' = t
  /\ UNCHANGED <<connected, pending, pc, done, answer, outcome, ioq, claimed, sock, buf, unheard, server>>

WakeAll ==
  /\ \A i \in pending : pc[i] # "woke"
  /\ done' = [i \in Calls |-> done[i] \/ i \in pending]
  /\ pending' = {}
  /\ pmu' = "free"
  /\ UNCHANGED <<connected, pc, answer, outcome, ioq, claimed, sock, buf, unheard, server>>

(* Reconnect(), on the main thread. *)

MainQuiet == UNCHANGED <<pmu, pending, pc, done, answer, outcome, io, claimed, sock, buf, unheard, out, at, srv, exec>>

\* A core connects and onNewConnection() calls Reconnect().  QProcess starts a
\* core only when the one before it has ended, and a core never redials.
Reconnect(c) ==
  /\ main = "idle"
  /\ Newest = c - 1
  /\ \A d \in Cores : life[d] # "up"
  /\ life' = [life EXCEPT ![c] = "up"]
  /\ connected' = FALSE
  /\ main' = "wake"
  /\ UNCHANGED ioq /\ MainQuiet

ReconnectWakes ==
  \/ main = "wake" /\ TakePending("main") /\ main' = "waking" /\ UNCHANGED io
  \/ main = "waking" /\ WakeAll /\ main' = "swap" /\ UNCHANGED io

QueueSwap ==
  /\ main = "swap"
  /\ ioq' = Append(ioq, Swap(Newest))
  /\ main' = "set"
  /\ UNCHANGED <<connected, life>> /\ MainQuiet

SetConnected ==
  /\ main = "set"
  /\ connected' = TRUE
  /\ main' = "idle"
  /\ UNCHANGED <<ioq, life>> /\ MainQuiet

MainStep == ReconnectWakes \/ QueueSwap \/ SetConnected

-----------------------------------------------------------------------------
(* The I/O thread.                                                         *)

IoQuiet == UNCHANGED <<connected, pmu, pending, pc, done, answer, outcome, main, claimed, life, exec>>

Reads(s, q) ==
  /\ buf' = q \o out[s]
  /\ out' = [out EXCEPT ![s] = <<>>]

\* a queued write: dropped without a socket, or when its peer is gone
RunWrite ==
  /\ io = "idle" /\ ioq # <<>> /\ Head(ioq).kind = "write"
  /\ ioq' = Tail(ioq)
  /\ IF sock # NoSock /\ life[sock] = "up"
     THEN /\ at'  = [at EXCEPT ![Head(ioq).call] = sock]
          /\ srv' = [srv EXCEPT ![Head(ioq).call] = "received"]
     ELSE UNCHANGED <<at, srv>>
  /\ UNCHANGED <<io, sock, buf, unheard, out>> /\ IoQuiet

\* mutant: no read_buf.clear()
MutRunSwapKeepsBuffer ==
  /\ io = "idle" /\ ioq # <<>> /\ Head(ioq).kind = "swap"
  /\ ioq' = Tail(ioq)
  /\ sock' = Head(ioq).core
  /\ Reads(sock', buf)
  /\ io' = "parse"
  /\ UNCHANGED <<unheard, at, srv>> /\ IoQuiet

\* the lambda of Reconnect(): read_buf.clear(), then what already arrived
RunSwap ==
  /\ io = "idle" /\ ioq # <<>> /\ Head(ioq).kind = "swap"
  /\ ioq' = Tail(ioq)
  /\ sock' = Head(ioq).core
  /\ Reads(sock', <<>>)
  /\ io' = "parse"
  /\ UNCHANGED <<unheard, at, srv>> /\ IoQuiet

OnReadyRead ==
  /\ io = "idle" /\ sock # NoSock
  /\ out[sock] # <<>>
  /\ Reads(sock, buf)
  /\ io' = "parse"
  /\ UNCHANGED <<ioq, sock, unheard, at, srv>> /\ IoQuiet

\* one turn of processBuffer(): a whole frame is taken off the buffer and its
\* slot out of the map, or the loop ends
ProcessBuffer ==
  /\ io = "parse"
  /\ IF Len(buf) < 2
     THEN /\ io' = "idle"
          /\ UNCHANGED <<pending, buf, claimed>>
     ELSE /\ pmu = "free"
          /\ buf' = Tail(Tail(buf))
          /\ pending' = pending \ {buf[1].call}
          /\ IF buf[1].call \in pending
             THEN /\ io' = "answer"
                  /\ claimed' = [id |-> buf[1].call, answer |-> [status |-> buf[1].status, of |-> buf[2].call]]
             ELSE UNCHANGED <<io, claimed>>
  /\ UNCHANGED <<connected, pmu, pc, done, answer, outcome, main, ioq, sock, unheard, server>>

\* call->mu is held across the assignments and the notification
SetAnswer ==
  /\ io = "answer"
  /\ pc[claimed.id] # "woke"
  /\ done'   = [done EXCEPT ![claimed.id] = TRUE]
  /\ answer' = [answer EXCEPT ![claimed.id] = claimed.answer]
  /\ claimed' = [id |-> NoCall, answer |-> NoAnswer]
  /\ io' = "parse"
  /\ UNCHANGED <<connected, pmu, pending, pc, outcome, main, ioq, sock, buf, unheard, server>>

\* disconnected() of a socket: wakeAllWithError() if it is the current one,
\* unheard if it comes before the swap has connected the signal
Disconnected(c) ==
  /\ io = "idle" /\ life[c] = "dead" /\ c \in unheard
  /\ unheard' = unheard \ {c}
  /\ out' = [out EXCEPT ![c] = <<>>]
  /\ IF sock = c THEN connected' = FALSE /\ io' = "wake"
                 ELSE UNCHANGED <<connected, io>>
  /\ UNCHANGED <<pmu, pending, pc, done, answer, outcome, main, ioq, claimed, sock, buf, life, at, srv, exec>>

IoWakes ==
  \/ io = "wake" /\ TakePending("io") /\ io' = "waking" /\ UNCHANGED main
  \/ io = "waking" /\ WakeAll /\ io' = "idle" /\ UNCHANGED main

IoStep ==
  \/ RunWrite \/ RunSwap \/ OnReadyRead \/ ProcessBuffer \/ SetAnswer
  \/ (\E c \in Cores : Disconnected(c)) \/ IoWakes

-----------------------------------------------------------------------------
(* The core: one goroutine per request.                                    *)

ServerStep(i, from, to) ==
  /\ srv[i] = from
  /\ life[at[i]] = "up"
  /\ srv' = [srv EXCEPT ![i] = to]
  /\ UNCHANGED <<life, at, client>>

\* dispatch(): an error or a recovered panic is answered with status 1
Dispatch(i) ==
  /\ ServerStep(i, "received", "executed")
  /\ \E r \in {"ok", "error"} : exec' = [exec EXCEPT ![i] = r]
  /\ UNCHANGED out

\* mutant: no writeMu
MutWriteUnlocked(i) ==
  /\ ServerStep(i, "executed", "writing")
  /\ out' = [out EXCEPT ![at[i]] = Append(@, Frag(i, "header"))]
  /\ UNCHANGED exec

\* writeResponse(): two writes under writeMu
WriteHeader(i) ==
  /\ \A j \in Calls : at[j] = at[i] => srv[j] # "writing"
  /\ ServerStep(i, "executed", "writing")
  /\ out' = [out EXCEPT ![at[i]] = Append(@, Frag(i, "header"))]
  /\ UNCHANGED exec

WriteData(i) ==
  /\ ServerStep(i, "writing", "answered")
  /\ out' = [out EXCEPT ![at[i]] = Append(@, Frag(i, "data"))]
  /\ UNCHANGED exec

\* the core is killed or exits, whatever it was doing
CoreDies(c) ==
  /\ life[c] = "up"
  /\ life' = [life EXCEPT ![c] = "dead"]
  /\ srv' = [i \in Calls |-> IF at[i] = c THEN "none" ELSE srv[i]]
  /\ UNCHANGED <<out, at, exec, client>>

-----------------------------------------------------------------------------
\* every call has returned and no thread has anything to do
Finished ==
  /\ \A i \in Calls : pc[i] \in {"gaveup", "returned"}
  /\ main = "idle" /\ io = "idle" /\ ioq = <<>>
  /\ UNCHANGED vars

Next ==
  \/ \E i \in Calls : Refused(i) \/ Begin(i) \/ CallSteps(i)
  \/ \E c \in Cores : Reconnect(c) \/ CoreDies(c)
  \/ MainStep
  \/ IoStep
  \/ \E i \in Calls : Dispatch(i) \/ WriteHeader(i) \/ WriteData(i)
  \/ Finished

Spec == Init /\ [][Next]_vars

-----------------------------------------------------------------------------
Fragments == [call : Calls, part : {"header", "data"}, status : {"ok", "error"}]
Answers   == [status : {"ok", "error"}, of : Calls \cup {NoCall}]
Messages  == [kind : {"write"}, call : Calls, core : {NoSock}]
             \cup [kind : {"swap"}, call : {NoCall}, core : Cores]

TypeOK ==
  /\ connected \in BOOLEAN
  /\ pmu \in {"free", "io", "main"}
  /\ pending \subseteq Calls
  /\ pc \in [Calls -> {"idle", "begun", "registered", "waiting", "woke", "timedout",
                       "rewait", "gaveup", "returned"}]
  /\ done \in [Calls -> BOOLEAN]
  /\ answer \in [Calls -> Answers]
  /\ outcome \in [Calls -> {"idle", "open", "refused", "failed", "ok", "error"}]
  /\ main \in {"idle", "wake", "waking", "swap", "set"}
  /\ ioq \in Seq(Messages)
  /\ io \in {"idle", "parse", "answer", "wake", "waking"}
  /\ claimed \in [id : Calls \cup {NoCall}, answer : Answers]
  /\ sock \in Cores \cup {NoSock}
  /\ buf \in Seq(Fragments)
  /\ life \in [Cores -> {"none", "up", "dead"}]
  /\ unheard \subseteq Cores
  /\ out \in [Cores -> Seq(Fragments)]
  /\ at \in [Calls -> Cores \cup {NoSock}]
  /\ srv \in [Calls -> {"none", "received", "executed", "writing", "answered"}]
  /\ exec \in [Calls -> {"no", "ok", "error"}]

\* A slot of the map belongs to a caller that still needs it, and a caller
\* whose slot is gone has been, or is being, woken: a timeout (RPC.cpp:200), an
\* answer and wakeAllWithError() racing for the same slot neither leak it nor
\* leave its caller to wait for a whole timeout for nothing.
SlotsMatch ==
  \A i \in Calls :
    IF i \in pending
    THEN pc[i] \in {"registered", "waiting", "woke", "timedout"} /\ ~done[i]
    ELSE pc[i] \in {"registered", "waiting", "woke", "timedout", "rewait"} => done[i] \/ claimed.id = i

\* A call that gives up has no answer and will get none: when the reader takes
\* the slot of a call that is timing out, the answer is used (RPC.cpp:203,
\* claimedByReader), not dropped after the core has done the work.
TimedOutIsUnanswered ==
  \A i \in Calls : pc[i] = "gaveup" => ~done[i] /\ claimed.id # i

\* A sequence of fragments starts with a header, and a header is followed by
\* the data of its own answer.
Aligned(s) ==
  \A k \in 1..Len(s) :
    /\ k = 1 => s[k].part = "header"
    /\ k < Len(s) => IF s[k].part = "header" THEN s[k + 1].part = "data" /\ s[k + 1].call = s[k].call
                                              ELSE s[k + 1].part = "header"

\* The read buffer starts at a frame of the current socket: what a dead core
\* left unfinished (a header without its data) never shifts the frames of the
\* next one (read_buf.clear() in the swap), and no two answers of a core are
\* mixed (writeMu).
FramesAligned == Aligned(buf) /\ \A k \in 1..Len(buf) : at[buf[k].call] = sock

\* The contract of a call (RemoteCall): refused means never executed, executed
\* at most once, and an answer is the one of the call's own execution.
RC == INSTANCE RemoteCall WITH
        payload <- [i \in Calls |-> IF outcome[i] \in {"ok", "error"} THEN answer[i].of ELSE NoCall]
ImplementsRemoteCall == RC!Spec

\* As long as a call has not returned, the client can move without the core's
\* help: the caller's clock, the I/O thread and Reconnect() never all wait for
\* one another ("never hold call->mu while taking pending_mu", RPC.cpp:196),
\* wherever the loss of the socket and the next core meet the call.
ClientNeverStuck ==
  (\E i \in Calls : pc[i] \notin {"idle", "gaveup", "returned"}) =>
    ENABLED (IoStep \/ MainStep \/ \E i \in Calls : CallSteps(i))

\* "A dropped channel means the core is exiting (it never redials)"
\* (CoreSupervisor.cpp:442): with no thread on its way, a channel that reports
\* itself disconnected has no live core behind its socket.
DroppedMeansGone ==
  (main = "idle" /\ io = "idle" /\ ioq = <<>> /\ ~connected /\ sock # NoSock) => life[sock] # "up"

=============================================================================
