-------------------------- MODULE RpcChannelProofs --------------------------
(***************************************************************************)
(* The pending table of RpcChannel and the chain from a call to its        *)
(* answer, for any number of calls and cores.                              *)
(*                                                                         *)
(* SlotsMatch is not inductive: it does not say that the slot the reader   *)
(* has claimed is out of the map and still unanswered, nor that a call is  *)
(* only done while somebody waits for it.  SlotInv adds both; what the     *)
(* buffers hold plays no part in that argument.                            *)
(*                                                                         *)
(* That an answer is the call's own is what ChainInv is for.  It follows   *)
(* the answer backwards: from the caller to the reader's claim (Told), to  *)
(* the frame it was cut from and the core that wrote it (Streams), to the  *)
(* one goroutine that served the request (Serving), to the one queued      *)
(* write (Queued), over cores and sockets that only ever get newer         *)
(* (Generations).  Aligned frames and the refinement of RemoteCall both    *)
(* follow from it.                                                         *)
(*                                                                         *)
(* That the two locks never stop everybody (ClientAlwaysMoves) needs the   *)
(* table only: a caller that waits for the reader has been claimed.        *)
(***************************************************************************)
EXTENDS RpcChannel, SequenceTheorems, TLAPS

Waits == {"registered", "waiting", "woke", "timedout"}   \* has registered, is not told yet
Places == Waits \cup {"idle", "begun", "rewait", "gaveup", "returned"}

SlotTypes ==
  /\ pending \subseteq Calls
  /\ pc \in [Calls -> Places]
  /\ done \in [Calls -> BOOLEAN]
  /\ claimed.id \in Calls \cup {NoCall}

\* The slot that processBuffer() has taken: out of the map, not answered, and
\* its caller is there to be told.
ClaimedIsOwed ==
  /\ io # "answer" => claimed.id = NoCall
  /\ claimed.id # NoCall =>
       /\ claimed.id \notin pending
       /\ ~done[claimed.id]
       /\ pc[claimed.id] \in Waits \cup {"rewait"}

\* A call is told that it is over only after it has registered and before it
\* has given up.
DoneWasWaiting == \A i \in Calls : done[i] => pc[i] \in Waits \cup {"rewait", "returned"}

SlotInv == SlotTypes /\ SlotsMatch /\ ClaimedIsOwed /\ DoneWasWaiting

\* The channel starts with an empty table.
LEMMA SlotInit == Init => SlotInv
  BY CallsAssumption
  DEF Init, SlotInv, SlotTypes, SlotsMatch, ClaimedIsOwed, DoneWasWaiting, Waits, Places, NoAnswer

\* A step that touches neither the table nor the callers keeps the invariant.
LEMMA SlotQuiet ==
  ASSUME SlotInv, UNCHANGED <<pending, pc, done, claimed>>, io' # "answer" => claimed.id = NoCall
  PROVE  SlotInv'
  BY DEF SlotInv, SlotTypes, SlotsMatch, ClaimedIsOwed, DoneWasWaiting, Waits, Places

\* The steps of a caller: registering, waiting, timing out, taking back the
\* slot and returning.
LEMMA SlotCaller ==
  ASSUME SlotInv, NEW i \in Calls, Refused(i) \/ Begin(i) \/ CallSteps(i)
  PROVE  SlotInv'
<1> USE CallsAssumption DEF SlotInv, SlotTypes, SlotsMatch, ClaimedIsOwed, DoneWasWaiting, Waits, Places, CallerStep
<1>1. CASE Refused(i)
  BY <1>1 DEF Refused
<1>2. CASE Begin(i)
  BY <1>2 DEF Begin
<1>3. CASE Register(i)
  BY <1>3 DEF Register
<1>4. CASE QueueWrite(i)
  BY <1>4 DEF QueueWrite
<1>5. CASE WaitEnds(i)
  BY <1>5 DEF WaitEnds
<1>6. CASE Unlock(i)
  BY <1>6 DEF Unlock, Finish
<1>7. CASE Reclaim(i)
  BY <1>7 DEF Reclaim, ReclaimFrom
<1>8. CASE SecondWaitEnds(i)
  BY <1>8 DEF SecondWaitEnds, Finish
<1> QED BY <1>1, <1>2, <1>3, <1>4, <1>5, <1>6, <1>7, <1>8 DEF CallSteps

\* wakeAllWithError() on either thread empties the table and tells every
\* caller in it.
LEMMA SlotWake ==
  ASSUME SlotInv, WakeAll, io' # "answer" => claimed.id = NoCall
  PROVE  SlotInv'
  BY CallsAssumption
  DEF WakeAll, SlotInv, SlotTypes, SlotsMatch, ClaimedIsOwed, DoneWasWaiting, Waits, Places

\* The reader takes a slot, or skips a frame nobody waits for.
LEMMA SlotProcess ==
  ASSUME SlotInv, ProcessBuffer
  PROVE  SlotInv'
<1> USE CallsAssumption DEF SlotInv, SlotTypes, SlotsMatch, ClaimedIsOwed, DoneWasWaiting, Waits, Places
<1>1. CASE Len(buf) < 2
  BY <1>1 DEF ProcessBuffer
<1>2. CASE ~(Len(buf) < 2) /\ buf[1].call \notin pending
  <2>1. pending' = pending
    BY <1>2 DEF ProcessBuffer
  <2> QED BY <1>2, <2>1 DEF ProcessBuffer
<1>3. CASE ~(Len(buf) < 2) /\ buf[1].call \in pending
  <2> DEFINE i == buf[1].call
  <2>1. i \in pending /\ i \in Calls /\ pending' = pending \ {i} /\ claimed'.id = i /\ io' = "answer" /\ UNCHANGED <<pc, done>>
    BY <1>3 DEF ProcessBuffer
  <2>2. claimed.id = NoCall
    BY <1>3 DEF ProcessBuffer
  <2> HIDE DEF i
  <2> QED BY <1>3, <2>1, <2>2
<1> QED BY <1>1, <1>2, <1>3

\* The reader tells the caller whose slot it has taken.
LEMMA SlotAnswer ==
  ASSUME SlotInv, SetAnswer
  PROVE  SlotInv'
<1> USE CallsAssumption DEF SlotInv, SlotTypes, SlotsMatch, ClaimedIsOwed, DoneWasWaiting, Waits, Places
<1>1. io' = "parse" /\ claimed'.id = NoCall /\ done' = [done EXCEPT ![claimed.id] = TRUE] /\ UNCHANGED <<pending, pc>>
  BY DEF SetAnswer
<1> QED BY <1>1

\* Every step of every thread and of the cores keeps the invariant.
LEMMA SlotNext == SlotInv /\ [Next]_vars => SlotInv'
<1> SUFFICES ASSUME SlotInv, [Next]_vars PROVE SlotInv'
  OBVIOUS
<1> USE DEF client, server
<1>a. io # "answer" => claimed.id = NoCall
  BY DEF SlotInv, ClaimedIsOwed
<1>1. CASE \E i \in Calls : Refused(i) \/ Begin(i) \/ CallSteps(i)
  BY <1>1, SlotCaller
<1>2. CASE \E c \in Cores : Reconnect(c) \/ CoreDies(c)
  BY <1>2, <1>a, SlotQuiet DEF Reconnect, CoreDies, MainQuiet
<1>3. CASE MainStep
  <2>1. CASE ReconnectWakes
    <3>1. CASE TakePending("main") /\ UNCHANGED io
      BY <3>1, <1>a, SlotQuiet DEF TakePending
    <3>2. CASE WakeAll /\ UNCHANGED io
      BY <3>2, <1>a, SlotWake
    <3> QED BY <2>1, <3>1, <3>2 DEF ReconnectWakes
  <2>2. CASE QueueSwap \/ SetConnected
    BY <2>2, <1>a, SlotQuiet DEF QueueSwap, SetConnected, MainQuiet
  <2> QED BY <1>3, <2>1, <2>2 DEF MainStep
<1>4. CASE IoStep
  <2>1. CASE RunWrite \/ RunSwap \/ OnReadyRead
    BY <2>1, <1>a, SlotQuiet DEF RunWrite, RunSwap, OnReadyRead, IoQuiet
  <2>2. CASE ProcessBuffer
    BY <2>2, SlotProcess
  <2>3. CASE SetAnswer
    BY <2>3, SlotAnswer
  <2>4. CASE \E c \in Cores : Disconnected(c)
    BY <2>4, <1>a, SlotQuiet DEF Disconnected
  <2>5. CASE IoWakes
    <3>1. CASE io = "wake" /\ TakePending("io") /\ io' = "waking"
      BY <3>1, <1>a, SlotQuiet DEF TakePending
    <3>2. CASE io = "waking" /\ WakeAll /\ io' = "idle"
      BY <3>2, <1>a, SlotWake
    <3> QED BY <2>5, <3>1, <3>2 DEF IoWakes
  <2> QED BY <1>4, <2>1, <2>2, <2>3, <2>4, <2>5 DEF IoStep
<1>5. CASE \E i \in Calls : Dispatch(i) \/ WriteHeader(i) \/ WriteData(i)
  BY <1>5, <1>a, SlotQuiet DEF Dispatch, WriteHeader, WriteData, ServerStep
<1>6. CASE Finished \/ UNCHANGED vars
  BY <1>6, <1>a, SlotQuiet DEF Finished, vars
<1> QED BY <1>1, <1>2, <1>3, <1>4, <1>5, <1>6 DEF Next

\* The invariant holds of every behaviour of the channel.
THEOREM SlotInvariance == Spec => []SlotInv
  BY SlotInit, SlotNext, PTL DEF Spec

\* A timeout, an answer and wakeAllWithError() that race for a slot neither
\* leak it nor leave its caller waiting, for any number of calls and cores.
THEOREM SlotsAlwaysMatch == Spec => []SlotsMatch
<1>1. SlotInv => SlotsMatch
  BY DEF SlotInv
<1> QED BY <1>1, SlotInvariance, PTL

\* A call that has given up was not answered and will not be.
THEOREM GivingUpIsFinal == Spec => []TimedOutIsUnanswered
<1>1. SlotInv => TimedOutIsUnanswered
  BY CallsAssumption DEF SlotInv, ClaimedIsOwed, DoneWasWaiting, Waits, TimedOutIsUnanswered
<1> QED BY <1>1, SlotInvariance, PTL

-----------------------------------------------------------------------------
(* The two locks.  ClientNeverStuck says that a step of the client is      *)
(* enabled; here it is stated by the guards of those steps.                *)

\* The guards of Register and Reclaim, of QueueWrite, WaitEnds and Unlock, and of SecondWaitEnds.
CallerMoves(i) ==
  \/ pc[i] \in {"begun", "timedout"} /\ pmu = "free"
  \/ pc[i] \in {"registered", "waiting", "woke"}
  \/ pc[i] = "rewait" /\ done[i]

\* No caller in the map holds its call->mu.
WakeMoves == \A i \in pending : pc[i] # "woke"

\* Those of ReconnectWakes, QueueSwap and SetConnected.
MainMoves ==
  \/ main = "wake" /\ pmu = "free"
  \/ main = "waking" /\ WakeMoves
  \/ main \in {"swap", "set"}

\* Those of ProcessBuffer, SetAnswer and IoWakes; an idle I/O thread is not needed.
IoMoves ==
  \/ io = "parse" /\ (Len(buf) < 2 \/ pmu = "free")
  \/ io = "answer" /\ pc[claimed.id] # "woke"
  \/ io = "wake" /\ pmu = "free"
  \/ io = "waking" /\ WakeMoves

NeverAllWait ==
  (\E i \in Calls : pc[i] \notin {"idle", "gaveup", "returned"}) =>
    IoMoves \/ MainMoves \/ \E i \in Calls : CallerMoves(i)

\* Who holds pending_mu over several steps is waking the callers.
Held ==
  /\ pmu \in {"free", "io", "main"}
  /\ pmu = "main" => main = "waking"
  /\ pmu = "io" => io = "waking"

\* pending_mu is taken and given back by wakeAllWithError() only.
LEMMA HeldNext == Held /\ [Next]_vars => Held'
<1> SUFFICES ASSUME Held, [Next]_vars PROVE Held'
  OBVIOUS
<1> USE DEF Held, client, server
<1>1. CASE \E i \in Calls : Refused(i) \/ Begin(i) \/ CallSteps(i)
  <2>1. UNCHANGED <<pmu, main, io>>
    BY <1>1 DEF Refused, Begin, CallSteps, Register, QueueWrite, WaitEnds, Unlock, Reclaim, ReclaimFrom,
       SecondWaitEnds, Finish, CallerStep
  <2> QED BY <2>1
<1>2. CASE \E c \in Cores : Reconnect(c) \/ CoreDies(c)
  BY <1>2 DEF Reconnect, CoreDies, MainQuiet
<1>3. CASE MainStep
  BY <1>3 DEF MainStep, ReconnectWakes, TakePending, WakeAll, QueueSwap, SetConnected, MainQuiet
<1>4. CASE IoStep
  <2>1. CASE RunWrite \/ RunSwap \/ OnReadyRead
    BY <2>1 DEF RunWrite, RunSwap, OnReadyRead, IoQuiet
  <2>2. CASE ProcessBuffer \/ SetAnswer
    BY <2>2 DEF ProcessBuffer, SetAnswer
  <2>3. CASE (\E c \in Cores : Disconnected(c)) \/ IoWakes
    BY <2>3 DEF Disconnected, IoWakes, TakePending, WakeAll
  <2> QED BY <1>4, <2>1, <2>2, <2>3 DEF IoStep
<1>5. CASE \E i \in Calls : Dispatch(i) \/ WriteHeader(i) \/ WriteData(i)
  BY <1>5 DEF Dispatch, WriteHeader, WriteData, ServerStep
<1>6. CASE Finished \/ UNCHANGED vars
  BY <1>6 DEF Finished, vars
<1> QED BY <1>1, <1>2, <1>3, <1>4, <1>5, <1>6 DEF Next

\* wakeAllWithError() holds pending_mu while it takes the callers' locks, and a caller never holds
\* its own when it asks for pending_mu (RPC.cpp:196): as long as a call is under way, the guard of a
\* step of its caller, of Reconnect() or of the I/O thread holds, for any number of calls and cores.
THEOREM ClientAlwaysMoves == Spec => []NeverAllWait
<1>1. Init => Held
  BY DEF Init, Held
<1>2. SlotInv /\ Held => NeverAllWait
  <2> SUFFICES ASSUME SlotInv, Held, NEW i \in Calls, pc[i] \notin {"idle", "gaveup", "returned"},
                      \A j \in Calls : ~CallerMoves(j), ~MainMoves
               PROVE  IoMoves
    BY DEF NeverAllWait
  <2>1. \A j \in pending : j \in Calls /\ pc[j] # "woke"
    BY DEF SlotInv, SlotTypes, CallerMoves
  <2>2. WakeMoves
    BY <2>1 DEF WakeMoves
  <2>3. CASE pc[i] \in {"begun", "timedout"}
    BY <2>2, <2>3 DEF Held, CallerMoves, MainMoves, IoMoves
  <2>4. CASE pc[i] = "rewait"
    <3>1. ~done[i] /\ claimed.id = i
      BY <2>4 DEF CallerMoves, SlotInv, SlotsMatch
    <3>2. io = "answer"
      BY <3>1, CallsAssumption DEF SlotInv, ClaimedIsOwed
    <3> QED BY <2>4, <3>1, <3>2 DEF IoMoves
  <2>5. pc[i] \notin {"registered", "waiting", "woke"}
    BY DEF CallerMoves
  <2> QED BY <2>3, <2>4, <2>5 DEF SlotInv, SlotTypes, Places, Waits
<1> QED BY <1>1, <1>2, SlotInvariance, HeldNext, PTL DEF Spec

-----------------------------------------------------------------------------
(* The chain from a caller's slot to the answer it is given, over the      *)
(* reader's claim, the frame it was cut from and the core that wrote it.   *)

Early == {"idle", "begun", "registered"}   \* the request is not queued yet

\* An answer is the one of the call's own execution.
Told ==
  /\ \A i \in Calls : answer[i].of # NoCall => answer[i].of = i /\ answer[i].status = exec[i]
  /\ claimed.id # NoCall => claimed.answer.of = claimed.id /\ claimed.answer.status = exec[claimed.id]

\* What core c has written and the client has not taken off its buffer is a row
\* of whole frames, the last one perhaps unfinished.
Stream(c) == IF sock = c THEN buf \o out[c] ELSE out[c]

OpenEnd(s) == Len(s) > 0 /\ s[Len(s)].part = "header"

Framed(s, c) ==
  /\ Aligned(s)
  /\ \A k \in 1..Len(s) : at[s[k].call] = c /\ s[k].status = exec[s[k].call]
  /\ \A i \in Calls : srv[i] = "writing" /\ at[i] = c => OpenEnd(s) /\ s[Len(s)].call = i
  /\ life[c] = "up" /\ OpenEnd(s) => srv[s[Len(s)].call] = "writing"

Streams ==
  /\ \A c \in Cores : sock <= c => Framed(Stream(c), c)
  /\ sock = NoSock => buf = <<>>

\* A request is executed once, by the core it reached.
Serving ==
  \A i \in Calls :
    /\ at[i] = NoSock => srv[i] = "none" /\ exec[i] = "no"
    /\ at[i] # NoSock => life[at[i]] # "none"
    /\ srv[i] # "none" => life[at[i]] = "up"
    /\ srv[i] = "received" => exec[i] = "no"
    /\ srv[i] \in {"executed", "writing", "answered"} => exec[i] # "no"
    /\ pc[i] \in Early \/ outcome[i] = "refused" => at[i] = NoSock

\* What the wrapper of Client has returned, against where Call() is.
Outcomes ==
  \A i \in Calls :
    /\ outcome[i] = "idle" <=> pc[i] = "idle"
    /\ outcome[i] = "open" <=> pc[i] \in {"begun", "rewait"} \cup Waits

\* A request is written at most once, and not before it is queued.
Queued ==
  /\ \A k \in 1..Len(ioq) : ioq[k].kind = "write" =>
       at[ioq[k].call] = NoSock /\ pc[ioq[k].call] \notin Early /\ outcome[ioq[k].call] # "refused"
  /\ \A j, k \in 1..Len(ioq) :
       j < k /\ ioq[j].kind = "write" /\ ioq[k].kind = "write" => ioq[j].call # ioq[k].call

\* The cores are started one after another, n is the newest; sockets are swapped
\* in their order.
Newer(n) ==
  /\ \A c \in Cores : (life[c] = "none" <=> n < c) /\ (life[c] = "up" => c = n)
  /\ sock <= n
  /\ \A k \in 1..Len(ioq) : ioq[k].kind = "swap" => sock < ioq[k].core /\ ioq[k].core <= n
  /\ \A j, k \in 1..Len(ioq) :
       j < k /\ ioq[j].kind = "swap" /\ ioq[k].kind = "swap" => ioq[j].core < ioq[k].core
  /\ main \in {"wake", "waking", "swap"} =>
       sock < n /\ \A k \in 1..Len(ioq) : ioq[k].kind = "swap" => ioq[k].core < n

Generations == \E n \in 0..NCores : Newer(n)

ChainInv == TypeOK /\ Told /\ Streams /\ Serving /\ Outcomes /\ Queued /\ Generations

-----------------------------------------------------------------------------
(* Sequences of fragments.                                                 *)

\* A fragment may follow an aligned row when it is the data its last header
\* waits for, or a header after whole frames.
LEMMA AlignedAppend ==
  ASSUME NEW s \in Seq(Fragments), NEW f \in Fragments, Aligned(s),
         Len(s) = 0 => f.part = "header",
         Len(s) > 0 /\ s[Len(s)].part = "header" => f.part = "data" /\ f.call = s[Len(s)].call,
         Len(s) > 0 /\ s[Len(s)].part = "data" => f.part = "header"
  PROVE  Aligned(Append(s, f))
<1> DEFINE t == Append(s, f)
<1>1. /\ t \in Seq(Fragments) /\ Len(t) = Len(s) + 1 /\ Len(s) \in Nat
      /\ \A k \in 1..Len(s) : t[k] = s[k]
      /\ t[Len(s) + 1] = f
  OBVIOUS
<1>2. \A k \in 1..Len(s) : s[k] \in Fragments
  OBVIOUS
<1> HIDE DEF t
<1> SUFFICES ASSUME NEW k \in 1..Len(t)
             PROVE  /\ k = 1 => t[k].part = "header"
                    /\ k < Len(t) => IF t[k].part = "header" THEN t[k + 1].part = "data" /\ t[k + 1].call = t[k].call
                                                              ELSE t[k + 1].part = "header"
  BY DEF Aligned, t
<1>3. CASE k < Len(s)
  BY <1>1, <1>3 DEF Aligned
<1>4. CASE k = Len(s)
  <2>1. s[k].part \in {"header", "data"} /\ t[k] = s[k] /\ t[k + 1] = f /\ Len(s) > 0
    BY <1>1, <1>2, <1>4 DEF Fragments
  <2>2. k = 1 => s[k].part = "header"
    BY <1>1, <1>4 DEF Aligned
  <2> QED BY <1>4, <2>1, <2>2
<1>5. CASE k = Len(s) + 1
  BY <1>1, <1>5
<1> QED BY <1>1, <1>3, <1>4, <1>5

\* What is left when the rest of a dead core's output is thrown away.
LEMMA AlignedPrefix ==
  ASSUME NEW s \in Seq(Fragments), NEW t \in Seq(Fragments), Aligned(s \o t)
  PROVE  Aligned(s)
<1> DEFINE u == s \o t
<1>1. Len(u) = Len(s) + Len(t) /\ Len(s) \in Nat /\ Len(t) \in Nat /\ \A k \in 1..Len(s) : u[k] = s[k]
  OBVIOUS
<1>2. Aligned(u)
  OBVIOUS
<1> HIDE DEF u
<1> QED BY <1>1, <1>2 DEF Aligned

\* Taking two fragments off a row shifts the others by two.
LEMMA ShiftTwo ==
  ASSUME NEW s \in Seq(Fragments), NEW t \in Seq(Fragments), NEW r \in Seq(Fragments),
         Len(s) = Len(r) + 2, \A k \in 1..Len(r) : r[k] = s[k + 2]
  PROVE  /\ r \o t \in Seq(Fragments)
         /\ Len(s \o t) = Len(r \o t) + 2
         /\ \A k \in 1..Len(r \o t) : (r \o t)[k] = (s \o t)[k + 2]
<1>1. /\ Len(s) \in Nat /\ Len(t) \in Nat /\ Len(r) \in Nat
      /\ Len(s \o t) = Len(s) + Len(t) /\ Len(r \o t) = Len(r) + Len(t) /\ r \o t \in Seq(Fragments)
  BY ConcatProperties, LenProperties
<1>2. /\ \A k \in 1..Len(r) + Len(t) : (r \o t)[k] = IF k <= Len(r) THEN r[k] ELSE t[k - Len(r)]
      /\ \A k \in 1..Len(s) + Len(t) : (s \o t)[k] = IF k <= Len(s) THEN s[k] ELSE t[k - Len(s)]
  BY ConcatProperties
<1>3. ASSUME NEW k \in 1..Len(r) + Len(t) PROVE (r \o t)[k] = (s \o t)[k + 2]
  <2>1. k + 2 \in 1..Len(s) + Len(t) /\ (k <= Len(r) <=> k + 2 <= Len(s)) /\ k - Len(r) = (k + 2) - Len(s)
    BY <1>1
  <2>2. CASE k <= Len(r)
    BY <1>1, <1>2, <2>1, <2>2
  <2>3. CASE ~(k <= Len(r))
    BY <1>2, <2>1, <2>3
  <2> QED BY <2>2, <2>3
<1> QED BY <1>1, <1>3

\* Taking two fragments off a row leaves the rest.
LEMMA DropTwo ==
  ASSUME NEW s \in Seq(Fragments), Len(s) >= 2
  PROVE  /\ Tail(Tail(s)) \in Seq(Fragments)
         /\ Len(s) = Len(Tail(Tail(s))) + 2
         /\ \A k \in 1..Len(Tail(Tail(s))) : Tail(Tail(s))[k] = s[k + 2]
<1>1. Len(s) \in Nat /\ s # <<>>
  BY LenProperties, EmptySeq
<1>2. Tail(s) \in Seq(Fragments) /\ Len(Tail(s)) = Len(s) - 1 /\ \A k \in 1..Len(s) - 1 : Tail(s)[k] = s[k + 1]
  BY <1>1, HeadTailProperties
<1>3. PICK p \in Seq(Fragments) : p = Tail(s)
  BY <1>2
<1>4. Len(p) = Len(s) - 1 /\ p # <<>> /\ \A k \in 1..Len(s) - 1 : p[k] = s[k + 1]
  <2>1. Len(p) = Len(s) - 1 /\ \A k \in 1..Len(s) - 1 : p[k] = s[k + 1]
    BY <1>2, <1>3
  <2>2. Len(p) # 0
    BY <1>1, <2>1
  <2>3. p # <<>>
    BY <2>2
  <2> QED BY <2>1, <2>3
<1>5. Tail(p) \in Seq(Fragments) /\ Len(Tail(p)) = Len(p) - 1 /\ \A k \in 1..Len(p) - 1 : Tail(p)[k] = p[k + 1]
  BY <1>4, HeadTailProperties
<1>6. \A k \in 1..Len(Tail(p)) : Tail(p)[k] = s[k + 2]
  BY <1>1, <1>4, <1>5
<1> QED BY <1>1, <1>3, <1>4, <1>5, <1>6

\* The first two fragments are a frame, and what follows them is aligned.
LEMMA AlignedDrop ==
  ASSUME NEW u \in Seq(Fragments), NEW w \in Seq(Fragments),
         Aligned(u), Len(u) = Len(w) + 2, \A k \in 1..Len(w) : w[k] = u[k + 2]
  PROVE  /\ u[1].part = "header" /\ u[2].part = "data" /\ u[2].call = u[1].call
         /\ Aligned(w)
<1>1. Len(w) \in Nat
  BY LenProperties
<1>2. u[1].part = "header" /\ u[2].part = "data" /\ u[2].call = u[1].call
  BY <1>1 DEF Aligned
<1>3. Len(w) > 0 => u[3].part = "header"
  BY <1>1, <1>2 DEF Aligned
<1>4. ASSUME NEW k \in 1..Len(w)
      PROVE  /\ k = 1 => w[k].part = "header"
             /\ k < Len(w) => IF w[k].part = "header" THEN w[k + 1].part = "data" /\ w[k + 1].call = w[k].call
                                                       ELSE w[k + 1].part = "header"
  <2>1. w[k] = u[k + 2] /\ k + 2 \in 1..Len(u)
    BY <1>1
  <2>2. k = 1 => w[k].part = "header"
    BY <1>1, <1>3, <2>1
  <2>3. ASSUME k < Len(w) PROVE w[k + 1] = u[(k + 2) + 1] /\ k + 2 < Len(u)
    <3>1. k + 1 \in 1..Len(w) /\ (k + 1) + 2 = (k + 2) + 1
      BY <1>1, <2>3
    <3> QED BY <1>1, <2>3, <3>1
  <2> QED BY <2>1, <2>2, <2>3 DEF Aligned
<1> QED BY <1>2, <1>4 DEF Aligned

-----------------------------------------------------------------------------
(* What a step leaves alone. *)

\* The parts of the chain depend on few variables each.
LEMMA ToldKept == ASSUME Told, UNCHANGED <<answer, claimed, exec>> PROVE Told'
BY DEF Told

\* The rows of fragments: the buffers, and what the frames are of.
LEMMA StreamsKept ==
  ASSUME Streams, UNCHANGED <<sock, buf, out, at, exec, srv, life>>
  PROVE  Streams'
BY DEF Streams, Stream, Framed, OpenEnd

\* The order of the cores: their lives, the socket and the queued swaps.
LEMMA GenerationsKept == ASSUME Generations, UNCHANGED <<life, sock, ioq, main>> PROVE Generations'
BY DEF Generations, Newer

\* Who serves a request: the cores, and how far its caller is.
LEMMA ServingKept == ASSUME Serving, UNCHANGED <<at, srv, exec, life, pc, outcome>> PROVE Serving'
BY DEF Serving

\* What callers were told depends on the callers alone.
LEMMA OutcomesKept == ASSUME Outcomes, UNCHANGED <<pc, outcome>> PROVE Outcomes'
BY DEF Outcomes

\* What is queued depends on the queue, on the callers and on what arrived.
LEMMA QueuedKept == ASSUME Queued, UNCHANGED <<ioq, at, pc, outcome>> PROVE Queued'
BY DEF Queued

\* The types of the variables a step may change, those of the slots apart.
Rest ==
  /\ connected \in BOOLEAN
  /\ pmu \in {"free", "io", "main"}
  /\ answer \in [Calls -> Answers]
  /\ outcome \in [Calls -> {"idle", "open", "refused", "failed", "ok", "error"}]
  /\ main \in {"idle", "wake", "waking", "swap", "set"}
  /\ ioq \in Seq(Messages)
  /\ io \in {"idle", "parse", "answer", "wake", "waking"}
  /\ claimed \in [id : Calls \cup {NoCall}, answer : Answers]
  /\ sock \in Cores \cup {NoSock}
  /\ buf \in Seq(Fragments)

RestOfCores ==
  /\ life \in [Cores -> {"none", "up", "dead"}]
  /\ unheard \subseteq Cores
  /\ out \in [Cores -> Seq(Fragments)]
  /\ at \in [Calls -> Cores \cup {NoSock}]
  /\ srv \in [Calls -> {"none", "received", "executed", "writing", "answered"}]
  /\ exec \in [Calls -> {"no", "ok", "error"}]

\* The types fall into these two groups and those of the slots.
LEMMA TypeParts == TypeOK <=> /\ Rest /\ RestOfCores
                              /\ pending \subseteq Calls
                              /\ pc \in [Calls -> Places]
                              /\ done \in [Calls -> BOOLEAN]
BY DEF TypeOK, Rest, RestOfCores, Places, Waits

\* After a step, the types of the slots come from SlotInv.
LEMMA TypeNext ==
  ASSUME SlotInv', Rest', RestOfCores'
  PROVE  TypeOK'
BY DEF SlotInv, SlotTypes, TypeOK, Rest, RestOfCores, Places, Waits

\* Cores are numbered by positive numbers.
LEMMA CoreNumbers ==
  ASSUME TypeOK
  PROVE  /\ sock \in Nat /\ NCores \in Nat /\ NoSock = 0 /\ NoSock \notin Cores
         /\ \A c \in Cores : c \in Nat /\ c >= 1 /\ c <= NCores
         /\ \A i \in Calls : at[i] \in Nat /\ at[i] \in Cores \cup {NoSock}
BY NCoresAssumption DEF TypeOK, Cores, NoSock

\* What core c has written and the client has not taken off is a row of fragments.
LEMMA StreamType ==
  ASSUME TypeOK, NEW c \in Cores
  PROVE  Stream(c) \in Seq(Fragments) /\ Len(Stream(c)) \in Nat
         /\ \A k \in 1..Len(Stream(c)) : Stream(c)[k] \in Fragments
<1>1. buf \in Seq(Fragments) /\ out[c] \in Seq(Fragments)
  BY DEF TypeOK
<1>2. buf \o out[c] \in Seq(Fragments)
  BY <1>1, ConcatProperties
<1>3. Stream(c) \in Seq(Fragments)
  BY <1>1, <1>2 DEF Stream
<1> QED BY <1>3, LenProperties, ElementOfSeq

-----------------------------------------------------------------------------
(* The steps of a caller leave the cores and what they have written alone. *)

CallerQuiet ==
  UNCHANGED <<connected, pmu, answer, main, io, claimed, sock, buf, unheard, life, out, at, srv, exec>>

\* A caller's step that queues nothing keeps the chain when what it tells its
\* caller agrees with where it goes.
LEMMA CallerKeeps ==
  ASSUME ChainInv, SlotInv', CallerQuiet, Outcomes',
         outcome' \in [Calls -> {"idle", "open", "refused", "failed", "ok", "error"}],
         \A i \in Calls : (pc'[i] \in Early => pc[i] \in Early) /\ (outcome'[i] = "refused" => outcome[i] = "refused" \/ pc[i] \in Early),
         UNCHANGED ioq
  PROVE  ChainInv'
<1> USE DEF ChainInv, CallerQuiet
<1>1. TypeOK'
  <2>1. Rest' /\ RestOfCores'
    BY TypeParts DEF Rest, RestOfCores
  <2> QED BY <2>1, TypeNext
<1>2. Told' /\ Streams' /\ Generations'
  BY ToldKept, StreamsKept, GenerationsKept
<1>3. Serving'
  BY DEF Serving
<1>4. Queued'
  <2>1. \A k \in 1..Len(ioq) : ioq[k].kind = "write" => ioq[k].call \in Calls
    <3>1. ioq \in Seq(Messages)
      BY DEF TypeOK
    <3>2. \A k \in 1..Len(ioq) : ioq[k] \in Messages
      BY <3>1, ElementOfSeq
    <3> QED BY <3>2 DEF Messages
  <2> QED BY <2>1 DEF Queued
<1> QED BY <1>1, <1>2, <1>3, <1>4

\* Registering, waiting, timing out, taking back the slot and returning.
LEMMA ChainCaller ==
  ASSUME ChainInv, SlotInv', NEW i \in Calls,
         Refused(i) \/ Begin(i) \/ Register(i) \/ WaitEnds(i) \/ Unlock(i) \/ Reclaim(i) \/ SecondWaitEnds(i)
  PROVE  ChainInv'
<1>0. /\ pc \in [Calls -> Places] /\ Outcomes
      /\ outcome \in [Calls -> {"idle", "open", "refused", "failed", "ok", "error"}]
  BY TypeParts DEF ChainInv, Rest
<1>1. \A r \in Results(i) : r \in {"failed", "ok", "error"}
  BY DEF ChainInv, TypeOK, Results, Answers
<1>2. CallerQuiet /\ ioq' = ioq
  BY DEF CallerQuiet, CallerStep, server, Refused, Begin, Register, WaitEnds, Unlock, Finish, Reclaim,
         ReclaimFrom, SecondWaitEnds
<1> DEFINE Good ==
      /\ Outcomes'
      /\ outcome' \in [Calls -> {"idle", "open", "refused", "failed", "ok", "error"}]
      /\ \A j \in Calls : /\ pc'[j] \in Early => pc[j] \in Early
                          /\ outcome'[j] = "refused" => outcome[j] = "refused" \/ pc[j] \in Early
<1>3. ASSUME NEW from \in {"woke", "rewait"}, Finish(i, from) PROVE Good
  <2>1. PICK r \in {"failed", "ok", "error"} : outcome' = [outcome EXCEPT ![i] = r]
    BY <1>1, <1>3 DEF Finish
  <2>2. pc[i] = from /\ pc' = [pc EXCEPT ![i] = "returned"]
    BY <1>3 DEF Finish, CallerStep
  <2> QED BY <1>0, <2>1, <2>2 DEF Outcomes, Waits, Early
<1>4. ASSUME Refused(i) PROVE Good
  BY <1>0, <1>4 DEF Refused, CallerStep, Outcomes, Waits, Early
<1>5. ASSUME Begin(i) PROVE Good
  BY <1>0, <1>5 DEF Begin, CallerStep, Outcomes, Waits, Early
<1>6. ASSUME Register(i) PROVE Good
  BY <1>0, <1>6 DEF Register, CallerStep, Outcomes, Waits, Early
<1>7. ASSUME WaitEnds(i) PROVE Good
  BY <1>0, <1>7 DEF WaitEnds, CallerStep, Outcomes, Waits, Early
<1>8. ASSUME Unlock(i) PROVE Good
  <2>1. ASSUME CallerStep(i, "woke", "timedout"), UNCHANGED outcome PROVE Good
    BY <1>0, <2>1 DEF CallerStep, Outcomes, Waits, Early
  <2> QED BY <1>3, <1>8, <2>1 DEF Unlock
<1>9. ASSUME Reclaim(i) PROVE Good
  BY <1>0, <1>9 DEF Reclaim, ReclaimFrom, CallerStep, Outcomes, Waits, Early
<1>10. ASSUME SecondWaitEnds(i) PROVE Good
  BY <1>3, <1>10 DEF SecondWaitEnds
<1>11. Good
  BY <1>4, <1>5, <1>6, <1>7, <1>8, <1>9, <1>10
<1> QED BY <1>2, <1>11, CallerKeeps

\* What is queued to the I/O thread.
LEMMA Messaged ==
  ASSUME TypeOK
  PROVE  /\ ioq \in Seq(Messages) /\ Len(ioq) \in Nat
         /\ \A k \in 1..Len(ioq) : /\ ioq[k] \in Messages /\ ioq[k].kind \in {"write", "swap"}
                                   /\ ioq[k].kind = "write" => ioq[k].call \in Calls
                                   /\ ioq[k].kind = "swap" => ioq[k].core \in Cores
<1>1. ioq \in Seq(Messages)
  BY DEF TypeOK
<1>2. \A k \in 1..Len(ioq) : ioq[k] \in Messages
  BY <1>1, ElementOfSeq
<1> QED BY <1>1, <1>2, LenProperties DEF Messages

\* A caller queues its request, which no core has seen.
LEMMA ChainQueueWrite ==
  ASSUME ChainInv, SlotInv', NEW i \in Calls, QueueWrite(i)
  PROVE  ChainInv'
<1> USE DEF ChainInv
<1>1. /\ pc[i] = "registered" /\ pc' = [pc EXCEPT ![i] = "waiting"] /\ ioq' = Append(ioq, Write(i))
      /\ outcome' = outcome /\ CallerQuiet
  BY DEF QueueWrite, CallerStep, CallerQuiet, server
<1>2. /\ pc \in [Calls -> Places] /\ Write(i) \in Messages /\ Write(i).kind = "write" /\ Write(i).call = i
  BY TypeParts DEF Write, Messages
<1>3. /\ ioq' \in Seq(Messages) /\ Len(ioq') = Len(ioq) + 1 /\ ioq'[Len(ioq) + 1] = Write(i)
      /\ \A k \in 1..Len(ioq) : ioq'[k] = ioq[k]
  BY <1>1, <1>2, Messaged, AppendProperties
<1>4. TypeOK'
  <2>1. Rest' /\ RestOfCores'
    BY <1>1, <1>3, TypeParts DEF Rest, RestOfCores, CallerQuiet
  <2> QED BY <2>1, TypeNext
<1>5. Told' /\ Streams'
  BY <1>1, ToldKept, StreamsKept DEF CallerQuiet
<1>6. outcome[i] = "open" /\ at[i] = NoSock
  BY <1>1 DEF Outcomes, Serving, Early, Waits
<1>7. Serving' /\ Outcomes'
  BY <1>1, <1>2, <1>6 DEF Serving, Outcomes, Early, Waits, CallerQuiet
<1>8. Queued'
  <2>1. \A k \in 1..Len(ioq) : ioq[k].kind = "write" => ioq[k].call # i
    BY <1>1 DEF Queued, Early
  <2>2. \A k \in 1..Len(ioq) : ioq'[k].kind = "write" =>
          at'[ioq'[k].call] = NoSock /\ pc'[ioq'[k].call] \notin Early /\ outcome'[ioq'[k].call] # "refused"
    BY <1>1, <1>2, <1>3, <2>1, Messaged DEF Queued, CallerQuiet
  <2>3. at'[i] = NoSock /\ pc'[i] \notin Early /\ outcome'[i] # "refused"
    BY <1>1, <1>2, <1>6 DEF CallerQuiet, Early
  <2>4. \A k \in 1..Len(ioq') : k \in 1..Len(ioq) \/ k = Len(ioq) + 1
    BY <1>3, Messaged
  <2>5. \A j, k \in 1..Len(ioq') :
          j < k /\ ioq'[j].kind = "write" /\ ioq'[k].kind = "write" => ioq'[j].call # ioq'[k].call
    <3> SUFFICES ASSUME NEW j \in 1..Len(ioq'), NEW k \in 1..Len(ioq'), j < k,
                        ioq'[j].kind = "write", ioq'[k].kind = "write"
                 PROVE  ioq'[j].call # ioq'[k].call
      OBVIOUS
    <3>1. j \in 1..Len(ioq)
      BY <1>3, Messaged
    <3>2. CASE k \in 1..Len(ioq)
      BY <1>3, <3>1, <3>2 DEF Queued
    <3>3. CASE k = Len(ioq) + 1
      BY <1>2, <1>3, <2>1, <3>1, <3>3
    <3> QED BY <2>4, <3>2, <3>3
  <2> QED BY <1>2, <1>3, <2>2, <2>3, <2>4, <2>5 DEF Queued
<1>9. Generations'
  <2>1. PICK n \in 0..NCores : Newer(n)
    BY DEF Generations
  <2>2. \A k \in 1..Len(ioq') : ioq'[k].kind = "swap" => k \in 1..Len(ioq)
    BY <1>2, <1>3, Messaged
  <2>3. Newer(n)'
    BY <1>1, <1>3, <2>1, <2>2 DEF Newer, CallerQuiet
  <2> QED BY <2>3 DEF Generations
<1> QED BY <1>4, <1>5, <1>7, <1>8, <1>9

-----------------------------------------------------------------------------
(* The main thread and wakeAllWithError().                                 *)

\* The newest core is the one the cores' order names.
LEMMA NewestIs == ASSUME TypeOK, NEW n \in 0..NCores, Newer(n) PROVE Newest = n
<1>1. \A c \in Cores : life[c] # "none" <=> c <= n
  BY CoreNumbers DEF Newer
<1>2. CASE n = 0
  <2>1. \A c \in Cores : ~(c <= n)
    BY <1>2, CoreNumbers
  <2> QED BY <1>1, <1>2, <2>1 DEF Newest, NoSock
<1>3. CASE n # 0
  <2>1. n \in Cores
    BY <1>3, NCoresAssumption DEF Cores
  <2> DEFINE P(c) == life[c] # "none" /\ \A d \in Cores : life[d] # "none" => d <= c
  <2>2. P(n)
    BY <1>1, <2>1, CoreNumbers
  <2>3. \A c \in Cores : P(c) => c = n
    BY <1>1, <2>1, CoreNumbers
  <2>4. Newest = CHOOSE c \in Cores : P(c)
    BY <2>1, <2>2 DEF Newest
  <2> HIDE DEF P
  <2> QED BY <2>1, <2>2, <2>3, <2>4
<1> QED BY <1>2, <1>3

\* Steps that move locks, flags and program counters of the two threads only.
Quiet ==
  UNCHANGED <<answer, claimed, exec, sock, buf, out, at, srv, life, pc, outcome, ioq, unheard>>

\* Such a step keeps the chain.
LEMMA QuietKeeps ==
  ASSUME ChainInv, SlotInv', Quiet, connected' \in BOOLEAN, pmu' \in {"free", "io", "main"},
         io' \in {"idle", "parse", "answer", "wake", "waking"},
         \/ main' = main
         \/ main' = "waking" /\ main = "wake"
         \/ main' = "swap" /\ main = "waking"
         \/ main' = "idle" /\ main = "set"
  PROVE  ChainInv'
<1> USE DEF ChainInv, Quiet
<1>1. TypeOK'
  <2>1. Rest' /\ RestOfCores'
    BY TypeParts DEF Rest, RestOfCores
  <2> QED BY <2>1, TypeNext
<1>2. Told' /\ Streams' /\ Serving' /\ Outcomes' /\ Queued'
  BY ToldKept, StreamsKept, ServingKept, OutcomesKept, QueuedKept
<1>3. Generations'
  <2>1. PICK n \in 0..NCores : Newer(n)
    BY DEF Generations
  <2>2. Newer(n)'
    BY <2>1 DEF Newer
  <2> QED BY <2>2 DEF Generations
<1> QED BY <1>1, <1>2, <1>3

\* The two threads' ways through wakeAllWithError(), and the end of Reconnect().
LEMMA ChainWake ==
  ASSUME ChainInv, SlotInv', ReconnectWakes \/ SetConnected \/ IoWakes
  PROVE  ChainInv'
<1>1. Quiet
  BY DEF Quiet, ReconnectWakes, SetConnected, IoWakes, TakePending, WakeAll, MainQuiet, server
<1>2. connected' \in BOOLEAN
  BY DEF ChainInv, TypeOK, ReconnectWakes, SetConnected, IoWakes, TakePending, WakeAll
<1>3. pmu' \in {"free", "io", "main"} /\ io' \in {"idle", "parse", "answer", "wake", "waking"}
  BY DEF ChainInv, TypeOK, ReconnectWakes, SetConnected, IoWakes, TakePending, WakeAll, MainQuiet
<1>4. \/ main' = main
      \/ main' = "waking" /\ main = "wake"
      \/ main' = "swap" /\ main = "waking"
      \/ main' = "idle" /\ main = "set"
  BY DEF ReconnectWakes, SetConnected, IoWakes, TakePending, WakeAll
<1> QED BY <1>1, <1>2, <1>3, <1>4, QuietKeeps

\* A core has connected: it has written nothing, and no request has reached it.
LEMMA ChainReconnect ==
  ASSUME ChainInv, SlotInv', NEW c \in Cores, Reconnect(c)
  PROVE  ChainInv'
<1> USE DEF ChainInv
<1>1. /\ main = "idle" /\ Newest = c - 1 /\ life' = [life EXCEPT ![c] = "up"]
      /\ connected' = FALSE /\ main' = "wake" /\ \A d \in Cores : life[d] # "up"
      /\ UNCHANGED <<pmu, pending, pc, done, answer, outcome, io, claimed, sock, buf, unheard, out, at, srv, exec, ioq>>
  BY DEF Reconnect, MainQuiet
<1>2. PICK n \in 0..NCores : Newer(n)
  BY DEF Generations
<1>3. c = n + 1 /\ n \in Nat /\ c \in 0..NCores
  BY <1>1, <1>2, NewestIs, NCoresAssumption, CoreNumbers
<1>4. life \in [Cores -> {"none", "up", "dead"}] /\ life[c] = "none"
  BY <1>2, <1>3 DEF TypeOK, Newer
<1>5. TypeOK'
  <2>1. RestOfCores'
    BY <1>1, <1>4, TypeParts DEF RestOfCores
  <2>2. Rest'
    BY <1>1, TypeParts DEF Rest
  <2> QED BY <2>1, <2>2, TypeNext
<1>6. Told' /\ Outcomes' /\ Queued'
  BY <1>1, ToldKept, OutcomesKept, QueuedKept
<1>7. \A i \in Calls : at[i] # c /\ srv[i] = "none"
  BY <1>1, <1>4, CoreNumbers DEF Serving
<1>8. Serving'
  BY <1>1, <1>4, <1>7, CoreNumbers DEF Serving
<1>9. Streams'
  <2>1. ASSUME NEW d \in Cores, sock <= d PROVE Framed(Stream(d), d)'
    <3>1. PICK s \in Seq(Fragments) : s = Stream(d) /\ Framed(s, d) /\ \A k \in 1..Len(s) : s[k] \in Fragments
      BY <2>1, StreamType DEF Streams
    <3>2. Stream(d)' = s
      BY <1>1, <3>1 DEF Stream
    <3>3. CASE d = c
      <4>1. \A k \in 1..Len(s) : FALSE
        BY <1>7, <3>1, <3>3 DEF Framed, Fragments
      <4>2. ~OpenEnd(s)
        BY <3>1, <4>1, LenProperties DEF OpenEnd
      <4> QED BY <1>1, <1>7, <3>1, <3>2, <4>2 DEF Framed, OpenEnd
    <3>4. CASE d # c
      <4>1. life'[d] = life[d]
        BY <1>1, <1>4, <3>4
      <4> QED BY <1>1, <3>1, <3>2, <4>1 DEF Framed, OpenEnd
    <3> QED BY <3>3, <3>4
  <2> QED BY <1>1, <2>1 DEF Streams
<1>10. Newer(c)'
  <2>1. \A d \in Cores : (life'[d] = "none" <=> c < d) /\ (life'[d] = "up" => d = c)
    BY <1>1, <1>2, <1>3, <1>4, CoreNumbers DEF Newer
  <2>2. /\ sock <= n /\ sock \in Nat
        /\ \A k \in 1..Len(ioq) : ioq[k].kind = "swap" =>
             sock < ioq[k].core /\ ioq[k].core <= n /\ ioq[k].core \in Nat
        /\ \A j, k \in 1..Len(ioq) :
             j < k /\ ioq[j].kind = "swap" /\ ioq[k].kind = "swap" => ioq[j].core < ioq[k].core
    <3>1. \A k \in 1..Len(ioq) : ioq[k].kind = "swap" => ioq[k].core \in Nat
      BY CoreNumbers, Messaged
    <3> QED BY <1>2, <3>1, CoreNumbers DEF Newer
  <2>3. ASSUME NEW m \in Nat, m <= n PROVE m < c /\ m <= c
    BY <1>3, <2>3
  <2>4. /\ sock < c /\ sock <= c
        /\ \A k \in 1..Len(ioq) : ioq[k].kind = "swap" => ioq[k].core < c /\ ioq[k].core <= c
    BY <2>2, <2>3
  <2> QED BY <1>1, <2>1, <2>2, <2>4 DEF Newer
<1> QED BY <1>3, <1>5, <1>6, <1>8, <1>9, <1>10 DEF Generations

\* The newest core's socket is queued behind the older ones.
LEMMA ChainQueueSwap ==
  ASSUME ChainInv, SlotInv', QueueSwap
  PROVE  ChainInv'
<1> USE DEF ChainInv
<1>1. PICK n \in 0..NCores : Newer(n)
  BY DEF Generations
<1>2. /\ main = "swap" /\ main' = "set" /\ ioq' = Append(ioq, Swap(n))
      /\ UNCHANGED <<connected, life, pmu, pending, pc, done, answer, outcome, io, claimed>>
      /\ UNCHANGED <<sock, buf, unheard, out, at, srv, exec>>
  BY <1>1, NewestIs DEF QueueSwap, MainQuiet
<1>3. sock < n /\ \A k \in 1..Len(ioq) : ioq[k].kind = "swap" => ioq[k].core < n
  BY <1>1, <1>2 DEF Newer
<1>4. n \in Cores
  BY <1>3, CoreNumbers DEF Cores
<1>5. Swap(n) \in Messages /\ Swap(n).kind = "swap" /\ Swap(n).core = n
  BY <1>4 DEF Swap, Messages
<1>6. /\ ioq' \in Seq(Messages) /\ Len(ioq') = Len(ioq) + 1 /\ ioq'[Len(ioq) + 1] = Swap(n)
      /\ \A k \in 1..Len(ioq) : ioq'[k] = ioq[k]
  BY <1>2, <1>5, Messaged, AppendProperties
<1>7. TypeOK'
  <2>1. Rest' /\ RestOfCores'
    BY <1>2, <1>6, TypeParts DEF Rest, RestOfCores
  <2> QED BY <2>1, TypeNext
<1>8. Told' /\ Streams' /\ Serving' /\ Outcomes'
  BY <1>2, ToldKept, StreamsKept, ServingKept, OutcomesKept
<1>9. \A k \in 1..Len(ioq') : k \in 1..Len(ioq) \/ (k = Len(ioq) + 1 /\ ioq'[k].kind = "swap" /\ ioq'[k].core = n)
  BY <1>5, <1>6, Messaged
<1>10. Queued'
  <2>1. \A k \in 1..Len(ioq') : ioq'[k].kind = "write" => k \in 1..Len(ioq) /\ ioq'[k] = ioq[k]
    BY <1>6, <1>9
  <2> QED BY <1>2, <2>1 DEF Queued
<1>11. Newer(n)'
  <2>1. \A k \in 1..Len(ioq') : ioq'[k].kind = "swap" => sock < ioq'[k].core /\ ioq'[k].core <= n
    BY <1>1, <1>3, <1>6, <1>9, CoreNumbers DEF Newer
  <2>2. ASSUME NEW j \in 1..Len(ioq'), NEW k \in 1..Len(ioq'), j < k, ioq'[j].kind = "swap", ioq'[k].kind = "swap"
        PROVE  ioq'[j].core < ioq'[k].core
    <3>1. j \in 1..Len(ioq) /\ ioq'[j] = ioq[j]
      BY <1>6, <2>2, Messaged
    <3>2. CASE k \in 1..Len(ioq)
      BY <1>1, <1>6, <2>2, <3>1, <3>2 DEF Newer
    <3>3. CASE k \notin 1..Len(ioq)
      BY <1>3, <1>9, <2>2, <3>1, <3>3
    <3> QED BY <3>2, <3>3
  <2> QED BY <1>1, <1>2, <2>1, <2>2 DEF Newer
<1> QED BY <1>7, <1>8, <1>10, <1>11 DEF Generations

-----------------------------------------------------------------------------
(* The I/O thread.                                                         *)

\* The oldest queued call is run.
LEMMA Ran ==
  ASSUME TypeOK, ioq # <<>>, ioq' = Tail(ioq)
  PROVE  /\ ioq' \in Seq(Messages) /\ Len(ioq) \in Nat /\ Len(ioq) >= 1 /\ Len(ioq') = Len(ioq) - 1
         /\ Head(ioq) = ioq[1] /\ 1 \in 1..Len(ioq)
         /\ \A k \in 1..Len(ioq') : k + 1 \in 1..Len(ioq) /\ 1 < k + 1 /\ ioq'[k] = ioq[k + 1]
<1>1. ioq' \in Seq(Messages) /\ Len(ioq') = Len(ioq) - 1 /\ \A k \in 1..Len(ioq') : ioq'[k] = ioq[k + 1]
  BY Messaged, HeadTailProperties
<1>2. Len(ioq) \in Nat \ {0} /\ Head(ioq) = ioq[1]
  BY Messaged, EmptySeq
<1> QED BY <1>1, <1>2

\* What is left in the queue keeps its order.
LEMMA QueueShift ==
  ASSUME ChainInv, ioq # <<>>, ioq' = Tail(ioq), UNCHANGED <<life, main>>,
         NEW n \in 0..NCores, Newer(n),
         \/ sock' = sock
         \/ ioq[1].kind = "swap" /\ sock' = ioq[1].core
  PROVE  Newer(n)'
<1> USE DEF ChainInv
<1>1. \A k \in 1..Len(ioq') : k + 1 \in 1..Len(ioq) /\ 1 < k + 1 /\ ioq'[k] = ioq[k + 1]
  BY Ran
<1>2. /\ \A k \in 1..Len(ioq) : ioq[k].kind = "swap" => sock < ioq[k].core /\ ioq[k].core <= n
      /\ \A j, k \in 1..Len(ioq) :
           j < k /\ ioq[j].kind = "swap" /\ ioq[k].kind = "swap" => ioq[j].core < ioq[k].core
      /\ main \in {"wake", "waking", "swap"} =>
           sock < n /\ \A k \in 1..Len(ioq) : ioq[k].kind = "swap" => ioq[k].core < n
      /\ \A c \in Cores : (life[c] = "none" <=> n < c) /\ (life[c] = "up" => c = n)
      /\ sock <= n
  BY DEF Newer
<1>3. 1 \in 1..Len(ioq)
  BY Ran
<1>4. \A k \in 1..Len(ioq') : ioq'[k].kind = "swap" => sock' < ioq'[k].core /\ ioq'[k].core <= n
  BY <1>1, <1>2, <1>3
<1>5. \A j, k \in 1..Len(ioq') :
        j < k /\ ioq'[j].kind = "swap" /\ ioq'[k].kind = "swap" => ioq'[j].core < ioq'[k].core
  <2>1. \A j, k \in 1..Len(ioq') : j < k => j + 1 < k + 1
    BY Ran
  <2> QED BY <1>1, <1>2, <2>1
<1>6. sock' <= n /\ (main \in {"wake", "waking", "swap"} => sock' < n)
  BY <1>2, <1>3
<1>7. main' \in {"wake", "waking", "swap"} =>
        sock' < n /\ \A k \in 1..Len(ioq') : ioq'[k].kind = "swap" => ioq'[k].core < n
  BY <1>1, <1>2, <1>6
<1> QED BY <1>2, <1>4, <1>5, <1>6, <1>7 DEF Newer

\* A request reaches the core behind the socket, or is dropped.
LEMMA ChainRunWrite ==
  ASSUME ChainInv, SlotInv', RunWrite
  PROVE  ChainInv'
<1> USE DEF ChainInv
<1> DEFINE i == Head(ioq).call
<1>1. /\ ioq # <<>> /\ Head(ioq).kind = "write" /\ ioq' = Tail(ioq)
      /\ \/ /\ sock # NoSock /\ life[sock] = "up"
            /\ at' = [at EXCEPT ![i] = sock] /\ srv' = [srv EXCEPT ![i] = "received"]
         \/ UNCHANGED <<at, srv>>
      /\ UNCHANGED <<io, sock, buf, unheard, out, connected, pmu, pending, pc, done>>
      /\ UNCHANGED <<answer, outcome, main, claimed, life, exec>>
  BY DEF RunWrite, IoQuiet
<1>2. /\ i \in Calls /\ at[i] = NoSock /\ pc[i] \notin Early /\ outcome[i] # "refused"
      /\ \A k \in 1..Len(ioq') : ioq'[k].kind = "write" => ioq'[k].call # i
  <2>1. Head(ioq) = ioq[1] /\ 1 \in 1..Len(ioq)
    BY <1>1, Ran
  <2>2. \A k \in 1..Len(ioq') : k + 1 \in 1..Len(ioq) /\ 1 < k + 1 /\ ioq'[k] = ioq[k + 1]
    BY <1>1, Ran
  <2> QED BY <1>1, <2>1, <2>2, Messaged DEF Queued
<1> HIDE DEF i
<1>3. srv[i] = "none" /\ exec[i] = "no"
  BY <1>2 DEF Serving
<1>4. at \in [Calls -> Cores \cup {NoSock}] /\ sock \in Cores \cup {NoSock}
      /\ srv \in [Calls -> {"none", "received", "executed", "writing", "answered"}]
  BY DEF TypeOK
<1>5. /\ at' \in [Calls -> Cores \cup {NoSock}]
      /\ srv' \in [Calls -> {"none", "received", "executed", "writing", "answered"}]
      /\ \A j \in Calls : j # i => at'[j] = at[j] /\ srv'[j] = srv[j]
      /\ \/ at'[i] = NoSock /\ srv'[i] = "none"
         \/ at'[i] = sock /\ sock # NoSock /\ life[sock] = "up" /\ srv'[i] = "received"
  BY <1>1, <1>2, <1>3, <1>4
<1>6. TypeOK'
  <2>1. RestOfCores'
    BY <1>1, <1>5, TypeParts DEF RestOfCores
  <2>2. Rest'
    BY <1>1, Ran, TypeParts DEF Rest
  <2> QED BY <2>1, <2>2, TypeNext
<1>7. Told' /\ Outcomes'
  BY <1>1, ToldKept, OutcomesKept
<1>8. Streams'
  <2>1. ASSUME NEW d \in Cores, sock <= d PROVE Framed(Stream(d), d)'
    <3>1. PICK s \in Seq(Fragments) : s = Stream(d) /\ Framed(s, d) /\ \A k \in 1..Len(s) : s[k] \in Fragments
      BY <2>1, StreamType DEF Streams
    <3>2. Stream(d)' = s
      BY <1>1, <3>1 DEF Stream
    <3>3. \A k \in 1..Len(s) : s[k].call # i /\ s[k].call \in Calls
      BY <1>2, <3>1, CoreNumbers DEF Framed, Fragments
    <3>4. OpenEnd(s) => Len(s) \in 1..Len(s)
      BY <3>1, LenProperties DEF OpenEnd
    <3>5. \A j \in Calls : srv'[j] = "writing" => j # i
      BY <1>5
    <3> QED BY <1>1, <1>5, <3>1, <3>2, <3>3, <3>4, <3>5 DEF Framed, OpenEnd
  <2> QED BY <1>1, <2>1 DEF Streams
<1>9. Serving'
  BY <1>1, <1>2, <1>3, <1>5 DEF Serving
<1>10. Queued'
  <2>1. \A k \in 1..Len(ioq') : k + 1 \in 1..Len(ioq) /\ ioq'[k] = ioq[k + 1]
    BY <1>1, Ran
  <2>2. \A j, k \in 1..Len(ioq') : j < k => j + 1 < k + 1
    BY <1>1, Ran
  <2>3. \A k \in 1..Len(ioq') : ioq'[k].kind = "write" => ioq'[k].call \in Calls
    BY <2>1, Messaged
  <2> QED BY <1>1, <1>2, <1>5, <2>1, <2>2, <2>3 DEF Queued
<1>11. Generations'
  BY <1>1, QueueShift DEF Generations
<1> QED BY <1>6, <1>7, <1>8, <1>9, <1>10, <1>11

\* The next core's socket replaces the old one, whose unread fragments go.
LEMMA ChainRunSwap ==
  ASSUME ChainInv, SlotInv', RunSwap
  PROVE  ChainInv'
<1> USE DEF ChainInv
<1> DEFINE c == Head(ioq).core
<1>1. /\ ioq # <<>> /\ Head(ioq).kind = "swap" /\ ioq' = Tail(ioq) /\ sock' = c
      /\ buf' = <<>> \o out[c] /\ out' = [out EXCEPT ![c] = <<>>] /\ io' = "parse"
      /\ UNCHANGED <<unheard, at, srv, connected, pmu, pending, pc, done, answer, outcome, main, claimed, life, exec>>
  BY DEF RunSwap, Reads, IoQuiet
<1>2. PICK n \in 0..NCores : Newer(n)
  BY DEF Generations
<1>3. c \in Cores /\ sock < c /\ Head(ioq) = ioq[1]
  BY <1>1, <1>2, Ran, Messaged DEF Newer
<1> HIDE DEF c
<1>4. out \in [Cores -> Seq(Fragments)] /\ out[c] \in Seq(Fragments) /\ buf' = out[c] /\ buf' \o <<>> = buf'
  <2>1. out \in [Cores -> Seq(Fragments)] /\ out[c] \in Seq(Fragments)
    BY <1>3 DEF TypeOK
  <2>2. <<>> \o out[c] = out[c] /\ out[c] \o <<>> = out[c]
    BY <2>1, ConcatEmptySeq
  <2> QED BY <1>1, <2>1, <2>2
<1>5. TypeOK'
  <2>1. RestOfCores'
    BY <1>1, <1>3, <1>4, EmptySeq, TypeParts DEF RestOfCores
  <2>2. Rest'
    BY <1>1, <1>3, <1>4, Ran, TypeParts DEF Rest
  <2> QED BY <2>1, <2>2, TypeNext
<1>6. Told' /\ Serving' /\ Outcomes'
  BY <1>1, ToldKept, ServingKept, OutcomesKept
<1>7. Streams'
  <2>1. ASSUME NEW d \in Cores, sock' <= d PROVE Framed(Stream(d), d)'
    <3>1. sock <= d /\ sock # d
      BY <1>1, <1>3, <2>1, CoreNumbers
    <3>2. Framed(Stream(d), d) /\ Stream(d) = out[d]
      BY <3>1 DEF Streams, Stream
    <3>3. Stream(d)' = out[d]
      BY <1>1, <1>3, <1>4, <2>1 DEF Stream
    <3> QED BY <1>1, <3>2, <3>3 DEF Framed, OpenEnd
  <2>2. sock' # NoSock
    BY <1>1, <1>3, CoreNumbers
  <2> QED BY <2>1, <2>2 DEF Streams
<1>8. Queued'
  <2>1. \A k \in 1..Len(ioq') : k + 1 \in 1..Len(ioq) /\ ioq'[k] = ioq[k + 1]
    BY <1>1, Ran
  <2>2. \A j, k \in 1..Len(ioq') : j < k => j + 1 < k + 1
    BY <1>1, Ran
  <2> QED BY <1>1, <2>1, <2>2 DEF Queued
<1>9. Generations'
  <2>1. ioq[1].kind = "swap" /\ sock' = ioq[1].core
    BY <1>1, <1>3 DEF c
  <2> QED BY <1>1, <1>2, <2>1, QueueShift DEF Generations
<1> QED BY <1>5, <1>6, <1>7, <1>8, <1>9

\* What has arrived moves from the socket to the buffer.
LEMMA ChainReadyRead ==
  ASSUME ChainInv, SlotInv', OnReadyRead
  PROVE  ChainInv'
<1> USE DEF ChainInv
<1>1. /\ sock # NoSock /\ buf' = buf \o out[sock] /\ out' = [out EXCEPT ![sock] = <<>>] /\ io' = "parse"
      /\ UNCHANGED <<ioq, sock, unheard, at, srv, connected, pmu, pending, pc, done, answer, outcome>>
      /\ UNCHANGED <<main, claimed, life, exec>>
  BY DEF OnReadyRead, Reads, IoQuiet
<1>2. sock \in Cores /\ out \in [Cores -> Seq(Fragments)] /\ out[sock] \in Seq(Fragments) /\ buf \in Seq(Fragments)
  BY <1>1 DEF TypeOK
<1>3. buf' \in Seq(Fragments) /\ buf' \o <<>> = buf'
  BY <1>1, <1>2, ConcatProperties, ConcatEmptySeq
<1>4. TypeOK'
  <2>1. RestOfCores'
    BY <1>1, <1>2, EmptySeq, TypeParts DEF RestOfCores
  <2>2. Rest'
    BY <1>1, <1>3, TypeParts DEF Rest
  <2> QED BY <2>1, <2>2, TypeNext
<1>5. Told' /\ Serving' /\ Outcomes' /\ Queued' /\ Generations'
  BY <1>1, ToldKept, ServingKept, OutcomesKept, QueuedKept, GenerationsKept
<1>6. Streams'
  <2>1. ASSUME NEW d \in Cores, sock <= d PROVE Framed(Stream(d), d)'
    <3>1. Stream(d)' = Stream(d)
      BY <1>1, <1>2, <1>3 DEF Stream
    <3> QED BY <1>1, <2>1, <3>1 DEF Streams, Framed, OpenEnd
  <2> QED BY <1>1, <2>1 DEF Streams
<1> QED BY <1>4, <1>5, <1>6

\* processBuffer() cuts a whole frame off the buffer: its header and its data
\* are of one call, and carry what the core did.
LEMMA ChainProcess ==
  ASSUME ChainInv, SlotInv', ProcessBuffer
  PROVE  ChainInv'
<1> USE DEF ChainInv
<1>1. UNCHANGED <<connected, pmu, pc, done, answer, outcome, main, ioq, sock, unheard, life, out, at, srv, exec>>
  BY DEF ProcessBuffer, server
<1>2. Serving' /\ Outcomes' /\ Queued' /\ Generations'
  BY <1>1, ServingKept, OutcomesKept, QueuedKept, GenerationsKept
<1>3. RestOfCores'
  BY <1>1, TypeParts DEF RestOfCores
<1>4. CASE Len(buf) < 2
  <2>1. io' = "idle" /\ UNCHANGED <<buf, claimed>>
    BY <1>4 DEF ProcessBuffer
  <2>2. Rest'
    BY <1>1, <2>1, TypeParts DEF Rest
  <2> QED BY <1>1, <1>2, <1>3, <2>1, <2>2, TypeNext, ToldKept, StreamsKept
<1>5. CASE ~(Len(buf) < 2)
  <2> DEFINE i == buf[1].call
             a == [status |-> buf[1].status, of |-> buf[2].call]
  <2>1. /\ buf' = Tail(Tail(buf))
        /\ \/ io' = "answer" /\ claimed' = [id |-> i, answer |-> a]
           \/ UNCHANGED <<io, claimed>>
    BY <1>5 DEF ProcessBuffer
  <2>2. buf \in Seq(Fragments) /\ Len(buf) \in Nat /\ Len(buf) >= 2
    BY <1>5, LenProperties DEF TypeOK
  <2>3. sock \in Cores
    <3>1. buf # <<>>
      BY <2>2
    <3> QED BY <3>1 DEF Streams, TypeOK
  <2>4. out[sock] \in Seq(Fragments)
    BY <2>3 DEF TypeOK
  <2>5. PICK r \in Seq(Fragments) : r = buf' /\ Len(buf) = Len(r) + 2 /\ \A k \in 1..Len(r) : r[k] = buf[k + 2]
    BY <2>1, <2>2, DropTwo
  <2>6. PICK u \in Seq(Fragments) : u = buf \o out[sock]
    BY <2>2, <2>4, ConcatProperties
  <2>7. PICK w \in Seq(Fragments) : /\ w = r \o out[sock]
                                    /\ Len(u) = Len(w) + 2 /\ \A k \in 1..Len(w) : w[k] = u[k + 2]
    <3>1. PICK s \in Seq(Fragments) : s = buf
      BY <2>2
    <3>2. PICK t \in Seq(Fragments) : t = out[sock]
      BY <2>4
    <3>3. Len(s) = Len(r) + 2 /\ \A k \in 1..Len(r) : r[k] = s[k + 2]
      BY <2>5, <3>1
    <3>4. /\ r \o t \in Seq(Fragments) /\ Len(s \o t) = Len(r \o t) + 2
          /\ \A k \in 1..Len(r \o t) : (r \o t)[k] = (s \o t)[k + 2]
      BY <3>3, ShiftTwo
    <3>5. u = s \o t
      BY <2>6, <3>1, <3>2
    <3>6. PICK x \in Seq(Fragments) : x = r \o t
      BY <3>4
    <3>7. Len(u) = Len(x) + 2 /\ \A k \in 1..Len(x) : x[k] = u[k + 2]
      BY <3>4, <3>5, <3>6
    <3> QED BY <3>2, <3>6, <3>7
  <2>8. Framed(u, sock) /\ Stream(sock) = u
    BY <2>3, <2>6, CoreNumbers DEF Streams, Stream
  <2>9. /\ u[1].part = "header" /\ u[2].part = "data" /\ u[2].call = u[1].call /\ Aligned(w)
    <3>1. Aligned(u)
      BY <2>8 DEF Framed
    <3> QED BY <2>7, <3>1, AlignedDrop
  <2>10. Len(w) \in Nat /\ u[1] \in Fragments /\ u[1] = buf[1] /\ u[2] = buf[2]
    <3>1. Len(w) \in Nat /\ 1 \in 1..Len(u)
      BY <2>7, LenProperties
    <3>2. u[1] \in Fragments
      BY <3>1, ElementOfSeq
    <3>3. \A k \in 1..Len(buf) + Len(out[sock]) : u[k] = IF k <= Len(buf) THEN buf[k] ELSE out[sock][k - Len(buf)]
      BY <2>2, <2>4, <2>6, ConcatProperties
    <3>4. Len(out[sock]) \in Nat
      BY <2>4, LenProperties
    <3> QED BY <2>2, <3>1, <3>2, <3>3, <3>4
  <2>11. i \in Calls /\ a.of = i /\ a.status = exec[i] /\ a \in Answers
    <3>1. u[1].status = exec[u[1].call]
      BY <2>7, <2>8, <2>10 DEF Framed
    <3>2. u[1].call \in Calls /\ u[1].status \in {"ok", "error"}
      BY <2>10 DEF Fragments
    <3> QED BY <2>9, <2>10, <3>1, <3>2 DEF Answers
  <2> HIDE DEF a, i
  <2>12. Rest'
    <3>1. claimed' \in [id : Calls \cup {NoCall}, answer : Answers] /\ io' \in {"idle", "parse", "answer", "wake", "waking"}
      BY <2>1, <2>11, TypeParts DEF Rest
    <3> QED BY <1>1, <2>5, <3>1, TypeParts DEF Rest
  <2>13. Told'
    BY <1>1, <2>1, <2>11 DEF Told
  <2>14. Framed(w, sock)'
    <3>1. \A k \in 1..Len(w) : at[w[k].call] = sock /\ w[k].status = exec[w[k].call]
      <4>1. \A k \in 1..Len(u) : at[u[k].call] = sock /\ u[k].status = exec[u[k].call]
        BY <2>8 DEF Framed
      <4>2. \A k \in 1..Len(w) : k + 2 \in 1..Len(u) /\ w[k] = u[k + 2]
        BY <2>7, <2>10
      <4> QED BY <4>1, <4>2
    <3>2. OpenEnd(u) => Len(w) > 0
      <4>1. Len(w) = 0 => Len(u) = 2
        BY <2>7, <2>10
      <4> QED BY <2>9, <2>10, <4>1 DEF OpenEnd
    <3>3. Len(w) > 0 => w[Len(w)] = u[Len(u)] /\ Len(u) > 0
      <4>1. Len(w) > 0 => Len(w) \in 1..Len(w) /\ Len(u) > 0
        BY <2>7, <2>10
      <4>2. Len(w) + 2 = Len(u) /\ \A k \in 1..Len(w) : w[k] = u[k + 2]
        BY <2>7
      <4> QED BY <4>1, <4>2
    <3>4. (OpenEnd(w) <=> OpenEnd(u)) /\ (OpenEnd(u) => w[Len(w)] = u[Len(u)])
      BY <3>2, <3>3 DEF OpenEnd
    <3> QED BY <1>1, <2>8, <2>9, <3>1, <3>4 DEF Framed, OpenEnd
  <2>15. Streams'
    <3>1. ASSUME NEW d \in Cores, sock <= d PROVE Framed(Stream(d), d)'
      <4>1. CASE d = sock
        <5>1. Stream(d)' = w
          BY <1>1, <2>5, <2>7, <4>1 DEF Stream
        <5> QED BY <1>1, <2>14, <4>1, <5>1 DEF Framed, OpenEnd
      <4>2. CASE d # sock
        <5>1. Stream(d)' = Stream(d)
          BY <1>1, <4>2 DEF Stream
        <5> QED BY <1>1, <3>1, <5>1 DEF Streams, Framed, OpenEnd
      <4> QED BY <4>1, <4>2
    <3> QED BY <1>1, <2>3, <3>1, CoreNumbers DEF Streams
  <2> QED BY <1>2, <1>3, <2>12, <2>13, <2>15, TypeNext
<1> QED BY <1>4, <1>5

\* The answer goes to the call whose slot was claimed.
LEMMA ChainAnswer ==
  ASSUME ChainInv, SlotInv', SetAnswer
  PROVE  ChainInv'
<1> USE DEF ChainInv
<1>1. /\ answer' = [answer EXCEPT ![claimed.id] = claimed.answer]
      /\ claimed' = [id |-> NoCall, answer |-> NoAnswer] /\ io' = "parse"
      /\ UNCHANGED <<connected, pmu, pending, pc, outcome, main, ioq, sock, buf, unheard, life, out, at, srv, exec>>
  BY DEF SetAnswer, server
<1>2. /\ answer \in [Calls -> Answers] /\ claimed.answer \in Answers /\ NoAnswer \in Answers
      /\ claimed.id \in Calls \cup {NoCall}
  BY DEF TypeOK, NoAnswer, Answers
<1>3. Rest'
  BY <1>1, <1>2, TypeParts DEF Rest
<1>4. RestOfCores'
  BY <1>1, TypeParts DEF RestOfCores
<1>5. Told'
  BY <1>1, <1>2, CallsAssumption DEF Told
<1>6. Streams' /\ Serving' /\ Outcomes' /\ Queued' /\ Generations'
  BY <1>1, StreamsKept, ServingKept, OutcomesKept, QueuedKept, GenerationsKept
<1> QED BY <1>3, <1>4, <1>5, <1>6, TypeNext

\* A dead core's socket closes: what was not read is lost.
LEMMA ChainDisconnected ==
  ASSUME ChainInv, SlotInv', NEW c \in Cores, Disconnected(c)
  PROVE  ChainInv'
<1> USE DEF ChainInv
<1>1. /\ life[c] = "dead" /\ unheard' = unheard \ {c} /\ out' = [out EXCEPT ![c] = <<>>]
      /\ UNCHANGED <<pmu, pending, pc, done, answer, outcome, main, ioq, claimed, sock, buf, life, at, srv, exec>>
      /\ io' \in {io, "wake"} /\ (connected' = FALSE \/ connected' = connected)
  BY DEF Disconnected
<1>2. connected' \in BOOLEAN
  BY <1>1 DEF TypeOK
<1>3. Rest'
  BY <1>1, <1>2, TypeParts DEF Rest
<1>4. RestOfCores'
  BY <1>1, EmptySeq, TypeParts DEF RestOfCores
<1>5. Told' /\ Serving' /\ Outcomes' /\ Queued' /\ Generations'
  BY <1>1, ToldKept, ServingKept, OutcomesKept, QueuedKept, GenerationsKept
<1>6. \A i \in Calls : srv[i] = "writing" => at[i] # c
  BY <1>1 DEF Serving
<1>7. Streams'
  <2>1. ASSUME NEW d \in Cores, sock <= d PROVE Framed(Stream(d), d)'
    <3>1. CASE d # c
      <4>1. Stream(d)' = Stream(d)
        BY <1>1, <3>1 DEF Stream, TypeOK
      <4> QED BY <1>1, <2>1, <4>1 DEF Streams, Framed, OpenEnd
    <3>2. CASE d = c
      <4>1. buf \in Seq(Fragments) /\ out[c] \in Seq(Fragments) /\ out'[c] = <<>>
        BY <1>1 DEF TypeOK
      <4>2. PICK s \in Seq(Fragments) : s = Stream(c) /\ Framed(s, c)
        BY <2>1, <3>2, StreamType DEF Streams
      <4>3. PICK p \in Seq(Fragments) : p = Stream(c)' /\ Aligned(p) /\ Len(p) <= Len(s) /\ \A k \in 1..Len(p) : p[k] = s[k]
        <5>1. CASE sock = c
          <6>1. Stream(c)' = buf /\ s = buf \o out[c]
            BY <1>1, <4>1, <4>2, <5>1, ConcatEmptySeq DEF Stream
          <6>2. Aligned(buf)
            BY <4>1, <4>2, <6>1, AlignedPrefix DEF Framed
          <6>3. /\ Len(s) = Len(buf) + Len(out[c]) /\ Len(out[c]) \in Nat /\ Len(buf) \in Nat
                /\ \A k \in 1..Len(buf) + Len(out[c]) : s[k] = IF k <= Len(buf) THEN buf[k] ELSE out[c][k - Len(buf)]
            BY <4>1, <6>1, ConcatProperties, LenProperties
          <6> QED BY <4>1, <6>1, <6>2, <6>3
        <5>2. CASE sock # c
          <6>1. Stream(c)' = <<>>
            BY <1>1, <4>1, <5>2 DEF Stream
          <6>2. Len(<<>>) = 0 /\ <<>> \in Seq(Fragments) /\ Len(s) \in Nat
            BY EmptySeq, LenProperties
          <6>3. PICK e \in Seq(Fragments) : e = <<>>
            BY <6>2
          <6>4. Len(e) = 0 /\ Len(e) <= Len(s) /\ \A k \in 1..Len(e) : FALSE
            BY <6>2, <6>3
          <6>5. Aligned(e)
            BY <6>4 DEF Aligned
          <6> QED BY <6>1, <6>3, <6>4, <6>5
        <5> QED BY <5>1, <5>2
      <4>4. \A k \in 1..Len(p) : at[p[k].call] = c /\ p[k].status = exec[p[k].call]
        <5>1. \A k \in 1..Len(p) : k \in 1..Len(s)
          BY <4>2, <4>3, LenProperties
        <5> QED BY <4>2, <4>3, <5>1 DEF Framed
      <4> QED BY <1>1, <1>6, <3>2, <4>3, <4>4 DEF Framed
    <3> QED BY <3>1, <3>2
  <2> QED BY <1>1, <2>1 DEF Streams
<1> QED BY <1>3, <1>4, <1>5, <1>7, TypeNext

-----------------------------------------------------------------------------
(* The cores.                                                              *)

\* A fragment a core writes ends up behind what it has written before.
LEMMA ConcatAppend ==
  ASSUME NEW s \in Seq(Fragments), NEW t \in Seq(Fragments), NEW f \in Fragments
  PROVE  s \o Append(t, f) = Append(s \o t, f)
<1>1. Append(t, f) = t \o <<f>> /\ <<f>> \in Seq(Fragments)
  BY AppendIsConcat
<1>2. s \o t \in Seq(Fragments)
  BY ConcatProperties
<1>3. Append(s \o t, f) = (s \o t) \o <<f>>
  BY <1>2, AppendIsConcat
<1>4. s \o (t \o <<f>>) = (s \o t) \o <<f>>
  BY <1>1, ConcatAssociative
<1> QED BY <1>1, <1>3, <1>4

\* Writing a fragment lengthens the row of the core that writes, and no other.
LEMMA StreamAppend ==
  ASSUME TypeOK, NEW c \in Cores, NEW f \in Fragments,
         out' = [out EXCEPT ![c] = Append(@, f)], UNCHANGED <<sock, buf>>
  PROVE  /\ out' \in [Cores -> Seq(Fragments)]
         /\ Stream(c)' = Append(Stream(c), f)
         /\ \A d \in Cores : d # c => Stream(d)' = Stream(d)
<1>1. out \in [Cores -> Seq(Fragments)] /\ buf \in Seq(Fragments) /\ out[c] \in Seq(Fragments)
  BY DEF TypeOK
<1>2. Append(out[c], f) \in Seq(Fragments)
  BY <1>1, AppendProperties
<1>3. out' \in [Cores -> Seq(Fragments)] /\ out'[c] = Append(out[c], f) /\ \A d \in Cores : d # c => out'[d] = out[d]
  BY <1>1, <1>2
<1>4. buf \o Append(out[c], f) = Append(buf \o out[c], f)
  BY <1>1, ConcatAppend
<1> QED BY <1>3, <1>4 DEF Stream

\* dispatch() runs a request that was not run before and not answered yet.
LEMMA ChainDispatch ==
  ASSUME ChainInv, SlotInv', NEW i \in Calls, Dispatch(i)
  PROVE  ChainInv'
<1> USE DEF ChainInv
<1>1. PICK r \in {"ok", "error"} : exec' = [exec EXCEPT ![i] = r]
  BY DEF Dispatch
<1>2. /\ srv[i] = "received" /\ srv' = [srv EXCEPT ![i] = "executed"]
      /\ UNCHANGED <<life, at, out, connected, pmu, pending, pc, done, answer, outcome, main, ioq, io>>
      /\ UNCHANGED <<claimed, sock, buf, unheard>>
  BY DEF Dispatch, ServerStep, client
<1>3. exec[i] = "no" /\ at[i] # NoSock
  BY <1>2 DEF Serving
<1>4. /\ srv \in [Calls -> {"none", "received", "executed", "writing", "answered"}]
      /\ exec \in [Calls -> {"no", "ok", "error"}]
  BY DEF TypeOK
<1>5. TypeOK'
  <2>1. RestOfCores'
    BY <1>1, <1>2, <1>4, TypeParts DEF RestOfCores
  <2>2. Rest'
    BY <1>2, TypeParts DEF Rest
  <2> QED BY <2>1, <2>2, TypeNext
<1>6. Outcomes' /\ Queued' /\ Generations'
  BY <1>2, OutcomesKept, QueuedKept, GenerationsKept
<1>7. Told'
  <2>1. \A j \in Calls : answer[j] \in Answers
    BY DEF TypeOK
  <2>2. claimed.answer \in Answers /\ claimed.id \in Calls \cup {NoCall}
    BY DEF TypeOK
  <2>3. \A a \in Answers : a.status # exec[i]
    BY <1>3 DEF Answers
  <2>4. \A j \in Calls : answer[j].of # NoCall => j # i
    BY <2>1, <2>3 DEF Told
  <2>5. claimed.id # NoCall => claimed.id # i
    BY <2>2, <2>3 DEF Told
  <2> QED BY <1>1, <1>2, <1>4, <2>2, <2>4, <2>5 DEF Told
<1>8. Serving'
  BY <1>1, <1>2, <1>3, <1>4 DEF Serving
<1>9. Streams'
  <2>1. ASSUME NEW d \in Cores, sock <= d PROVE Framed(Stream(d), d)'
    <3>1. PICK s \in Seq(Fragments) : s = Stream(d) /\ Framed(s, d) /\ \A k \in 1..Len(s) : s[k] \in Fragments
      BY <2>1, StreamType DEF Streams
    <3>2. Stream(d)' = s
      BY <1>2, <3>1 DEF Stream
    <3>3. \A k \in 1..Len(s) : s[k].call # i /\ s[k].call \in Calls
      BY <1>3, <3>1 DEF Framed, Fragments
    <3>4. OpenEnd(s) => Len(s) \in 1..Len(s)
      BY <3>1, LenProperties DEF OpenEnd
    <3>5. \A j \in Calls : j # i => srv'[j] = srv[j] /\ exec'[j] = exec[j]
      BY <1>1, <1>2, <1>4
    <3>6. srv'[i] # "writing"
      BY <1>2, <1>4
    <3> QED BY <1>2, <3>1, <3>2, <3>3, <3>4, <3>5, <3>6 DEF Framed, OpenEnd
  <2> QED BY <1>2, <2>1 DEF Streams
<1> QED BY <1>5, <1>6, <1>7, <1>8, <1>9

\* What the two halves of writeResponse() share.
LEMMA ChainWrite ==
  ASSUME ChainInv, SlotInv', NEW i \in Calls, NEW part \in {"header", "data"},
         NEW from \in {"executed", "writing"}, NEW to \in {"writing", "answered"},
         ServerStep(i, from, to), out' = [out EXCEPT ![at[i]] = Append(@, Frag(i, part))], UNCHANGED exec,
         part = "header" => to = "writing" /\ \A j \in Calls : at[j] = at[i] => srv[j] # "writing",
         part = "data" => from = "writing" /\ to = "answered"
  PROVE  ChainInv'
<1> USE DEF ChainInv
<1>1. /\ srv[i] = from /\ life[at[i]] = "up" /\ srv' = [srv EXCEPT ![i] = to]
      /\ UNCHANGED <<life, at, exec, connected, pmu, pending, pc, done, answer, outcome, main, ioq, io>>
      /\ UNCHANGED <<claimed, sock, buf, unheard>>
  BY DEF ServerStep, client
<1>2. PICK c \in Cores : c = at[i] /\ exec[i] \in {"ok", "error"} /\ life[c] = "up"
  <2>1. at[i] # NoSock /\ exec[i] # "no"
    BY <1>1 DEF Serving
  <2> QED BY <1>1, <2>1 DEF TypeOK
<1>3. PICK f \in Fragments : f = Frag(i, part) /\ f.part = part /\ f.call = i /\ f.status = exec[i]
  BY <1>2 DEF Frag, Fragments
<1>4. srv \in [Calls -> {"none", "received", "executed", "writing", "answered"}]
  BY DEF TypeOK
<1>5. /\ out' \in [Cores -> Seq(Fragments)]
      /\ Stream(c)' = Append(Stream(c), f)
      /\ \A d \in Cores : d # c => Stream(d)' = Stream(d)
  <2>1. out' = [out EXCEPT ![c] = Append(@, f)] /\ UNCHANGED <<sock, buf>>
    BY <1>1, <1>2, <1>3
  <2> QED BY <2>1, StreamAppend
<1>6. TypeOK'
  <2>1. RestOfCores'
    BY <1>1, <1>4, <1>5, TypeParts DEF RestOfCores
  <2>2. Rest'
    BY <1>1, TypeParts DEF Rest
  <2> QED BY <2>1, <2>2, TypeNext
<1>7. Told' /\ Outcomes' /\ Queued' /\ Generations'
  BY <1>1, ToldKept, OutcomesKept, QueuedKept, GenerationsKept
<1>8. Serving'
  BY <1>1, <1>2, <1>4 DEF Serving
<1>9. \A j \in Calls : j # i => srv'[j] = srv[j]
  BY <1>1, <1>4
<1>10. srv'[i] = to
  BY <1>1, <1>4
<1>11. ASSUME NEW d \in Cores, sock <= d PROVE Framed(Stream(d), d)'
  <2>1. PICK s \in Seq(Fragments) : s = Stream(d) /\ Framed(s, d) /\ Len(s) \in Nat /\ \A k \in 1..Len(s) : s[k] \in Fragments
    BY <1>11, StreamType DEF Streams
  <2>2. OpenEnd(s) => Len(s) \in 1..Len(s) /\ s[Len(s)].call \in Calls /\ at[s[Len(s)].call] = d
    <3>1. OpenEnd(s) => Len(s) \in 1..Len(s)
      BY <2>1 DEF OpenEnd
    <3> QED BY <2>1, <3>1 DEF Framed, Fragments
  <2>3. CASE d # c
    <3>1. Stream(d)' = s
      BY <1>5, <2>1, <2>3
    <3>2. \A j \in Calls : at[j] = d => srv'[j] = srv[j]
      BY <1>2, <1>9, <2>3
    <3> QED BY <1>1, <2>1, <2>2, <3>1, <3>2 DEF Framed, OpenEnd
  <2>4. CASE d = c
    <3>1. \A j \in Calls : srv[j] = "writing" /\ at[j] = c => OpenEnd(s) /\ s[Len(s)].call = j
      BY <2>1, <2>4 DEF Framed
    <3>2. OpenEnd(s) => srv[s[Len(s)].call] = "writing"
      BY <1>2, <2>1, <2>4 DEF Framed
    <3>3. part = "header" => ~OpenEnd(s)
      BY <1>2, <2>2, <2>4, <3>2
    <3>4. part = "data" => OpenEnd(s) /\ s[Len(s)].call = i
      BY <1>2, <1>1, <3>1
    <3>5. PICK t \in Seq(Fragments) : t = Append(s, f) /\ Len(t) = Len(s) + 1 /\ t[Len(s) + 1] = f
                                      /\ \A k \in 1..Len(s) : t[k] = s[k]
      <4>1. /\ Append(s, f) \in Seq(Fragments) /\ Len(Append(s, f)) = Len(s) + 1 /\ Append(s, f)[Len(s) + 1] = f
            /\ \A k \in 1..Len(s) : Append(s, f)[k] = s[k]
        BY AppendProperties
      <4> QED BY <4>1
    <3>6. Aligned(t)
      <4>1. Aligned(s)
        BY <2>1 DEF Framed
      <4>2. Len(s) = 0 => f.part = "header"
        BY <1>3, <3>4 DEF OpenEnd
      <4>3. Len(s) > 0 /\ s[Len(s)].part = "header" => f.part = "data" /\ f.call = s[Len(s)].call
        BY <1>3, <3>3, <3>4 DEF OpenEnd
      <4>4. Len(s) > 0 /\ s[Len(s)].part = "data" => f.part = "header"
        BY <1>3, <3>4 DEF OpenEnd
      <4> QED BY <1>3, <3>5, <4>1, <4>2, <4>3, <4>4, AlignedAppend
    <3>7. \A k \in 1..Len(t) : at[t[k].call] = c /\ t[k].status = exec[t[k].call]
      <4>1. \A k \in 1..Len(t) : k \in 1..Len(s) \/ k = Len(s) + 1
        BY <2>1, <3>5
      <4>2. \A k \in 1..Len(s) : at[s[k].call] = c /\ s[k].status = exec[s[k].call]
        BY <2>1, <2>4 DEF Framed
      <4> QED BY <1>2, <1>3, <3>5, <4>1, <4>2
    <3>8. OpenEnd(t) <=> part = "header"
      BY <1>3, <2>1, <3>5 DEF OpenEnd
    <3>9. t[Len(t)].call = i
      BY <1>3, <3>5
    <3>10. \A j \in Calls : srv'[j] = "writing" /\ at[j] = c => part = "header" /\ j = i
      <4>1. \A j \in Calls : j # i /\ at[j] = c => srv[j] # "writing"
        BY <1>2, <3>1, <3>4
      <4> QED BY <1>9, <1>10, <4>1
    <3>11. part = "header" => srv'[i] = "writing"
      BY <1>10
    <3>12. Stream(d)' = t
      BY <1>5, <2>1, <2>4, <3>5
    <3> QED BY <1>1, <2>4, <3>6, <3>7, <3>8, <3>9, <3>10, <3>11, <3>12 DEF Framed, OpenEnd
  <2> QED BY <2>3, <2>4
<1>12. Streams'
  BY <1>1, <1>11 DEF Streams
<1> QED BY <1>6, <1>7, <1>8, <1>12

\* A core dies: its goroutines with it, what it has written stays readable.
LEMMA ChainCoreDies ==
  ASSUME ChainInv, SlotInv', NEW c \in Cores, CoreDies(c)
  PROVE  ChainInv'
<1> USE DEF ChainInv
<1>1. /\ life[c] = "up" /\ life' = [life EXCEPT ![c] = "dead"]
      /\ srv' = [i \in Calls |-> IF at[i] = c THEN "none" ELSE srv[i]]
      /\ UNCHANGED <<at, out, exec, connected, pmu, pending, pc, done, answer, outcome, main, ioq, io>>
      /\ UNCHANGED <<claimed, sock, buf, unheard>>
  BY DEF CoreDies, client
<1>2. /\ life \in [Cores -> {"none", "up", "dead"}]
      /\ srv \in [Calls -> {"none", "received", "executed", "writing", "answered"}]
  BY DEF TypeOK
<1>3. TypeOK'
  <2>1. RestOfCores'
    BY <1>1, <1>2, TypeParts DEF RestOfCores
  <2>2. Rest'
    BY <1>1, TypeParts DEF Rest
  <2> QED BY <2>1, <2>2, TypeNext
<1>4. Told' /\ Outcomes' /\ Queued'
  BY <1>1, ToldKept, OutcomesKept, QueuedKept
<1>5. Serving'
  <2>1. \A i \in Calls : srv'[i] = (IF at[i] = c THEN "none" ELSE srv[i])
    BY <1>1
  <2>2. \A d \in Cores : d # c => life'[d] = life[d]
    BY <1>1, <1>2
  <2>3. life'[c] = "dead"
    BY <1>1, <1>2
  <2>4. \A i \in Calls : at[i] # NoSock => at[i] \in Cores
    BY DEF TypeOK
  <2> QED BY <1>1, <2>1, <2>2, <2>3, <2>4 DEF Serving
<1>6. Streams'
  <2>1. ASSUME NEW d \in Cores, sock <= d PROVE Framed(Stream(d), d)'
    <3>1. PICK s \in Seq(Fragments) : s = Stream(d) /\ Framed(s, d) /\ \A k \in 1..Len(s) : s[k] \in Fragments
      BY <2>1, StreamType DEF Streams
    <3>2. Stream(d)' = s
      BY <1>1, <3>1 DEF Stream
    <3>3. OpenEnd(s) => Len(s) \in 1..Len(s) /\ s[Len(s)].call \in Calls /\ at[s[Len(s)].call] = d
      <4>1. OpenEnd(s) => Len(s) \in 1..Len(s)
        BY <3>1, LenProperties DEF OpenEnd
      <4> QED BY <3>1, <4>1 DEF Framed, Fragments
    <3>4. CASE d = c
      <4>1. life'[d] # "up" /\ \A j \in Calls : at[j] = d => srv'[j] # "writing"
        BY <1>1, <1>2, <3>4
      <4> QED BY <1>1, <3>1, <3>2, <4>1 DEF Framed
    <3>5. CASE d # c
      <4>1. life'[d] = life[d] /\ \A j \in Calls : at[j] = d => srv'[j] = srv[j]
        BY <1>1, <1>2, <3>5
      <4> QED BY <1>1, <3>1, <3>2, <3>3, <4>1 DEF Framed, OpenEnd
    <3> QED BY <3>4, <3>5
  <2> QED BY <1>1, <2>1 DEF Streams
<1>7. Generations'
  <2>1. PICK n \in 0..NCores : Newer(n)
    BY DEF Generations
  <2>2. \A d \in Cores : (life'[d] = "none" <=> n < d) /\ (life'[d] = "up" => d = n)
    <3>1. \A d \in Cores : (life'[d] = "none" <=> life[d] = "none") /\ (life'[d] = "up" => life[d] = "up")
      BY <1>1, <1>2
    <3> QED BY <2>1, <3>1 DEF Newer
  <2>3. Newer(n)'
    BY <1>1, <2>1, <2>2 DEF Newer
  <2> QED BY <2>3 DEF Generations
<1> QED BY <1>3, <1>4, <1>5, <1>6, <1>7

-----------------------------------------------------------------------------
(* The invariant of the chain.                                             *)

\* Nothing has been asked, written or connected at the start.
LEMMA ChainInit == Init => ChainInv
<1> SUFFICES ASSUME Init PROVE ChainInv
  OBVIOUS
<1>1. <<>> \in Seq(Fragments) /\ <<>> \in Seq(Messages) /\ Len(<<>>) = 0
  BY EmptySeq
<1>2. NoAnswer \in Answers /\ NoAnswer.of = NoCall
  BY DEF NoAnswer, Answers
<1>3. TypeOK
  <2>1. Rest
    BY <1>1, <1>2 DEF Init, Rest
  <2>2. RestOfCores
    BY <1>1 DEF Init, RestOfCores
  <2>3. pending \subseteq Calls /\ pc \in [Calls -> Places] /\ done \in [Calls -> BOOLEAN]
    BY DEF Init, Places
  <2> QED BY <2>1, <2>2, <2>3, TypeParts
<1>4. Told
  BY <1>2 DEF Init, Told
<1>5. \A k \in 1..Len(ioq) : FALSE
  BY <1>1 DEF Init
<1>6. Queued
  BY <1>5 DEF Queued
<1>7. Serving /\ Outcomes
  BY DEF Init, Serving, Outcomes, Early, Waits
<1>8. Streams
  <2>1. ASSUME NEW c \in Cores PROVE Framed(Stream(c), c)
    <3>1. sock # c /\ out[c] = <<>>
      BY <1>3, CoreNumbers DEF Init
    <3>2. PICK e \in Seq(Fragments) : e = <<>> /\ Len(e) = 0
      BY <1>1
    <3>3. Stream(c) = e /\ \A k \in 1..Len(e) : FALSE
      BY <3>1, <3>2 DEF Stream
    <3>4. Aligned(e) /\ ~OpenEnd(e)
      BY <3>2, <3>3 DEF Aligned, OpenEnd
    <3>5. \A i \in Calls : srv[i] # "writing"
      BY DEF Init
    <3> QED BY <3>3, <3>4, <3>5 DEF Framed
  <2> QED BY <2>1 DEF Init, Streams
<1>9. Newer(0)
  <2>1. \A c \in Cores : life[c] = "none" /\ 0 < c
    BY <1>3, CoreNumbers DEF Init
  <2>2. sock = 0 /\ main = "idle"
    BY DEF Init, NoSock
  <2> QED BY <1>5, <2>1, <2>2 DEF Newer
<1>10. Generations
  BY <1>9, NCoresAssumption DEF Generations
<1> QED BY <1>3, <1>4, <1>6, <1>7, <1>8, <1>10 DEF ChainInv

\* Every step of every thread and of the cores keeps the chain.
LEMMA ChainNext == ChainInv /\ SlotInv /\ [Next]_vars => ChainInv'
<1> SUFFICES ASSUME ChainInv, SlotInv, [Next]_vars PROVE ChainInv'
  OBVIOUS
<1>0. SlotInv'
  BY SlotNext
<1>1. CASE \E i \in Calls : Refused(i) \/ Begin(i) \/ CallSteps(i)
  BY <1>0, <1>1, ChainCaller, ChainQueueWrite DEF CallSteps
<1>2. CASE \E c \in Cores : Reconnect(c) \/ CoreDies(c)
  BY <1>0, <1>2, ChainReconnect, ChainCoreDies
<1>3. CASE MainStep
  BY <1>0, <1>3, ChainWake, ChainQueueSwap DEF MainStep
<1>4. CASE IoStep
  BY <1>0, <1>4, ChainRunWrite, ChainRunSwap, ChainReadyRead, ChainProcess, ChainAnswer, ChainDisconnected, ChainWake
  DEF IoStep
<1>5. CASE \E i \in Calls : Dispatch(i) \/ WriteHeader(i) \/ WriteData(i)
  <2> SUFFICES ASSUME NEW i \in Calls, Dispatch(i) \/ WriteHeader(i) \/ WriteData(i) PROVE ChainInv'
    BY <1>5
  <2>1. CASE WriteHeader(i)
    <3>1. /\ ServerStep(i, "executed", "writing") /\ out' = [out EXCEPT ![at[i]] = Append(@, Frag(i, "header"))]
          /\ UNCHANGED exec /\ \A j \in Calls : at[j] = at[i] => srv[j] # "writing"
      BY <2>1 DEF WriteHeader
    <3> QED BY <1>0, <3>1, ChainWrite
  <2>2. CASE WriteData(i)
    <3>1. /\ ServerStep(i, "writing", "answered") /\ out' = [out EXCEPT ![at[i]] = Append(@, Frag(i, "data"))]
          /\ UNCHANGED exec
      BY <2>2 DEF WriteData
    <3> QED BY <1>0, <3>1, ChainWrite
  <2> QED BY <1>0, <2>1, <2>2, ChainDispatch
<1>6. CASE Finished \/ UNCHANGED vars
  <2>1. Quiet /\ UNCHANGED <<connected, pmu, io, main>>
    BY <1>6 DEF Finished, vars, client, server, Quiet
  <2>2. connected \in BOOLEAN /\ pmu \in {"free", "io", "main"} /\ io \in {"idle", "parse", "answer", "wake", "waking"}
    BY DEF ChainInv, TypeOK
  <2> QED BY <1>0, <2>1, <2>2, QuietKeeps
<1> QED BY <1>1, <1>2, <1>3, <1>4, <1>5, <1>6 DEF Next

\* The chain holds of every behaviour of the channel.
THEOREM ChainInvariance == Spec => [](SlotInv /\ ChainInv)
  BY SlotInit, SlotNext, ChainInit, ChainNext, PTL DEF Spec

\* The types of every variable, those of the buffers and the cores included.
THEOREM TypeInvariance == Spec => []TypeOK
<1>1. ChainInv => TypeOK
  BY DEF ChainInv
<1> QED BY <1>1, ChainInvariance, PTL

\* What the reader has in its buffer are whole frames of the current core,
\* whatever a dead core left unfinished and however the answers were written.
THEOREM FramesAlwaysAligned == Spec => []FramesAligned
<1>1. ASSUME ChainInv PROVE FramesAligned
  <2> USE <1>1 DEF ChainInv
  <2>1. CASE sock = NoSock
    <3>1. buf = <<>> /\ Len(<<>>) = 0
      BY <2>1 DEF Streams
    <3>2. \A k \in 1..Len(buf) : FALSE
      BY <3>1
    <3> QED BY <3>2 DEF FramesAligned, Aligned
  <2>2. CASE sock # NoSock
    <3>1. sock \in Cores /\ buf \in Seq(Fragments)
      BY <2>2 DEF TypeOK
    <3>2. out[sock] \in Seq(Fragments)
      BY <3>1 DEF TypeOK
    <3>3. PICK s \in Seq(Fragments) : s = buf \o out[sock] /\ Framed(s, sock)
      <4>1. Framed(Stream(sock), sock)
        BY <3>1, CoreNumbers DEF Streams
      <4> QED BY <3>1, <4>1, StreamType DEF Stream
    <3>4. Aligned(buf)
      BY <3>1, <3>2, <3>3, AlignedPrefix DEF Framed
    <3>5. \A k \in 1..Len(buf) : k \in 1..Len(s) /\ s[k] = buf[k]
      <4>1. /\ Len(s) = Len(buf) + Len(out[sock]) /\ Len(buf) \in Nat /\ Len(out[sock]) \in Nat
            /\ \A k \in 1..Len(buf) + Len(out[sock]) : s[k] = IF k <= Len(buf) THEN buf[k] ELSE out[sock][k - Len(buf)]
        BY <3>1, <3>2, <3>3, ConcatProperties, LenProperties
      <4> QED BY <4>1
    <3> QED BY <3>3, <3>4, <3>5 DEF FramesAligned, Framed
  <2> QED BY <2>1, <2>2
<1> QED BY <1>1, ChainInvariance, PTL

-----------------------------------------------------------------------------
(* The channel implements RemoteCall: a step of the channel is one step of *)
(* the contract, or none.                                                  *)

Payload == [i \in Calls |-> IF outcome[i] \in {"ok", "error"} THEN answer[i].of ELSE NoCall]

\* Whose answer a caller was given does not change once it has returned.
LEMMA PayloadKept ==
  ASSUME UNCHANGED outcome, \A i \in Calls : outcome[i] \in {"ok", "error"} => answer'[i] = answer[i]
  PROVE  Payload' = Payload
BY DEF Payload

\* A call that returns, with its own answer or without one.
LEMMA FinishImplements ==
  ASSUME ChainInv, NEW i \in Calls, NEW from \in {"woke", "rewait"}, Finish(i, from)
  PROVE  RC!Answer(i) \/ RC!Fail(i)
<1> USE DEF ChainInv
<1>1. PICK r \in Results(i) : outcome' = [outcome EXCEPT ![i] = r]
  BY DEF Finish
<1>2. pc[i] = from /\ UNCHANGED <<answer, exec>>
  BY DEF Finish, CallerStep, server
<1>3. outcome[i] = "open"
  BY <1>2 DEF Outcomes, Waits
<1>4. /\ outcome \in [Calls -> {"idle", "open", "refused", "failed", "ok", "error"}]
      /\ answer[i] \in Answers /\ exec[i] \in {"no", "ok", "error"}
  BY DEF TypeOK
<1>5. CASE r = "failed"
  <2>1. Payload' = Payload
    BY <1>1, <1>2, <1>3, <1>4, <1>5 DEF Payload
  <2> QED BY <1>1, <1>2, <1>3, <1>5, <2>1 DEF RC!Fail, Payload
<1>6. CASE r # "failed"
  <2>1. answer[i].of = i /\ r = exec[i] /\ r \in {"ok", "error"}
    BY <1>4, <1>6 DEF Results, Told, Answers
  <2>2. Payload' = [Payload EXCEPT ![i] = i]
    BY <1>1, <1>2, <1>3, <1>4, <2>1 DEF Payload
  <2> QED BY <1>1, <1>2, <1>3, <2>1, <2>2 DEF RC!Answer, Payload
<1> QED BY <1>5, <1>6

\* A caller's step: the call begins, is refused, fails or returns.
LEMMA CallerImplements ==
  ASSUME ChainInv, NEW i \in Calls, Refused(i) \/ Begin(i) \/ CallSteps(i)
  PROVE  RC!Begin(i) \/ RC!Refuse(i) \/ RC!Answer(i) \/ RC!Fail(i) \/ UNCHANGED RC!vars
<1> USE DEF ChainInv
<1>0. /\ UNCHANGED <<answer, exec>>
      /\ outcome \in [Calls -> {"idle", "open", "refused", "failed", "ok", "error"}]
  BY DEF CallSteps, Refused, Begin, Register, QueueWrite, WaitEnds, Unlock, Finish, Reclaim, ReclaimFrom,
         SecondWaitEnds, CallerStep, server, TypeOK
<1>1. ASSUME NEW r \in {"open", "refused", "failed"}, outcome' = [outcome EXCEPT ![i] = r], outcome[i] \in {"idle", "open"}
      PROVE  Payload' = Payload
  BY <1>0, <1>1 DEF Payload
<1>2. CASE Refused(i)
  <2>1. outcome' = [outcome EXCEPT ![i] = "refused"] /\ outcome[i] = "idle"
    BY <1>2 DEF Refused, CallerStep, Outcomes
  <2> QED BY <1>0, <1>1, <2>1 DEF RC!Refuse, Payload
<1>3. CASE Begin(i)
  <2>1. outcome' = [outcome EXCEPT ![i] = "open"] /\ outcome[i] = "idle"
    BY <1>3 DEF Begin, CallerStep, Outcomes
  <2> QED BY <1>0, <1>1, <2>1 DEF RC!Begin, Payload
<1>4. ASSUME UNCHANGED outcome PROVE UNCHANGED RC!vars
  BY <1>0, <1>4, PayloadKept DEF RC!vars, Payload
<1>5. CASE Register(i) \/ QueueWrite(i) \/ WaitEnds(i)
  BY <1>4, <1>5 DEF Register, QueueWrite, WaitEnds
<1>6. CASE Unlock(i)
  BY <1>4, <1>6, FinishImplements DEF Unlock
<1>7. CASE SecondWaitEnds(i)
  BY <1>7, FinishImplements DEF SecondWaitEnds
<1>8. CASE Reclaim(i)
  <2>1. CASE i \in pending
    <3>1. outcome' = [outcome EXCEPT ![i] = "failed"] /\ outcome[i] = "open"
      BY <1>8, <2>1 DEF Reclaim, ReclaimFrom, CallerStep, Outcomes, Waits
    <3> QED BY <1>0, <1>1, <3>1 DEF RC!Fail, Payload
  <2>2. CASE i \notin pending
    BY <1>4, <1>8, <2>2 DEF Reclaim, ReclaimFrom
  <2> QED BY <2>1, <2>2
<1> QED BY <1>2, <1>3, <1>5, <1>6, <1>7, <1>8 DEF CallSteps

\* Every step of the channel is a step of the contract or leaves it alone.
LEMMA StepImplements == ChainInv /\ SlotInv /\ [Next]_vars => [RC!Next]_(RC!vars)
<1> SUFFICES ASSUME ChainInv, SlotInv, [Next]_vars PROVE [RC!Next]_(RC!vars)
  OBVIOUS
<1>0. ASSUME UNCHANGED <<outcome, exec>>,
             \A i \in Calls : outcome[i] \in {"ok", "error"} => answer'[i] = answer[i]
      PROVE  UNCHANGED RC!vars
  BY <1>0, PayloadKept DEF RC!vars, Payload
<1>1. CASE \E i \in Calls : Refused(i) \/ Begin(i) \/ CallSteps(i)
  BY <1>1, CallerImplements DEF RC!Next
<1>2. CASE \E c \in Cores : Reconnect(c) \/ CoreDies(c)
  BY <1>0, <1>2 DEF Reconnect, CoreDies, MainQuiet, client
<1>3. CASE MainStep
  BY <1>0, <1>3 DEF MainStep, ReconnectWakes, QueueSwap, SetConnected, TakePending, WakeAll, MainQuiet, server
<1>4. CASE IoStep
  <2>1. CASE SetAnswer
    <3>1. answer' = [answer EXCEPT ![claimed.id] = claimed.answer] /\ UNCHANGED <<outcome, exec>> /\ io = "answer"
      BY <2>1 DEF SetAnswer, server
    <3>2. claimed.id \in Calls => outcome[claimed.id] = "open"
      BY CallsAssumption DEF ChainInv, SlotInv, ClaimedIsOwed, Outcomes
    <3>3. answer \in [Calls -> Answers]
      BY DEF ChainInv, TypeOK
    <3> QED BY <1>0, <3>1, <3>2, <3>3
  <2>2. CASE RunWrite \/ RunSwap \/ OnReadyRead \/ ProcessBuffer
    BY <1>0, <2>2 DEF RunWrite, RunSwap, OnReadyRead, ProcessBuffer, IoQuiet, server
  <2>3. CASE (\E c \in Cores : Disconnected(c)) \/ IoWakes
    BY <1>0, <2>3 DEF Disconnected, IoWakes, TakePending, WakeAll, server
  <2> QED BY <1>4, <2>1, <2>2, <2>3 DEF IoStep
<1>5. CASE \E i \in Calls : Dispatch(i) \/ WriteHeader(i) \/ WriteData(i)
  <2> SUFFICES ASSUME NEW i \in Calls, Dispatch(i) \/ WriteHeader(i) \/ WriteData(i) PROVE [RC!Next]_(RC!vars)
    BY <1>5
  <2>1. CASE Dispatch(i)
    <3>1. /\ srv[i] = "received" /\ UNCHANGED <<outcome, answer>>
          /\ \E r \in {"ok", "error"} : exec' = [exec EXCEPT ![i] = r]
      BY <2>1 DEF Dispatch, ServerStep, client
    <3>2. exec[i] = "no" /\ outcome[i] \notin {"idle", "refused"}
      BY <3>1 DEF ChainInv, Serving, Outcomes, Early
    <3>3. Payload' = Payload
      BY <3>1, PayloadKept
    <3> QED BY <3>1, <3>2, <3>3 DEF RC!Next, RC!Execute, Payload
  <2>2. CASE WriteHeader(i) \/ WriteData(i)
    BY <1>0, <2>2 DEF WriteHeader, WriteData, ServerStep, client
  <2> QED BY <2>1, <2>2
<1>6. CASE Finished \/ UNCHANGED vars
  BY <1>0, <1>6 DEF Finished, vars, client, server
<1> QED BY <1>1, <1>2, <1>3, <1>4, <1>5, <1>6 DEF Next

\* The channel keeps the contract of a call, for any number of calls and cores:
\* refused means never executed, executed at most once, and the answer a caller
\* is given is the one of its own execution.
THEOREM ChannelImplements == Spec => ImplementsRemoteCall
<1>1. Init => RC!Init
  BY DEF Init, RC!Init
<1> QED BY <1>1, ChainInvariance, StepImplements, PTL DEF Spec, ImplementsRemoteCall, RC!Spec

=============================================================================
