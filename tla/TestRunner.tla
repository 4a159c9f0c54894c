----------------------------- MODULE TestRunner -----------------------------
(***************************************************************************)
(* Test sessions: TestRunner of src/src/engine/tests/TestRunner.cpp and    *)
(* the core's side of a latency test (src/core/internal/rpc/urltest.go,    *)
(* src/core/internal/probe/probe.go).                                      *)
(*                                                                         *)
(* A session works through its profiles in batches.  Every batch is one    *)
(* RPC Test, answered when the whole batch is done; meanwhile a poller     *)
(* drains the results the core has published so far.  A poller is not      *)
(* joined: it may sit in its RPC when its batch, or its session, is over.  *)
(* Tags start again in every batch, so a result is known only by the       *)
(* generation it is drained under.                                         *)
(*                                                                         *)
(* A batch is named <<run, number>>.  The tagged probe of a batch is       *)
(* modelled; the probes of full configurations have no tags and ignore     *)
(* what they drain.  An IP test is a latency test with a buffer of its own *)
(* and without the clearing at the end; a speed test holds the session and *)
(* moves the generation in the same way, once per probe.                   *)
(***************************************************************************)
EXTENDS Naturals, FiniteSets

CONSTANTS
  Runs,        \* requests for a session
  NBatches,    \* [Runs -> batches of its session]
  Tags,        \* outbound tags of a batch
  MaxStops,    \* bound: calls of stop()
  NoRun

ASSUME RunnerAssumption == NBatches \in [Runs -> Nat] /\ MaxStops \in Nat /\ NoRun \notin Runs

Batches == UNION {{r} \X (1..NBatches[r]) : r \in Runs}

VARIABLES
  session,     \* session_: the run that holds it, or NoRun
  sessionGen,  \* sessionGen_
  stopRequested,
  place,       \* [Runs -> where the run is]
  batch,       \* [Runs -> batches begun]
  finished,    \* [Runs -> calls of onFinished]
  cleared,     \* runs that posted RemoveUnavailable()
  poller,      \* [Batches -> [pc, gen, hand, stop]]: TestRunnerResultPoller
  cancelling,  \* stop() is on its way to the core
  stops,       \* calls of stop() so far
  job,         \* the Test the core runs: [of, cancelled, left], of = NoRun when idle
  reporter,    \* URLReporter: published results, each the batch and the tag
  stopped,     \* history: runs that held the session when stop() was called
  erased,      \* history: runs that reset the flag of such a stop()
  after        \* history: [Runs -> Tests begun as a stopped run]

runnerVars == <<session, sessionGen, stopRequested, place, batch, finished, cleared, poller,
                cancelling, stops, job, reporter, stopped, erased, after>>

NoJob == [of |-> NoRun, cancelled |-> FALSE, left |-> {}]
Off == [pc |-> "off", gen |-> 0, hand |-> {}, stop |-> FALSE]

RunnerInit ==
  /\ session = NoRun /\ sessionGen = 0 /\ stopRequested = FALSE
  /\ place = [r \in Runs |-> "idle"]
  /\ batch = [r \in Runs |-> 0]
  /\ finished = [r \in Runs |-> 0] /\ cleared = {}
  /\ poller = [b \in Batches |-> Off]
  /\ cancelling = FALSE /\ stops = 0
  /\ job = NoJob /\ reporter = {}
  /\ stopped = {} /\ erased = {} /\ after = [r \in Runs |-> 0]

Core == <<job, reporter>>
Stopping == <<cancelling, stops, stopped, erased>>
Moves(r, from, to) == place[r] = from /\ place' = [place EXCEPT ![r] = to]

-----------------------------------------------------------------------------
(* The session.                                                            *)

TakeSession(r) == session = NoRun /\ session' = r

\* runUrlTests(), runIpTests(), runSpeedTests(): refused while a session runs
Run(r) ==
  /\ \/ TakeSession(r) /\ Moves(r, "idle", "locked") /\ UNCHANGED finished
     \/ /\ session # NoRun /\ Moves(r, "idle", "done")
        /\ finished' = [finished EXCEPT ![r] = @ + 1]
        /\ UNCHANGED session
  /\ UNCHANGED <<sessionGen, stopRequested, batch, cleared, poller, after, Core, Stopping>>

\* a request without profiles
RunNothing(r) ==
  /\ Moves(r, "idle", "done")
  /\ finished' = [finished EXCEPT ![r] = @ + 1]
  /\ UNCHANGED <<session, sessionGen, stopRequested, batch, cleared, poller, after, Core, Stopping>>

\* mutant: the flag is reset when the request is made, not when it has the session
MutQueueResets(r) ==
  /\ Moves(r, "idle", "queued") /\ stopRequested' = FALSE
  /\ UNCHANGED <<session, sessionGen, batch, finished, cleared, poller, after, Core, Stopping>>

\* queueUrlTests(): a thread that waits for the session
Queue(r) ==
  /\ Moves(r, "idle", "queued")
  /\ UNCHANGED <<session, sessionGen, stopRequested, batch, finished, cleared, poller, after, Core, Stopping>>

Queued(r) ==
  /\ TakeSession(r) /\ Moves(r, "queued", "locked")
  /\ UNCHANGED <<sessionGen, stopRequested, batch, finished, cleared, poller, after, Core, Stopping>>

\* with the session, on the thread of the caller (a worker's, for a queued
\* request and for the ranking): the generation moves,
MoveGen(r) ==
  /\ Moves(r, "locked", "moved")
  /\ sessionGen' = sessionGen + 1
  /\ UNCHANGED <<session, stopRequested, batch, finished, cleared, poller, after, Core, Stopping>>

\* then the flag is reset, and with it a stop() that came since the lock
ResetStop(r) ==
  /\ Moves(r, "moved", "loop")
  /\ stopRequested' = FALSE
  /\ stopped' = stopped \ {r} /\ erased' = erased \cup ({r} \cap stopped)
  /\ UNCHANGED <<session, sessionGen, batch, finished, cleared, poller, after, Core, cancelling, stops>>

\* the loop over the slices and the head of runBatch(): the generation moves
\* before the config is built, which may fail
NextBatch(r) ==
  /\ ~stopRequested /\ batch[r] < NBatches[r]
  /\ batch' = [batch EXCEPT ![r] = @ + 1]
  /\ sessionGen' = sessionGen + 1
  /\ place[r] = "loop"
  /\ \E to \in {"probe", "loop"} : place' = [place EXCEPT ![r] = to]
  /\ UNCHANGED <<session, stopRequested, finished, cleared, poller, after, Core, Stopping>>

\* runUrlProbe(): aborted, or the poller starts and the request goes out
Probe(r) ==
  /\ IF stopRequested
     THEN Moves(r, "probe", "loop") /\ UNCHANGED poller
     ELSE /\ Moves(r, "probe", "call")
          /\ poller' = [poller EXCEPT ![<<r, batch[r]>>] =
                          [pc |-> "sleep", gen |-> sessionGen, hand |-> {}, stop |-> FALSE]]
  /\ UNCHANGED <<session, sessionGen, stopRequested, batch, finished, cleared, after, Core, Stopping>>

\* the RPC reaches the core, which takes the armed context of that moment
CallTest(r) ==
  /\ Moves(r, "call", "rpc")
  /\ job' = [of |-> <<r, batch[r]>>, cancelled |-> FALSE, left |-> Tags]
  /\ after' = IF r \in stopped THEN [after EXCEPT ![r] = @ + 1] ELSE after
  /\ UNCHANGED <<session, sessionGen, stopRequested, batch, finished, cleared, poller, reporter, Stopping>>

\* the poller's destructor: a flag the poll thread reads between its ticks
StopPoller(b) ==
  poller' = [poller EXCEPT ![b] = IF @.pc \in {"sleep", "off"} THEN Off ELSE [poller[b] EXCEPT !.stop = TRUE]]

\* the answer: results still buffered are reclaimed, the list is applied
TestReturns(r) ==
  /\ job.of = <<r, batch[r]>> /\ job.left = {}
  /\ Moves(r, "rpc", "loop")
  /\ reporter' = {x \in reporter : x.of # job.of}
  /\ job' = NoJob
  /\ StopPoller(<<r, batch[r]>>)
  /\ UNCHANGED <<session, sessionGen, stopRequested, batch, finished, cleared, after, Stopping>>

\* the call fails: the core is gone, and its buffers with it (its deadline is the
\* worst case of the batch, testRunnerBatchRpcTimeoutMs, and does not pass first)
TestFails(r) ==
  /\ Moves(r, "rpc", "loop")
  /\ reporter' = {} /\ job' = NoJob
  /\ StopPoller(<<r, batch[r]>>)
  /\ UNCHANGED <<session, sessionGen, stopRequested, batch, finished, cleared, after, Stopping>>

LoopEnds(r) ==
  /\ stopRequested \/ batch[r] = NBatches[r]
  /\ Moves(r, "loop", "unlocked")
  /\ session' = NoRun
  /\ UNCHANGED <<sessionGen, stopRequested, batch, finished, cleared, poller, after, Core, Stopping>>

\* mutant: a run that was stopped does not report
MutFinishUnlessStopped(r) ==
  /\ Moves(r, "unlocked", "clearing")
  /\ finished' = IF stopRequested THEN finished ELSE [finished EXCEPT ![r] = @ + 1]
  /\ UNCHANGED <<session, sessionGen, stopRequested, batch, cleared, poller, after, Core, Stopping>>

Finish(r) ==
  /\ Moves(r, "unlocked", "clearing")
  /\ finished' = [finished EXCEPT ![r] = @ + 1]
  /\ UNCHANGED <<session, sessionGen, stopRequested, batch, cleared, poller, after, Core, Stopping>>

\* auto_clear_unavailable, after the session was given up
Clear(r) ==
  /\ Moves(r, "clearing", "done")
  /\ cleared' = IF ~stopRequested /\ batch[r] > 0 THEN cleared \cup {r} ELSE cleared
  /\ UNCHANGED <<session, sessionGen, stopRequested, batch, finished, poller, after, Core, Stopping>>

RunStep(r) ==
  \/ Queued(r) \/ MoveGen(r) \/ ResetStop(r) \/ NextBatch(r) \/ Probe(r) \/ CallTest(r)
  \/ TestReturns(r) \/ TestFails(r) \/ LoopEnds(r) \/ Finish(r) \/ Clear(r)

-----------------------------------------------------------------------------
(* stop(), and the core's side of it.                                      *)

Stop ==
  /\ stops < MaxStops /\ ~cancelling
  /\ stops' = stops + 1
  /\ stopRequested' = TRUE /\ cancelling' = TRUE
  /\ stopped' = IF session = NoRun THEN stopped ELSE stopped \cup {session}
  /\ UNCHANGED <<session, sessionGen, place, batch, finished, cleared, poller, erased, after, Core>>

\* CancelTests(): the context is cancelled and a fresh one armed, so a Test
\* that comes later is not touched
StopTest ==
  /\ cancelling
  /\ cancelling' = FALSE
  /\ job' = [job EXCEPT !.cancelled = job.of # NoRun]
  /\ UNCHANGED <<session, sessionGen, stopRequested, place, batch, finished, cleared, poller,
                 stops, reporter, stopped, erased, after>>

\* one tag of runBatch(): measured and published; once the context is cancelled
\* a tag that had not begun is not published, one that had is, as an error
Measure ==
  /\ \E t \in job.left :
       /\ job' = [job EXCEPT !.left = @ \ {t}]
       /\ \/ reporter' = reporter \cup {[of |-> job.of, tag |-> t]}
          \/ job.cancelled /\ UNCHANGED reporter
  /\ UNCHANGED <<session, sessionGen, stopRequested, place, batch, finished, cleared, poller,
                 Stopping, after>>

-----------------------------------------------------------------------------
(* A tick of the poller of batch b.                                        *)

Polls(b, from, p) ==
  /\ poller[b].pc = from
  /\ poller' = [poller EXCEPT ![b] = p]
  /\ UNCHANGED <<session, sessionGen, stopRequested, place, batch, finished, cleared, after, Stopping, job>>

Asleep(b) == IF poller[b].stop THEN Off ELSE [poller[b] EXCEPT !.pc = "sleep", !.hand = {}]

PollBegins(b) ==
  /\ poller[b].gen = sessionGen
  /\ Polls(b, "sleep", [poller[b] EXCEPT !.pc = "query"])
  /\ UNCHANGED reporter

\* QueryURLTest: the core hands out what is buffered and forgets it
PollQueries(b) ==
  /\ Polls(b, "query", [poller[b] EXCEPT !.pc = "answered", !.hand = reporter])
  /\ reporter' = {}

\* mutant: the generation is not looked at again
MutPollAccepts(b) ==
  /\ Polls(b, "answered", IF poller[b].hand # {} THEN [poller[b] EXCEPT !.pc = "apply"] ELSE Asleep(b))
  /\ UNCHANGED reporter

\* the second look at the generation
PollAccepts(b) ==
  /\ Polls(b, "answered", IF poller[b].gen = sessionGen /\ poller[b].hand # {}
                          THEN [poller[b] EXCEPT !.pc = "apply"] ELSE Asleep(b))
  /\ UNCHANGED reporter

\* applyUrlResult() for every result, looked up in tag2entID of the batch
PollApplies(b) ==
  /\ Polls(b, "apply", Asleep(b))
  /\ UNCHANGED reporter

PollStep(b) == PollBegins(b) \/ PollQueries(b) \/ PollAccepts(b) \/ PollApplies(b)

-----------------------------------------------------------------------------
AllDone ==
  /\ \A r \in Runs : place[r] = "done"
  /\ UNCHANGED runnerVars

RunnerNext ==
  \/ \E r \in Runs : Run(r) \/ RunNothing(r) \/ Queue(r) \/ RunStep(r)
  \/ Stop \/ StopTest \/ Measure
  \/ \E b \in Batches : PollStep(b)
  \/ AllDone

\* The worker threads run and the core answers (the deadline of a Test covers
\* its worst case); pollers and stop() promise nothing.
RunnerFairness ==
  /\ \A r \in Runs : WF_runnerVars(RunStep(r))
  /\ WF_runnerVars(Measure)

RunnerSpec == RunnerInit /\ [][RunnerNext]_runnerVars /\ RunnerFairness

-----------------------------------------------------------------------------
\* A poll that is about to store results holds only results of its own batch,
\* so each goes to the profile that was measured: it may have sat in its RPC
\* while its batch ended and the next one published under the same tags
\* (TestRunner.cpp:221), or have been drained by another batch's poll.
RightProfile ==
  \A b \in Batches : poller[b].pc = "apply" => \A x \in poller[b].hand : x.of = b

\* stop() ends the session it meets once that session has reset the flag
\* (TestRunner.cpp:375): from there on, whatever the worker is doing and whoever
\* asks for a session meanwhile, the run begins at most the one Test it was
\* already past its last check for, and no other batch.  A stop() that lands
\* between the lock and the reset is erased: see EveryStopCounts.
StopIsHonoured == \A r \in Runs : after[r] <= 1

\* "a stop() that lands before the worker runs must still count"
\* (TestRunner.cpp:374), read of every stop() that meets a held session: a run
\* that was stopped before its worker began does no batch.
EveryStopCounts == \A r \in erased : batch[r] = 0

\* Every request is told that it is over, whether it was refused, empty,
\* stopped, failed or done: "Must fire on every exit path - a caller may be
\* blocked on it" (TestRunner.cpp:350).
RequestsFinish == \A r \in Runs : place[r] \notin {"idle"} ~> finished[r] = 1

\* "not after an interruption" (TestRunner.cpp:449): a session that was stopped
\* never deletes the profiles that look unavailable.
InterruptedNeverClears == cleared \cap stopped = {}
=============================================================================
