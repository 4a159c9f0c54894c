------------------------------- MODULE VpnAuth -------------------------------
(***************************************************************************)
(* What the program does when a VPN endpoint of the running profile        *)
(* refuses its credentials or asks a question: it polls the core, answers  *)
(* with a one-time code, restarts the profile for a new code or asks the   *)
(* user, each of them only so often (src/engine/vpn/VpnAuthController.cpp).*)
(*                                                                         *)
(* A restart is a start of the running profile, and a start stops what     *)
(* runs first, through the same handler as the user's stop: the controller *)
(* tells the two apart by m_vpnAuthRestartID.  Starts and stops are those  *)
(* of the connection manager, reduced to the calls they make here.  An     *)
(* endpoint is named by the profile it belongs to; a running profile may   *)
(* use the endpoints of several (a chain).  The main thread is one actor,  *)
(* the polling thread and the worker of a start are others.                *)
(***************************************************************************)
EXTENDS Integers, FiniteSets

CONSTANTS Profiles,     \* what a start may name
          NoProfile,    \* -1
          Vpns,         \* the profiles that are VPN endpoints
          Otp,          \* those of them with a one-time password
          Uses,         \* the endpoints a running profile has
          MaxRestarts,  \* kMaxAutoRestarts
          MaxPrompts,   \* kMaxCredentialPrompts
          MaxRejects    \* kMaxOtpRejects

ASSUME VpnAssumption == /\ NoProfile \notin Profiles
                        /\ Otp \subseteq Vpns /\ Vpns \subseteq Profiles
                        /\ Uses \in [Profiles -> SUBSET Vpns]
                        /\ MaxRestarts \in Nat /\ MaxPrompts \in Nat /\ MaxRejects \in Nat

VARIABLES
  running,    \* the running profile (runningSnapshot)
  state,      \* what the core says of each endpoint
  starting,   \* the profile a worker is starting
  stopping,   \* who stops the run: "no", "user", "switch", "crash"
  timer,      \* m_vpnChallengeTimer is active
  poll,       \* "idle", "asking" or "asked": the poll's thread
  report,     \* what the poll brought: endpoint by endpoint
  todo,       \* reports the main thread is going through
  seen,       \* m_vpnChallengeSeen: endpoints whose failure was shown in this run
  answering,  \* m_vpnChallengeAnswering
  rejects,    \* m_vpnOtpRejects
  restarts,   \* m_vpnAutoRestarts
  cooldown,    \* the cooldown since m_vpnAutoRestartAt runs
  prompted,   \* m_vpnAuthPrompted
  restartId,  \* m_vpnAuthRestartID
  dialog,     \* the prompt: its endpoint and, for credentials, the run it was opened for
  overrides,  \* the endpoints with credentials typed for this session
  auto,       \* history: the user has not acted since the controller asked for this start
  history     \* automatic restarts and prompts since the user last acted, and whether
              \* one was refused while another was under way, which takes the mark of both

core   == <<running, state, starting, stopping>>
polls  == <<timer, poll, report, todo>>
tracking == <<seen, answering, rejects>>
budget == <<restarts, cooldown, prompted>>
authVars == <<core, polls, tracking, budget, restartId, dialog, overrides, auto, history>>

States   == {"connecting", "connected", "failed", "asks", "refused"}
NoDialog == [vpn |-> NoProfile, run |-> NoProfile]
Zero     == [v \in Vpns |-> 0]
Up(n, max) == IF n > max THEN n ELSE n + 1   \* the histories count just past the budgets
NoTries  == [restarts |-> Zero, prompts |-> Zero, lost |-> FALSE]
Nothing  == [v \in Vpns |-> "connecting"]

AuthInit ==
    /\ running = NoProfile /\ state = Nothing /\ starting = NoProfile /\ stopping = "no"
    /\ timer = FALSE /\ poll = "idle" /\ report = Nothing /\ todo = {}
    /\ seen = {} /\ answering = {} /\ rejects = Zero
    /\ restarts = Zero /\ cooldown = FALSE /\ prompted = Zero
    /\ restartId = NoProfile /\ dialog = NoDialog /\ overrides = {}
    /\ auto = FALSE /\ history = NoTries

-----------------------------------------------------------------------------
(* The connection manager's calls. *)

(* resetTracking(): what belongs to one run; the budgets do not. *)
resetTracking == seen' = {} /\ answering' = {} /\ rejects' = Zero

(* start(): another start or stop refuses it and says so (failStart), as a  *)
(* config that cannot be built does; an archived group or an inactive kill  *)
(* switch refuses it without a word; else a worker takes it.                *)
RequestStart(p, mark, own) ==
    \/ /\ starting = NoProfile /\ stopping = "no"
       /\ starting' = p /\ auto' = own /\ restartId' = mark
    \/ /\ restartId' = IF mark = p THEN NoProfile ELSE mark
       /\ auto' = (auto /\ own) /\ UNCHANGED starting
    \/ /\ starting = NoProfile /\ stopping = "no"
       /\ restartId' = mark /\ auto' = own /\ UNCHANGED starting

(* The worker stops what runs first; a stop already going on does it.      *)
SwitchStops ==
    /\ starting # NoProfile /\ running # NoProfile /\ stopping = "no"
    /\ stopping' = "switch"
    /\ UNCHANGED <<running, state, starting, polls, tracking, budget, restartId, dialog, overrides, auto, history>>

(* The end of the start; the success hop calls noteRunStarted(). *)
StartEnds ==
    /\ starting # NoProfile /\ running = NoProfile /\ stopping = "no" /\ todo = {}
    /\ starting' = NoProfile
    /\ \/ /\ running' = starting /\ timer' = TRUE /\ state' = Nothing
          /\ resetTracking
       \/ UNCHANGED <<running, timer, state, tracking>>
    /\ UNCHANGED <<stopping, poll, report, todo, budget, restartId, dialog, overrides, auto, history>>

OwnStop(id, manual) == manual /\ id = restartId

MutClears(id, manual) == manual /\ id = id \* mutant: the stop inside a restart clears the budgets
Clears(id, manual) == manual /\ ~OwnStop(id, manual)

clearCredentialOverrides ==
    /\ restarts' = Zero /\ cooldown' = FALSE /\ prompted' = Zero
    /\ overrides' = {v \in overrides : prompted[v] = 0}

(* noteRunStopped(): only a manual stop outside a restart is the user's;    *)
(* it drops the session's credentials and the budgets.                      *)
noteRunStopped ==
    /\ stopping # "no" /\ todo = {}
    /\ LET manual == stopping # "crash"
       IN  IF Clears(running, manual)
           THEN clearCredentialOverrides
           ELSE UNCHANGED <<budget, overrides>>
    /\ history' = IF stopping = "user" \/ (stopping = "switch" /\ ~auto) THEN NoTries ELSE history
    /\ restartId' = NoProfile
    /\ resetTracking
    /\ timer' = FALSE /\ dialog' = NoDialog
    /\ running' = NoProfile /\ stopping' = "no" /\ state' = Nothing
    /\ UNCHANGED <<starting, auto, poll, report, todo>>

(* The user stops or starts, the core crashes. *)
UserStops ==
    /\ running # NoProfile /\ stopping = "no" /\ todo = {}
    /\ stopping' \in {"user", "crash"}
    /\ UNCHANGED <<running, state, starting, polls, tracking, budget, restartId, dialog, overrides, auto, history>>

UserStarts(p) ==
    /\ todo = {}
    /\ RequestStart(p, restartId, FALSE)
    /\ history' = NoTries
    /\ UNCHANGED <<running, state, stopping, polls, tracking, budget, dialog, overrides>>

(* The core's view of an endpoint moves on. *)
EndpointMoves(v) ==
    /\ running # NoProfile /\ v \in Uses[running] /\ stopping = "no"
    /\ \E s \in States \ {state[v]} : state' = [state EXCEPT ![v] = s]
    /\ UNCHANGED <<running, starting, stopping, polls, tracking, budget, restartId, dialog, overrides, auto, history>>

-----------------------------------------------------------------------------
(* The poll. *)

PollStarts ==
    /\ timer /\ todo = {} /\ running # NoProfile /\ poll = "idle"
    /\ poll' = "asking"
    /\ UNCHANGED <<core, timer, report, todo, tracking, budget, restartId, dialog, overrides, auto, history>>

PollAsks ==
    /\ poll = "asking"
    /\ poll' = "asked" /\ report' = state
    /\ UNCHANGED <<core, timer, todo, tracking, budget, restartId, dialog, overrides, auto, history>>

MutBusy(going) == IF going THEN "idle" ELSE "lost" \* mutant: m_vpnChallengeBusy stays set when the run's timer was stopped
Busy(going) == "idle" \* stored before anything else is looked at

(* A connected endpoint gets its codes back. *)
updateEndpointStates ==
    rejects' = [v \in Vpns |-> IF report[v] = "connected" THEN 0 ELSE rejects[v]]

(* Back on the main thread: dropped when the run's timer was stopped,       *)
(* otherwise every endpoint of the report is gone through.                  *)
PollLands ==
    /\ poll = "asked" /\ todo = {}
    /\ poll' = Busy(timer) /\ report' = IF timer THEN report ELSE Nothing
    /\ todo' = IF timer THEN {v \in Vpns : report[v] \in {"failed", "asks", "refused"}} ELSE {}
    /\ IF timer THEN updateEndpointStates ELSE UNCHANGED rejects
    /\ UNCHANGED <<core, timer, seen, answering, budget, restartId, dialog, overrides, auto, history>>

(* showChallenge(): a prompt, unless one is open or this question had its.  *)
showChallenge(v) ==
    \/ dialog = NoDialog /\ dialog' = [vpn |-> v, run |-> NoProfile]
    \/ UNCHANGED dialog

(* autoAnswer(): a one-time code is submitted unless one is on its way, the *)
(* same digits were just refused or too many were; otherwise showChallenge. *)
Challenge(v) ==
    /\ v \in todo /\ report[v] \in {"asks", "refused"}
    /\ todo' = todo \ {v}
    /\ \/ v \in answering /\ UNCHANGED <<tracking, dialog>>
       \/ /\ v \in Otp \ answering /\ running # NoProfile
          /\ report[v] = "refused" => rejects[v] < MaxRejects
          /\ UNCHANGED dialog
          /\ \/ report[v] = "refused" /\ UNCHANGED tracking
             \/ /\ answering' = answering \cup {v}
                /\ rejects' = IF report[v] = "refused" THEN [rejects EXCEPT ![v] = @ + 1] ELSE rejects
                /\ UNCHANGED seen
       \/ v \notin answering /\ UNCHANGED tracking /\ showChallenge(v)
    /\ UNCHANGED <<core, timer, poll, report, budget, restartId, overrides, auto, history>>

(* The answer is in, for this run or for an earlier one. *)
Answered(v) ==
    /\ v \in answering /\ todo = {}
    /\ answering' = answering \ {v}
    /\ UNCHANGED <<core, polls, seen, rejects, budget, restartId, dialog, overrides, auto, history>>

Restartable(v) == v \in Otp /\ restarts[v] < MaxRestarts

(* A restart for a new code, unless one was made a moment ago. *)
autoRestartForAuth(v) ==
    /\ UNCHANGED <<seen, prompted, dialog>>
    /\ \/ cooldown /\ UNCHANGED <<starting, auto, restartId, restarts, cooldown, history>>
       \/ /\ ~cooldown
          /\ restarts' = [restarts EXCEPT ![v] = @ + 1] /\ cooldown' = TRUE
          /\ RequestStart(running, running, TRUE)
          /\ history' = [history EXCEPT !.restarts[v] = Up(@, MaxRestarts),
                                   !.lost = @ \/ (auto /\ starting # NoProfile /\ restartId' = NoProfile)]

(* showAuthFailure(): a restart while the budget for it lasts; then the     *)
(* user is asked, once per run and so often per session.                    *)
Failure(v) ==
    /\ v \in todo /\ \A w \in todo : report[w] = "failed"
    /\ todo' = todo \ {v}
    /\ \/ /\ dialog # NoDialog \/ running = NoProfile \/ v \in seen
          /\ UNCHANGED <<starting, auto, restartId, seen, budget, dialog, history>>
       \/ /\ dialog = NoDialog /\ running # NoProfile /\ v \notin seen
          /\ \/ Restartable(v) /\ autoRestartForAuth(v)
             \/ /\ ~Restartable(v)
                /\ seen' = seen \cup {v}
                /\ IF prompted[v] < MaxPrompts
                   THEN /\ prompted' = [prompted EXCEPT ![v] = @ + 1]
                        /\ dialog' = [vpn |-> v, run |-> running]
                        /\ history' = [history EXCEPT !.prompts[v] = Up(@, MaxPrompts)]
                   ELSE UNCHANGED <<prompted, dialog, history>>
                /\ UNCHANGED <<starting, auto, restartId, restarts, cooldown>>
    /\ UNCHANGED <<running, state, stopping, timer, poll, report, answering, rejects, overrides>>

CooldownEnds ==
    /\ cooldown
    /\ cooldown' = FALSE
    /\ UNCHANGED <<core, polls, tracking, restarts, prompted, restartId, dialog, overrides, auto, history>>

(* retryWithCredentials(), or the dialog is closed. *)
DialogEnds ==
    /\ dialog # NoDialog /\ todo = {}
    /\ dialog' = NoDialog
    /\ \/ /\ running = dialog.run
          /\ overrides' = overrides \cup {dialog.vpn}
          /\ RequestStart(running, running, FALSE)
          /\ history' = NoTries
       \/ UNCHANGED <<overrides, starting, auto, restartId, history>>
    /\ UNCHANGED <<running, state, stopping, polls, tracking, budget>>

AuthNext ==
    \/ SwitchStops \/ StartEnds \/ noteRunStopped \/ UserStops
    \/ PollStarts \/ PollAsks \/ PollLands \/ CooldownEnds \/ DialogEnds
    \/ \E p \in Profiles : UserStarts(p)
    \/ \E v \in Vpns : EndpointMoves(v) \/ Challenge(v) \/ Answered(v) \/ Failure(v)

(* The timers fire, the threads and the main thread go on. *)
AuthFairness ==
    /\ WF_authVars(PollStarts) /\ WF_authVars(PollAsks) /\ WF_authVars(PollLands) /\ WF_authVars(CooldownEnds)
    /\ WF_authVars(noteRunStopped) /\ WF_authVars(SwitchStops) /\ WF_authVars(StartEnds)
    /\ \A v \in Vpns : WF_authVars(Challenge(v)) /\ WF_authVars(Failure(v))

AuthSpec == AuthInit /\ [][AuthNext]_authVars /\ AuthFairness

-----------------------------------------------------------------------------
(* Every variable has its type. *)
AuthTypeOK ==
    /\ running \in Profiles \cup {NoProfile} /\ starting \in Profiles \cup {NoProfile}
    /\ restartId \in Profiles \cup {NoProfile}
    /\ state \in [Vpns -> States] /\ report \in [Vpns -> States]
    /\ stopping \in {"no", "user", "switch", "crash"} /\ poll \in {"idle", "asking", "asked"}
    /\ timer \in BOOLEAN /\ cooldown \in BOOLEAN
    /\ todo \subseteq Vpns /\ answering \subseteq Vpns /\ overrides \subseteq Vpns
    /\ seen \subseteq Vpns
    /\ rejects \in [Vpns -> 0 .. MaxRejects]
    /\ restarts \in [Vpns -> 0 .. MaxRestarts] /\ prompted \in [Vpns -> 0 .. MaxPrompts]

(* A profile whose credentials stay refused is not restarted for ever: the  *)
(* budgets outlast the stops their own restarts make, and between two acts  *)
(* of the user an endpoint gets no more automatic restarts and prompts than *)
(* they allow - unless a restart was refused while one was under way        *)
(* (noteStartRefused, VpnAuthController.cpp:106).                           *)
Bounded == \A v \in Vpns : history.restarts[v] <= MaxRestarts /\ history.prompts[v] <= MaxPrompts
RecoveryIsBounded == ~history.lost => Bounded

(* "start() stops the old run first, so only a stop outside a restart is    *)
(* the user's" (VpnAuthController.cpp:111): the budgets are never dropped   *)
(* without the user, so they bound every row of automatic restarts.         *)
OnlyTheUserDropsBudgets == Bounded

(* The user's stop drops the credentials typed for the session              *)
(* (VpnCredentialOverride.hpp).                                             *)
StopDropsCredentials == [][(stopping = "user" /\ stopping' = "no") => overrides' = {}]_authVars

(* An endpoint that stays refused is not forgotten: a poll that outlives    *)
(* its run, a cooldown or a dialog does not end the polling, so the failure *)
(* is shown, the run ends or the endpoint recovers.                         *)
FailureIsSeen == \A v \in Vpns :
    (timer /\ state[v] = "failed") ~> (state[v] # "failed" \/ ~timer \/ v \in seen \/ dialog # NoDialog)
=============================================================================
