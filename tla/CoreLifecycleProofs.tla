------------------------- MODULE CoreLifecycleProofs -------------------------
(***************************************************************************)
(* The three safety properties of CoreLifecycle, for any number of calls   *)
(* and any set of requests: what the handlers of lifecycle.go leave behind *)
(* on each of their exit paths, and what another goroutine sees of it      *)
(* while they run.                                                         *)
(***************************************************************************)
EXTENDS CoreLifecycle, TLAPS

(* Where a Start is, before and after it has published its box. *)
Building == {"xray", "full", "dns", "box"}
Serving  == {"apply", "relay", "watch"}
Steps    == {"start"} \cup Building \cup Serving \cup {"applyFailed"}

Types ==
    /\ sent \in 0..MaxCalls
    /\ waiting \subseteq Calls
    /\ slot \in [Kinds -> 0..MaxCalls]
    /\ up \subseteq Kinds \X Ids
    /\ doomed \subseteq Kinds \X Ids
    /\ pc \in Steps => cur.id \in Ids

(* What the handler is about to close: the box as long as the close is     *)
(* under way, then the Xray instances, whose slots are empty by then.      *)
Doomed ==
    /\ \A r \in doomed : IF pc = "close" THEN r[1] \in XrayKinds ELSE r[1] = "box" /\ pc \in {"closeBox", "hung"}
    /\ pc = "close" => \A k \in XrayKinds : slot[k] = 0

(* The box an Apply points the resolver at is up; nothing points at a box  *)
(* that is being closed but what a failed Release left.                    *)
Aimed ==
    /\ pc = "apply" => <<"box", cur.id>> \in up
    /\ pc \in {"closeBox", "hung"} => dns # "applied"

(* A session that is over has left no slot of its own behind. *)
Cleared ==
    /\ pc \in {"free", "start", "stop"} /\ slot["box"] = 0 => slot["watch"] = 0 /\ \A k \in XrayKinds : slot[k] = 0
    /\ pc = "xray" => \A k \in XrayKinds : slot[k] = 0
    /\ pc = "full" => slot["full"] = 0
    /\ pc \notin {"free", "start", "stop"} => slot["watch"] = 0
    /\ pc \in Building \cup {"closeBox", "hung", "stopExtra"} => slot["box"] = 0
    /\ pc \in Serving => slot["box"] # 0
    /\ pc \in {"applyFailed", "unslot", "close"} => \A r \in up : r[1] # "box"

(* Everything that runs has a name, or is about to be closed. *)
Accounted == \A r \in up : r[1] # "extra" => slot[r[1]] = r[2] \/ r \in doomed

IInv == /\ Types
        /\ XraySlotsAreLive /\ ResolverHasListener
        /\ running => Doomed /\ Aimed
        /\ running /\ ~refused => Cleared /\ Accounted

-----------------------------------------------------------------------------
\* The kinds of resources and the names of the calls.
LEMMA Names ==
    /\ "box" \in Kinds /\ "extra" \in Kinds /\ "watch" \in Kinds /\ "relay" \in Kinds
    /\ "xray" \in Kinds /\ "gate" \in Kinds /\ "full" \in Kinds
    /\ 0 \in 0..MaxCalls /\ \A n \in Ids : n \in 0..MaxCalls /\ n # 0
BY MaxCallsAssumption DEF Kinds, XrayKinds, Ids

\* What runs is a kind of resource and the Start that started it.
LEMMA Running ==
    ASSUME Types
    PROVE  \A r \in up : r = <<r[1], r[2]>> /\ r[1] \in Kinds /\ r[2] \in Ids /\ r[2] # 0
BY Names DEF Types

-----------------------------------------------------------------------------
\* The caller gives up; the core does not notice.
LEMMA CallTimesOutKeeps == ASSUME IInv, CallTimesOut PROVE IInv'
<1>. USE DEF IInv, running, CallTimesOut, caller, call, profile, process
<1>r. \A r \in up : r = <<r[1], r[2]>> /\ r[1] \in Kinds /\ r[2] \in Ids /\ r[2] # 0
  BY Running
<1>1. Types'
  BY Names DEF Types, Steps, Building, Serving
<1>2. XraySlotsAreLive'
  BY DEF XraySlotsAreLive, Named, Doomed, Types, Kinds, XrayKinds, Steps, Building, Serving
<1>3. ResolverHasListener'
  BY DEF ResolverHasListener, Pointed, Listening, Doomed, Aimed, Types, Kinds, XrayKinds, Steps, Building, Serving
<1>4. running' => Doomed'
  BY DEF Doomed, Types, Kinds, XrayKinds, Steps, Building, Serving
<1>5. running' => Aimed'
  BY DEF Aimed, Types, Kinds, XrayKinds, Steps, Building, Serving
<1>6. running' /\ ~refused' => Cleared'
  BY <1>r DEF Cleared, Doomed, Accounted, Types, Kinds, XrayKinds, Steps, Building, Serving
<1>7. running' /\ ~refused' => Accounted'
  BY <1>r DEF Accounted, Cleared, Doomed, Types, Kinds, XrayKinds, Steps, Building, Serving
<1>. QED BY <1>1, <1>2, <1>3, <1>4, <1>5, <1>6, <1>7 DEF IInv

\* A refused Start unpublishes the box it met: from then on the core has forgotten it.
LEMMA AlreadyStartedKeeps == ASSUME IInv, alreadyStarted PROVE IInv'
<1>. USE DEF IInv, running, alreadyStarted, StartFails, At, Return, Answer, caller, call, profile, process
<1>r. \A r \in up : r = <<r[1], r[2]>> /\ r[1] \in Kinds /\ r[2] \in Ids /\ r[2] # 0
  BY Running
<1>1. Types'
  BY Names DEF Types, Steps, Building, Serving
<1>2. XraySlotsAreLive'
  BY DEF XraySlotsAreLive, Named, Doomed, Types, Kinds, XrayKinds, Steps, Building, Serving
<1>3. ResolverHasListener'
  BY DEF ResolverHasListener, Pointed, Listening, Doomed, Aimed, Types, Kinds, XrayKinds, Steps, Building, Serving
<1>4. running' => Doomed'
  BY DEF Doomed, Types, Kinds, XrayKinds, Steps, Building, Serving
<1>5. running' => Aimed'
  BY DEF Aimed, Types, Kinds, XrayKinds, Steps, Building, Serving
<1>6. running' /\ ~refused' => Cleared'
  BY <1>r DEF Cleared, Doomed, Accounted, Types, Kinds, XrayKinds, Steps, Building, Serving
<1>7. running' /\ ~refused' => Accounted'
  BY <1>r DEF Accounted, Cleared, Doomed, Types, Kinds, XrayKinds, Steps, Building, Serving
<1>. QED BY <1>1, <1>2, <1>3, <1>4, <1>5, <1>6, <1>7 DEF IInv

\* A failed extra process.
LEMMA ExtraFailsKeeps == ASSUME IInv, NEW b \in BOOLEAN, extraFails(b) PROVE IInv'
<1>. USE DEF IInv, running, extraFails, At, Return, Answer, caller, call, profile, process
<1>r. \A r \in up : r = <<r[1], r[2]>> /\ r[1] \in Kinds /\ r[2] \in Ids /\ r[2] # 0
  BY Running
<1>1. Types'
  BY Names DEF Types, Steps, Building, Serving
<1>2. XraySlotsAreLive'
  BY DEF XraySlotsAreLive, Named, Doomed, Types, Kinds, XrayKinds, Steps, Building, Serving
<1>3. ResolverHasListener'
  BY DEF ResolverHasListener, Pointed, Listening, Doomed, Aimed, Types, Kinds, XrayKinds, Steps, Building, Serving
<1>4. running' => Doomed'
  BY DEF Doomed, Types, Kinds, XrayKinds, Steps, Building, Serving
<1>5. running' => Aimed'
  BY DEF Aimed, Types, Kinds, XrayKinds, Steps, Building, Serving
<1>6. running' /\ ~refused' => Cleared'
  BY <1>r DEF Cleared, Doomed, Accounted, Types, Kinds, XrayKinds, Steps, Building, Serving
<1>7. running' /\ ~refused' => Accounted'
  BY <1>r DEF Accounted, Cleared, Doomed, Types, Kinds, XrayKinds, Steps, Building, Serving
<1>. QED BY <1>1, <1>2, <1>3, <1>4, <1>5, <1>6, <1>7 DEF IInv

\* The extra process.
LEMMA StartExtraKeeps == ASSUME IInv, NEW b \in BOOLEAN, startExtra(b) PROVE IInv'
<1>. USE DEF IInv, running, startExtra, Launch, At, Goto, caller, call, profile, process
<1>r. \A r \in up : r = <<r[1], r[2]>> /\ r[1] \in Kinds /\ r[2] \in Ids /\ r[2] # 0
  BY Running
<1>1. Types'
  BY Names DEF Types, Steps, Building, Serving
<1>2. XraySlotsAreLive'
  BY DEF XraySlotsAreLive, Named, Doomed, Types, Kinds, XrayKinds, Steps, Building, Serving
<1>3. ResolverHasListener'
  BY DEF ResolverHasListener, Pointed, Listening, Doomed, Aimed, Types, Kinds, XrayKinds, Steps, Building, Serving
<1>4. running' => Doomed'
  BY DEF Doomed, Types, Kinds, XrayKinds, Steps, Building, Serving
<1>5. running' => Aimed'
  BY DEF Aimed, Types, Kinds, XrayKinds, Steps, Building, Serving
<1>6. running' /\ ~refused' => Cleared'
  BY <1>r DEF Cleared, Doomed, Accounted, Types, Kinds, XrayKinds, Steps, Building, Serving
<1>7. running' /\ ~refused' => Accounted'
  BY <1>r DEF Accounted, Cleared, Doomed, Types, Kinds, XrayKinds, Steps, Building, Serving
<1>. QED BY <1>1, <1>2, <1>3, <1>4, <1>5, <1>6, <1>7 DEF IInv

\* The Xray sidecar or its gate takes a slot that is empty.
LEMMA StartXrayKeeps == ASSUME IInv, startXray PROVE IInv'
<1>. USE DEF IInv, running, startXray, xrayKind, At, Goto, caller, call, profile, process
<1>r. \A r \in up : r = <<r[1], r[2]>> /\ r[1] \in Kinds /\ r[2] \in Ids /\ r[2] # 0
  BY Running
<1>1. Types'
  BY Names DEF Types, Steps, Building, Serving
<1>2. XraySlotsAreLive'
  BY DEF XraySlotsAreLive, Named, Doomed, Types, Kinds, XrayKinds, Steps, Building, Serving
<1>3. ResolverHasListener'
  BY DEF ResolverHasListener, Pointed, Listening, Doomed, Aimed, Types, Kinds, XrayKinds, Steps, Building, Serving
<1>4. running' => Doomed'
  BY DEF Doomed, Types, Kinds, XrayKinds, Steps, Building, Serving
<1>5. running' => Aimed'
  BY DEF Aimed, Types, Kinds, XrayKinds, Steps, Building, Serving
<1>6. running' /\ ~refused' => Cleared'
  BY <1>r DEF Cleared, Doomed, Accounted, Types, Kinds, XrayKinds, Steps, Building, Serving
<1>7. running' /\ ~refused' => Accounted'
  BY <1>r DEF Accounted, Cleared, Doomed, Types, Kinds, XrayKinds, Steps, Building, Serving
<1>. QED BY <1>1, <1>2, <1>3, <1>4, <1>5, <1>6, <1>7 DEF IInv

\* A failed sidecar.
LEMMA XrayFailsKeeps == ASSUME IInv, xrayFails PROVE IInv'
<1>. USE DEF IInv, running, xrayFails, StartFails, At, Return, Answer, caller, call, profile, process
<1>r. \A r \in up : r = <<r[1], r[2]>> /\ r[1] \in Kinds /\ r[2] \in Ids /\ r[2] # 0
  BY Running
<1>1. Types'
  BY Names DEF Types, Steps, Building, Serving
<1>2. XraySlotsAreLive'
  BY DEF XraySlotsAreLive, Named, Doomed, Types, Kinds, XrayKinds, Steps, Building, Serving
<1>3. ResolverHasListener'
  BY DEF ResolverHasListener, Pointed, Listening, Doomed, Aimed, Types, Kinds, XrayKinds, Steps, Building, Serving
<1>4. running' => Doomed'
  BY DEF Doomed, Types, Kinds, XrayKinds, Steps, Building, Serving
<1>5. running' => Aimed'
  BY DEF Aimed, Types, Kinds, XrayKinds, Steps, Building, Serving
<1>6. running' /\ ~refused' => Cleared'
  BY <1>r DEF Cleared, Doomed, Accounted, Types, Kinds, XrayKinds, Steps, Building, Serving
<1>7. running' /\ ~refused' => Accounted'
  BY <1>r DEF Accounted, Cleared, Doomed, Types, Kinds, XrayKinds, Steps, Building, Serving
<1>. QED BY <1>1, <1>2, <1>3, <1>4, <1>5, <1>6, <1>7 DEF IInv

\* The gates of the opaque configs.
LEMMA StartFullKeeps == ASSUME IInv, startXrayFullGates PROVE IInv'
<1>. USE DEF IInv, running, startXrayFullGates, Launch, At, Goto, caller, call, profile, process
<1>r. \A r \in up : r = <<r[1], r[2]>> /\ r[1] \in Kinds /\ r[2] \in Ids /\ r[2] # 0
  BY Running
<1>1. Types'
  BY Names DEF Types, Steps, Building, Serving
<1>2. XraySlotsAreLive'
  BY DEF XraySlotsAreLive, Named, Doomed, Types, Kinds, XrayKinds, Steps, Building, Serving
<1>3. ResolverHasListener'
  BY DEF ResolverHasListener, Pointed, Listening, Doomed, Aimed, Types, Kinds, XrayKinds, Steps, Building, Serving
<1>4. running' => Doomed'
  BY DEF Doomed, Types, Kinds, XrayKinds, Steps, Building, Serving
<1>5. running' => Aimed'
  BY DEF Aimed, Types, Kinds, XrayKinds, Steps, Building, Serving
<1>6. running' /\ ~refused' => Cleared'
  BY <1>r DEF Cleared, Doomed, Accounted, Types, Kinds, XrayKinds, Steps, Building, Serving
<1>7. running' /\ ~refused' => Accounted'
  BY <1>r DEF Accounted, Cleared, Doomed, Types, Kinds, XrayKinds, Steps, Building, Serving
<1>. QED BY <1>1, <1>2, <1>3, <1>4, <1>5, <1>6, <1>7 DEF IInv

\* The gates that opened have closed again.
LEMMA FullFailsKeeps == ASSUME IInv, fullGatesFail PROVE IInv'
<1>. USE DEF IInv, running, fullGatesFail, At, Goto, caller, call, profile, process
<1>r. \A r \in up : r = <<r[1], r[2]>> /\ r[1] \in Kinds /\ r[2] \in Ids /\ r[2] # 0
  BY Running
<1>1. Types'
  BY Names DEF Types, Steps, Building, Serving
<1>2. XraySlotsAreLive'
  BY DEF XraySlotsAreLive, Named, Doomed, Types, Kinds, XrayKinds, Steps, Building, Serving
<1>3. ResolverHasListener'
  BY DEF ResolverHasListener, Pointed, Listening, Doomed, Aimed, Types, Kinds, XrayKinds, Steps, Building, Serving
<1>4. running' => Doomed'
  BY DEF Doomed, Types, Kinds, XrayKinds, Steps, Building, Serving
<1>5. running' => Aimed'
  BY DEF Aimed, Types, Kinds, XrayKinds, Steps, Building, Serving
<1>6. running' /\ ~refused' => Cleared'
  BY <1>r DEF Cleared, Doomed, Accounted, Types, Kinds, XrayKinds, Steps, Building, Serving
<1>7. running' /\ ~refused' => Accounted'
  BY <1>r DEF Accounted, Cleared, Doomed, Types, Kinds, XrayKinds, Steps, Building, Serving
<1>. QED BY <1>1, <1>2, <1>3, <1>4, <1>5, <1>6, <1>7 DEF IInv

\* The pins and the backup of the system DNS.
LEMMA PrepareDnsKeeps == ASSUME IInv, prepareDns PROVE IInv'
<1>. USE DEF IInv, running, prepareDns, Pointed, At, Goto, caller, call, profile, process
<1>r. \A r \in up : r = <<r[1], r[2]>> /\ r[1] \in Kinds /\ r[2] \in Ids /\ r[2] # 0
  BY Running
<1>1. Types'
  BY Names DEF Types, Steps, Building, Serving
<1>2. XraySlotsAreLive'
  BY DEF XraySlotsAreLive, Named, Doomed, Types, Kinds, XrayKinds, Steps, Building, Serving
<1>3. ResolverHasListener'
  BY DEF ResolverHasListener, Pointed, Listening, Doomed, Aimed, Types, Kinds, XrayKinds, Steps, Building, Serving
<1>4. running' => Doomed'
  BY DEF Doomed, Types, Kinds, XrayKinds, Steps, Building, Serving
<1>5. running' => Aimed'
  BY DEF Aimed, Types, Kinds, XrayKinds, Steps, Building, Serving
<1>6. running' /\ ~refused' => Cleared'
  BY <1>r DEF Cleared, Doomed, Accounted, Types, Kinds, XrayKinds, Steps, Building, Serving
<1>7. running' /\ ~refused' => Accounted'
  BY <1>r DEF Accounted, Cleared, Doomed, Types, Kinds, XrayKinds, Steps, Building, Serving
<1>. QED BY <1>1, <1>2, <1>3, <1>4, <1>5, <1>6, <1>7 DEF IInv

\* Without the backup, the sidecars stop again.
LEMMA PrepareFailsKeeps == ASSUME IInv, NEW ok \in BOOLEAN, prepareFails(ok) PROVE IInv'
<1>. USE DEF IInv, running, prepareFails, Release, Pointed, Stopped, At, Goto, caller, call, profile, process
<1>r. \A r \in up : r = <<r[1], r[2]>> /\ r[1] \in Kinds /\ r[2] \in Ids /\ r[2] # 0
  BY Running
<1>1. Types'
  BY Names DEF Types, Steps, Building, Serving
<1>2. XraySlotsAreLive'
  BY DEF XraySlotsAreLive, Named, Doomed, Types, Kinds, XrayKinds, Steps, Building, Serving
<1>3. ResolverHasListener'
  BY DEF ResolverHasListener, Pointed, Listening, Doomed, Aimed, Types, Kinds, XrayKinds, Steps, Building, Serving
<1>4. running' => Doomed'
  BY DEF Doomed, Types, Kinds, XrayKinds, Steps, Building, Serving
<1>5. running' => Aimed'
  BY DEF Aimed, Types, Kinds, XrayKinds, Steps, Building, Serving
<1>6. running' /\ ~refused' => Cleared'
  BY <1>r DEF Cleared, Doomed, Accounted, Types, Kinds, XrayKinds, Steps, Building, Serving
<1>7. running' /\ ~refused' => Accounted'
  BY <1>r DEF Accounted, Cleared, Doomed, Types, Kinds, XrayKinds, Steps, Building, Serving
<1>. QED BY <1>1, <1>2, <1>3, <1>4, <1>5, <1>6, <1>7 DEF IInv

\* The box, the only one there is.
LEMMA CreateBoxKeeps == ASSUME IInv, createBox PROVE IInv'
<1>. USE DEF IInv, running, createBox, Launch, At, Goto, caller, call, profile, process
<1>r. \A r \in up : r = <<r[1], r[2]>> /\ r[1] \in Kinds /\ r[2] \in Ids /\ r[2] # 0
  BY Running
<1>1. Types'
  BY Names DEF Types, Steps, Building, Serving
<1>2. XraySlotsAreLive'
  BY DEF XraySlotsAreLive, Named, Doomed, Types, Kinds, XrayKinds, Steps, Building, Serving
<1>3. ResolverHasListener'
  BY DEF ResolverHasListener, Pointed, Listening, Doomed, Aimed, Types, Kinds, XrayKinds, Steps, Building, Serving
<1>4. running' => Doomed'
  BY DEF Doomed, Types, Kinds, XrayKinds, Steps, Building, Serving
<1>5. running' => Aimed'
  BY DEF Aimed, Types, Kinds, XrayKinds, Steps, Building, Serving
<1>6. running' /\ ~refused' => Cleared'
  BY <1>r, Names DEF Cleared, Doomed, Accounted, Types, Kinds, XrayKinds, Steps, Building, Serving
<1>7. running' /\ ~refused' => Accounted'
  BY <1>r DEF Accounted, Cleared, Doomed, Types, Kinds, XrayKinds, Steps, Building, Serving
<1>. QED BY <1>1, <1>2, <1>3, <1>4, <1>5, <1>6, <1>7 DEF IInv

\* No box came up.
LEMMA CreateFailsKeeps == ASSUME IInv, NEW ok \in BOOLEAN, createFails(ok) PROVE IInv'
<1>. USE DEF IInv, running, createFails, Release, Pointed, Stopped, At, Goto, caller, call, profile, process
<1>r. \A r \in up : r = <<r[1], r[2]>> /\ r[1] \in Kinds /\ r[2] \in Ids /\ r[2] # 0
  BY Running
<1>1. Types'
  BY Names DEF Types, Steps, Building, Serving
<1>2. XraySlotsAreLive'
  BY DEF XraySlotsAreLive, Named, Doomed, Types, Kinds, XrayKinds, Steps, Building, Serving
<1>3. ResolverHasListener'
  BY DEF ResolverHasListener, Pointed, Listening, Doomed, Aimed, Types, Kinds, XrayKinds, Steps, Building, Serving
<1>4. running' => Doomed'
  BY DEF Doomed, Types, Kinds, XrayKinds, Steps, Building, Serving
<1>5. running' => Aimed'
  BY DEF Aimed, Types, Kinds, XrayKinds, Steps, Building, Serving
<1>6. running' /\ ~refused' => Cleared'
  BY <1>r DEF Cleared, Doomed, Accounted, Types, Kinds, XrayKinds, Steps, Building, Serving
<1>7. running' /\ ~refused' => Accounted'
  BY <1>r DEF Accounted, Cleared, Doomed, Types, Kinds, XrayKinds, Steps, Building, Serving
<1>. QED BY <1>1, <1>2, <1>3, <1>4, <1>5, <1>6, <1>7 DEF IInv

\* The resolver is pointed at the box, which is up.
LEMMA ApplyDnsKeeps == ASSUME IInv, applyDns PROVE IInv'
<1>. USE DEF IInv, running, applyDns, At, Goto, caller, call, profile, process
<1>r. \A r \in up : r = <<r[1], r[2]>> /\ r[1] \in Kinds /\ r[2] \in Ids /\ r[2] # 0
  BY Running
<1>1. Types'
  BY Names DEF Types, Steps, Building, Serving
<1>2. XraySlotsAreLive'
  BY DEF XraySlotsAreLive, Named, Doomed, Types, Kinds, XrayKinds, Steps, Building, Serving
<1>3. ResolverHasListener'
  BY DEF ResolverHasListener, Pointed, Listening, Doomed, Aimed, Types, Kinds, XrayKinds, Steps, Building, Serving
<1>4. running' => Doomed'
  BY DEF Doomed, Types, Kinds, XrayKinds, Steps, Building, Serving
<1>5. running' => Aimed'
  BY DEF Aimed, Types, Kinds, XrayKinds, Steps, Building, Serving
<1>6. running' /\ ~refused' => Cleared'
  BY <1>r DEF Cleared, Doomed, Accounted, Types, Kinds, XrayKinds, Steps, Building, Serving
<1>7. running' /\ ~refused' => Accounted'
  BY <1>r DEF Accounted, Cleared, Doomed, Types, Kinds, XrayKinds, Steps, Building, Serving
<1>. QED BY <1>1, <1>2, <1>3, <1>4, <1>5, <1>6, <1>7 DEF IInv

\* The box that could not be applied closes, still published.
LEMMA ApplyFailsKeeps == ASSUME IInv, NEW ok \in BOOLEAN, applyFails(ok) PROVE IInv'
<1>. USE DEF IInv, running, applyFails, Stopped, At, Goto, caller, call, profile, process
<1>r. \A r \in up : r = <<r[1], r[2]>> /\ r[1] \in Kinds /\ r[2] \in Ids /\ r[2] # 0
  BY Running
<1>1. Types'
  BY Names DEF Types, Steps, Building, Serving
<1>2. XraySlotsAreLive'
  BY DEF XraySlotsAreLive, Named, Doomed, Types, Kinds, XrayKinds, Steps, Building, Serving
<1>3. ResolverHasListener'
  BY DEF ResolverHasListener, Pointed, Listening, Doomed, Aimed, Types, Kinds, XrayKinds, Steps, Building, Serving
<1>4. running' => Doomed'
  BY DEF Doomed, Types, Kinds, XrayKinds, Steps, Building, Serving
<1>5. running' => Aimed'
  BY DEF Aimed, Types, Kinds, XrayKinds, Steps, Building, Serving
<1>6. running' /\ ~refused' => Cleared'
  BY <1>r DEF Cleared, Doomed, Accounted, Types, Kinds, XrayKinds, Steps, Building, Serving
<1>7. running' /\ ~refused' => Accounted'
  BY <1>r DEF Accounted, Cleared, Doomed, Types, Kinds, XrayKinds, Steps, Building, Serving
<1>. QED BY <1>1, <1>2, <1>3, <1>4, <1>5, <1>6, <1>7 DEF IInv

\* ... and takes its sidecars along.
LEMMA StopSidecarsKeeps == ASSUME IInv, NEW ok \in BOOLEAN, stopSidecars(ok) PROVE IInv'
<1>. USE DEF IInv, running, stopSidecars, Release, Pointed, Stopped, At, Goto, caller, call, profile, process
<1>r. \A r \in up : r = <<r[1], r[2]>> /\ r[1] \in Kinds /\ r[2] \in Ids /\ r[2] # 0
  BY Running
<1>1. Types'
  BY Names DEF Types, Steps, Building, Serving
<1>2. XraySlotsAreLive'
  BY DEF XraySlotsAreLive, Named, Doomed, Types, Kinds, XrayKinds, Steps, Building, Serving
<1>3. ResolverHasListener'
  BY DEF ResolverHasListener, Pointed, Listening, Doomed, Aimed, Types, Kinds, XrayKinds, Steps, Building, Serving
<1>4. running' => Doomed'
  BY DEF Doomed, Types, Kinds, XrayKinds, Steps, Building, Serving
<1>5. running' => Aimed'
  BY DEF Aimed, Types, Kinds, XrayKinds, Steps, Building, Serving
<1>6. running' /\ ~refused' => Cleared'
  BY <1>r DEF Cleared, Doomed, Accounted, Types, Kinds, XrayKinds, Steps, Building, Serving
<1>7. running' /\ ~refused' => Accounted'
  BY <1>r DEF Accounted, Cleared, Doomed, Types, Kinds, XrayKinds, Steps, Building, Serving
<1>. QED BY <1>1, <1>2, <1>3, <1>4, <1>5, <1>6, <1>7 DEF IInv

\* The switch of the relay.
LEMMA DisableRelayKeeps == ASSUME IInv, NEW b \in BOOLEAN, disableRelay(b) PROVE IInv'
<1>. USE DEF IInv, running, disableRelay, Launch, At, Goto, caller, call, profile, process
<1>r. \A r \in up : r = <<r[1], r[2]>> /\ r[1] \in Kinds /\ r[2] \in Ids /\ r[2] # 0
  BY Running
<1>1. Types'
  BY Names DEF Types, Steps, Building, Serving
<1>2. XraySlotsAreLive'
  BY DEF XraySlotsAreLive, Named, Doomed, Types, Kinds, XrayKinds, Steps, Building, Serving
<1>3. ResolverHasListener'
  BY DEF ResolverHasListener, Pointed, Listening, Doomed, Aimed, Types, Kinds, XrayKinds, Steps, Building, Serving
<1>4. running' => Doomed'
  BY DEF Doomed, Types, Kinds, XrayKinds, Steps, Building, Serving
<1>5. running' => Aimed'
  BY DEF Aimed, Types, Kinds, XrayKinds, Steps, Building, Serving
<1>6. running' /\ ~refused' => Cleared'
  BY <1>r DEF Cleared, Doomed, Accounted, Types, Kinds, XrayKinds, Steps, Building, Serving
<1>7. running' /\ ~refused' => Accounted'
  BY <1>r DEF Accounted, Cleared, Doomed, Types, Kinds, XrayKinds, Steps, Building, Serving
<1>. QED BY <1>1, <1>2, <1>3, <1>4, <1>5, <1>6, <1>7 DEF IInv

\* The panic leaves the session as it is, with its box published.
LEMMA DisablePanicsKeeps == ASSUME IInv, disablePanics PROVE IInv'
<1>. USE DEF IInv, running, disablePanics, At, Return, Answer, caller, call, profile, process
<1>r. \A r \in up : r = <<r[1], r[2]>> /\ r[1] \in Kinds /\ r[2] \in Ids /\ r[2] # 0
  BY Running
<1>1. Types'
  BY Names DEF Types, Steps, Building, Serving
<1>2. XraySlotsAreLive'
  BY DEF XraySlotsAreLive, Named, Doomed, Types, Kinds, XrayKinds, Steps, Building, Serving
<1>3. ResolverHasListener'
  BY DEF ResolverHasListener, Pointed, Listening, Doomed, Aimed, Types, Kinds, XrayKinds, Steps, Building, Serving
<1>4. running' => Doomed'
  BY DEF Doomed, Types, Kinds, XrayKinds, Steps, Building, Serving
<1>5. running' => Aimed'
  BY DEF Aimed, Types, Kinds, XrayKinds, Steps, Building, Serving
<1>6. running' /\ ~refused' => Cleared'
  BY <1>r DEF Cleared, Doomed, Accounted, Types, Kinds, XrayKinds, Steps, Building, Serving
<1>7. running' /\ ~refused' => Accounted'
  BY <1>r DEF Accounted, Cleared, Doomed, Types, Kinds, XrayKinds, Steps, Building, Serving
<1>. QED BY <1>1, <1>2, <1>3, <1>4, <1>5, <1>6, <1>7 DEF IInv

\* A Start that succeeds.
LEMMA StartDoneKeeps == ASSUME IInv, startDone PROVE IInv'
<1>. USE DEF IInv, running, startDone, Launch, At, Return, Answer, caller, call, profile, process
<1>r. \A r \in up : r = <<r[1], r[2]>> /\ r[1] \in Kinds /\ r[2] \in Ids /\ r[2] # 0
  BY Running
<1>1. Types'
  BY Names DEF Types, Steps, Building, Serving
<1>2. XraySlotsAreLive'
  BY DEF XraySlotsAreLive, Named, Doomed, Types, Kinds, XrayKinds, Steps, Building, Serving
<1>3. ResolverHasListener'
  BY DEF ResolverHasListener, Pointed, Listening, Doomed, Aimed, Types, Kinds, XrayKinds, Steps, Building, Serving
<1>4. running' => Doomed'
  BY DEF Doomed, Types, Kinds, XrayKinds, Steps, Building, Serving
<1>5. running' => Aimed'
  BY DEF Aimed, Types, Kinds, XrayKinds, Steps, Building, Serving
<1>6. running' /\ ~refused' => Cleared'
  BY <1>r DEF Cleared, Doomed, Accounted, Types, Kinds, XrayKinds, Steps, Building, Serving
<1>7. running' /\ ~refused' => Accounted'
  BY <1>r DEF Accounted, Cleared, Doomed, Types, Kinds, XrayKinds, Steps, Building, Serving
<1>. QED BY <1>1, <1>2, <1>3, <1>4, <1>5, <1>6, <1>7 DEF IInv

\* A Start is sent.
LEMMA SendStartKeeps == ASSUME IInv, SendStart PROVE IInv'
<1>. USE DEF IInv, running, SendStart, Send, caller, call, profile, process
<1>r. \A r \in up : r = <<r[1], r[2]>> /\ r[1] \in Kinds /\ r[2] \in Ids /\ r[2] # 0
  BY Running
<1>1. Types'
  <2>1. [id |-> sent + 1, op |-> "Start"] \in Calls /\ sent + 1 \in 0..MaxCalls
    BY MaxCallsAssumption DEF Types, Calls, Ids
  <2>. QED BY <2>1 DEF Types
<1>2. XraySlotsAreLive'
  BY DEF XraySlotsAreLive, Named, Doomed, Types, Kinds, XrayKinds, Steps, Building, Serving
<1>3. ResolverHasListener'
  BY DEF ResolverHasListener, Pointed, Listening, Doomed, Aimed, Types, Kinds, XrayKinds, Steps, Building, Serving
<1>4. running' => Doomed'
  BY DEF Doomed, Types, Kinds, XrayKinds, Steps, Building, Serving
<1>5. running' => Aimed'
  BY DEF Aimed, Types, Kinds, XrayKinds, Steps, Building, Serving
<1>6. running' /\ ~refused' => Cleared'
  BY <1>r DEF Cleared, Doomed, Accounted, Types, Kinds, XrayKinds, Steps, Building, Serving
<1>7. running' /\ ~refused' => Accounted'
  BY <1>r DEF Accounted, Cleared, Doomed, Types, Kinds, XrayKinds, Steps, Building, Serving
<1>. QED BY <1>1, <1>2, <1>3, <1>4, <1>5, <1>6, <1>7 DEF IInv

\* A Stop is sent.
LEMMA SendStopKeeps == ASSUME IInv, SendStop PROVE IInv'
<1>. USE DEF IInv, running, SendStop, Send, caller, call, profile, process
<1>r. \A r \in up : r = <<r[1], r[2]>> /\ r[1] \in Kinds /\ r[2] \in Ids /\ r[2] # 0
  BY Running
<1>1. Types'
  <2>1. [id |-> sent + 1, op |-> "Stop"] \in Calls /\ sent + 1 \in 0..MaxCalls
    BY MaxCallsAssumption DEF Types, Calls, Ids
  <2>. QED BY <2>1 DEF Types
<1>2. XraySlotsAreLive'
  BY DEF XraySlotsAreLive, Named, Doomed, Types, Kinds, XrayKinds, Steps, Building, Serving
<1>3. ResolverHasListener'
  BY DEF ResolverHasListener, Pointed, Listening, Doomed, Aimed, Types, Kinds, XrayKinds, Steps, Building, Serving
<1>4. running' => Doomed'
  BY DEF Doomed, Types, Kinds, XrayKinds, Steps, Building, Serving
<1>5. running' => Aimed'
  BY DEF Aimed, Types, Kinds, XrayKinds, Steps, Building, Serving
<1>6. running' /\ ~refused' => Cleared'
  BY <1>r DEF Cleared, Doomed, Accounted, Types, Kinds, XrayKinds, Steps, Building, Serving
<1>7. running' /\ ~refused' => Accounted'
  BY <1>r DEF Accounted, Cleared, Doomed, Types, Kinds, XrayKinds, Steps, Building, Serving
<1>. QED BY <1>1, <1>2, <1>3, <1>4, <1>5, <1>6, <1>7 DEF IInv

\* A Start gets the lock.
LEMMA LockStartKeeps == ASSUME IInv, NEW c \in waiting, NEW q \in Requests, lockStart(c, q) PROVE IInv'
<1>. USE DEF IInv, running, lockStart, At, caller, call, profile, process
<1>r. \A r \in up : r = <<r[1], r[2]>> /\ r[1] \in Kinds /\ r[2] \in Ids /\ r[2] # 0
  BY Running
<1>1. Types'
  <2>1. \A d \in Calls : d.op = "Start" => d.id \in Ids
    BY DEF Calls, Teardown
  <2>. QED BY <2>1, Names DEF Types, Steps, Building, Serving
<1>2. XraySlotsAreLive'
  BY DEF XraySlotsAreLive, Named, Doomed, Types, Kinds, XrayKinds, Steps, Building, Serving
<1>3. ResolverHasListener'
  BY DEF ResolverHasListener, Pointed, Listening, Doomed, Aimed, Types, Kinds, XrayKinds, Steps, Building, Serving
<1>4. running' => Doomed'
  BY DEF Doomed, Types, Kinds, XrayKinds, Steps, Building, Serving
<1>5. running' => Aimed'
  BY DEF Aimed, Types, Kinds, XrayKinds, Steps, Building, Serving
<1>6. running' /\ ~refused' => Cleared'
  BY <1>r DEF Cleared, Doomed, Accounted, Types, Kinds, XrayKinds, Steps, Building, Serving
<1>7. running' /\ ~refused' => Accounted'
  BY <1>r DEF Accounted, Cleared, Doomed, Types, Kinds, XrayKinds, Steps, Building, Serving
<1>. QED BY <1>1, <1>2, <1>3, <1>4, <1>5, <1>6, <1>7 DEF IInv

\* A Stop or the Teardown gets the lock.
LEMMA LockStopKeeps == ASSUME IInv, NEW c \in waiting, lockStop(c) PROVE IInv'
<1>. USE DEF IInv, running, lockStop, At, caller, call, profile, process
<1>r. \A r \in up : r = <<r[1], r[2]>> /\ r[1] \in Kinds /\ r[2] \in Ids /\ r[2] # 0
  BY Running
<1>1. Types'
  BY Names DEF Types, Steps, Building, Serving
<1>2. XraySlotsAreLive'
  BY DEF XraySlotsAreLive, Named, Doomed, Types, Kinds, XrayKinds, Steps, Building, Serving
<1>3. ResolverHasListener'
  BY DEF ResolverHasListener, Pointed, Listening, Doomed, Aimed, Types, Kinds, XrayKinds, Steps, Building, Serving
<1>4. running' => Doomed'
  BY DEF Doomed, Types, Kinds, XrayKinds, Steps, Building, Serving
<1>5. running' => Aimed'
  BY DEF Aimed, Types, Kinds, XrayKinds, Steps, Building, Serving
<1>6. running' /\ ~refused' => Cleared'
  BY <1>r DEF Cleared, Doomed, Accounted, Types, Kinds, XrayKinds, Steps, Building, Serving
<1>7. running' /\ ~refused' => Accounted'
  BY <1>r DEF Accounted, Cleared, Doomed, Types, Kinds, XrayKinds, Steps, Building, Serving
<1>. QED BY <1>1, <1>2, <1>3, <1>4, <1>5, <1>6, <1>7 DEF IInv

\* Nothing is published.
LEMMA NothingToStopKeeps == ASSUME IInv, nothingToStop PROVE IInv'
<1>. USE DEF IInv, running, nothingToStop, At, Return, Answer, caller, call, profile, process
<1>r. \A r \in up : r = <<r[1], r[2]>> /\ r[1] \in Kinds /\ r[2] \in Ids /\ r[2] # 0
  BY Running
<1>1. Types'
  BY Names DEF Types, Steps, Building, Serving
<1>2. XraySlotsAreLive'
  BY DEF XraySlotsAreLive, Named, Doomed, Types, Kinds, XrayKinds, Steps, Building, Serving
<1>3. ResolverHasListener'
  BY DEF ResolverHasListener, Pointed, Listening, Doomed, Aimed, Types, Kinds, XrayKinds, Steps, Building, Serving
<1>4. running' => Doomed'
  BY DEF Doomed, Types, Kinds, XrayKinds, Steps, Building, Serving
<1>5. running' => Aimed'
  BY DEF Aimed, Types, Kinds, XrayKinds, Steps, Building, Serving
<1>6. running' /\ ~refused' => Cleared'
  BY <1>r DEF Cleared, Doomed, Accounted, Types, Kinds, XrayKinds, Steps, Building, Serving
<1>7. running' /\ ~refused' => Accounted'
  BY <1>r DEF Accounted, Cleared, Doomed, Types, Kinds, XrayKinds, Steps, Building, Serving
<1>. QED BY <1>1, <1>2, <1>3, <1>4, <1>5, <1>6, <1>7 DEF IInv

\* The DNS is released before the box is about to close.
LEMMA UnpublishKeeps == ASSUME IInv, NEW b \in BOOLEAN, NEW ok \in BOOLEAN, unpublish(b, ok) PROVE IInv'
<1>. USE DEF IInv, running, unpublish, Release, Pointed, Stopped, At, Goto, caller, call, profile, process
<1>r. \A r \in up : r = <<r[1], r[2]>> /\ r[1] \in Kinds /\ r[2] \in Ids /\ r[2] # 0
  BY Running
<1>1. Types'
  <2>1. slot["box"] \in Ids
    BY Names, MaxCallsAssumption DEF Types, Ids
  <2>. QED BY <2>1, Names DEF Types, Steps, Building, Serving
<1>2. XraySlotsAreLive'
  BY DEF XraySlotsAreLive, Named, Doomed, Types, Kinds, XrayKinds, Steps, Building, Serving
<1>3. ResolverHasListener'
  BY DEF ResolverHasListener, Pointed, Listening, Doomed, Aimed, Types, Kinds, XrayKinds, Steps, Building, Serving
<1>4. running' => Doomed'
  BY DEF Doomed, Types, Kinds, XrayKinds, Steps, Building, Serving
<1>5. running' => Aimed'
  BY DEF Aimed, Types, Kinds, XrayKinds, Steps, Building, Serving
<1>6. running' /\ ~refused' => Cleared'
  BY <1>r DEF Cleared, Doomed, Accounted, Types, Kinds, XrayKinds, Steps, Building, Serving
<1>7. running' /\ ~refused' => Accounted'
  BY <1>r DEF Accounted, Cleared, Doomed, Types, Kinds, XrayKinds, Steps, Building, Serving
<1>. QED BY <1>1, <1>2, <1>3, <1>4, <1>5, <1>6, <1>7 DEF IInv

\* A close that never ends.
LEMMA CloseHangsKeeps == ASSUME IInv, closeHangs PROVE IInv'
<1>. USE DEF IInv, running, closeHangs, At, Goto, caller, call, profile, process
<1>r. \A r \in up : r = <<r[1], r[2]>> /\ r[1] \in Kinds /\ r[2] \in Ids /\ r[2] # 0
  BY Running
<1>1. Types'
  BY Names DEF Types, Steps, Building, Serving
<1>2. XraySlotsAreLive'
  BY DEF XraySlotsAreLive, Named, Doomed, Types, Kinds, XrayKinds, Steps, Building, Serving
<1>3. ResolverHasListener'
  BY DEF ResolverHasListener, Pointed, Listening, Doomed, Aimed, Types, Kinds, XrayKinds, Steps, Building, Serving
<1>4. running' => Doomed'
  BY DEF Doomed, Types, Kinds, XrayKinds, Steps, Building, Serving
<1>5. running' => Aimed'
  BY DEF Aimed, Types, Kinds, XrayKinds, Steps, Building, Serving
<1>6. running' /\ ~refused' => Cleared'
  BY <1>r DEF Cleared, Doomed, Accounted, Types, Kinds, XrayKinds, Steps, Building, Serving
<1>7. running' /\ ~refused' => Accounted'
  BY <1>r DEF Accounted, Cleared, Doomed, Types, Kinds, XrayKinds, Steps, Building, Serving
<1>. QED BY <1>1, <1>2, <1>3, <1>4, <1>5, <1>6, <1>7 DEF IInv

\* The box is gone.
LEMMA CloseBoxKeeps == ASSUME IInv, closeBox PROVE IInv'
<1>. USE DEF IInv, running, closeBox, At, Goto, caller, call, profile, process
<1>r. \A r \in up : r = <<r[1], r[2]>> /\ r[1] \in Kinds /\ r[2] \in Ids /\ r[2] # 0
  BY Running
<1>1. Types'
  BY Names DEF Types, Steps, Building, Serving
<1>2. XraySlotsAreLive'
  BY DEF XraySlotsAreLive, Named, Doomed, Types, Kinds, XrayKinds, Steps, Building, Serving
<1>3. ResolverHasListener'
  BY DEF ResolverHasListener, Pointed, Listening, Doomed, Aimed, Types, Kinds, XrayKinds, Steps, Building, Serving
<1>4. running' => Doomed'
  BY DEF Doomed, Types, Kinds, XrayKinds, Steps, Building, Serving
<1>5. running' => Aimed'
  BY DEF Aimed, Types, Kinds, XrayKinds, Steps, Building, Serving
<1>6. running' /\ ~refused' => Cleared'
  BY <1>r DEF Cleared, Doomed, Accounted, Types, Kinds, XrayKinds, Steps, Building, Serving
<1>7. running' /\ ~refused' => Accounted'
  BY <1>r DEF Accounted, Cleared, Doomed, Types, Kinds, XrayKinds, Steps, Building, Serving
<1>. QED BY <1>1, <1>2, <1>3, <1>4, <1>5, <1>6, <1>7 DEF IInv

\* The extra process of this session.
LEMMA StopExtraKeeps == ASSUME IInv, stopExtra PROVE IInv'
<1>. USE DEF IInv, running, stopExtra, Stopped, At, Goto, caller, call, profile, process
<1>r. \A r \in up : r = <<r[1], r[2]>> /\ r[1] \in Kinds /\ r[2] \in Ids /\ r[2] # 0
  BY Running
<1>1. Types'
  BY Names DEF Types, Steps, Building, Serving
<1>2. XraySlotsAreLive'
  BY DEF XraySlotsAreLive, Named, Doomed, Types, Kinds, XrayKinds, Steps, Building, Serving
<1>3. ResolverHasListener'
  BY DEF ResolverHasListener, Pointed, Listening, Doomed, Aimed, Types, Kinds, XrayKinds, Steps, Building, Serving
<1>4. running' => Doomed'
  BY DEF Doomed, Types, Kinds, XrayKinds, Steps, Building, Serving
<1>5. running' => Aimed'
  BY DEF Aimed, Types, Kinds, XrayKinds, Steps, Building, Serving
<1>6. running' /\ ~refused' => Cleared'
  BY <1>r DEF Cleared, Doomed, Accounted, Types, Kinds, XrayKinds, Steps, Building, Serving
<1>7. running' /\ ~refused' => Accounted'
  BY <1>r DEF Accounted, Cleared, Doomed, Types, Kinds, XrayKinds, Steps, Building, Serving
<1>. QED BY <1>1, <1>2, <1>3, <1>4, <1>5, <1>6, <1>7 DEF IInv

\* The Xray slots are emptied before what they named closes.
LEMMA UnslotKeeps == ASSUME IInv, unslot PROVE IInv'
<1>. USE DEF IInv, running, unslot, At, Goto, caller, call, profile, process
<1>r. \A r \in up : r = <<r[1], r[2]>> /\ r[1] \in Kinds /\ r[2] \in Ids /\ r[2] # 0
  BY Running
<1>1. Types'
  BY Names DEF Types, Steps, Building, Serving
<1>2. XraySlotsAreLive'
  BY DEF XraySlotsAreLive, Named, Doomed, Types, Kinds, XrayKinds, Steps, Building, Serving
<1>3. ResolverHasListener'
  BY DEF ResolverHasListener, Pointed, Listening, Doomed, Aimed, Types, Kinds, XrayKinds, Steps, Building, Serving
<1>4. running' => Doomed'
  BY DEF Doomed, Types, Kinds, XrayKinds, Steps, Building, Serving
<1>5. running' => Aimed'
  BY DEF Aimed, Types, Kinds, XrayKinds, Steps, Building, Serving
<1>6. running' /\ ~refused' => Cleared'
  BY <1>r DEF Cleared, Doomed, Accounted, Types, Kinds, XrayKinds, Steps, Building, Serving
<1>7. running' /\ ~refused' => Accounted'
  BY <1>r DEF Accounted, Cleared, Doomed, Types, Kinds, XrayKinds, Steps, Building, Serving
<1>. QED BY <1>1, <1>2, <1>3, <1>4, <1>5, <1>6, <1>7 DEF IInv

\* The Xray instances close; no slot names them.
LEMMA CloseXrayKeeps == ASSUME IInv, closeXray PROVE IInv'
<1>. USE DEF IInv, running, closeXray, StartFails, At, Return, Answer, caller, call, profile, process
<1>r. \A r \in up : r = <<r[1], r[2]>> /\ r[1] \in Kinds /\ r[2] \in Ids /\ r[2] # 0
  BY Running
<1>1. Types'
  BY Names DEF Types, Steps, Building, Serving
<1>2. XraySlotsAreLive'
  BY DEF XraySlotsAreLive, Named, Doomed, Types, Kinds, XrayKinds, Steps, Building, Serving
<1>3. ResolverHasListener'
  BY DEF ResolverHasListener, Pointed, Listening, Doomed, Aimed, Types, Kinds, XrayKinds, Steps, Building, Serving
<1>4. running' => Doomed'
  BY DEF Doomed, Types, Kinds, XrayKinds, Steps, Building, Serving
<1>5. running' => Aimed'
  BY DEF Aimed, Types, Kinds, XrayKinds, Steps, Building, Serving
<1>6. running' /\ ~refused' => Cleared'
  BY <1>r DEF Cleared, Doomed, Accounted, Types, Kinds, XrayKinds, Steps, Building, Serving
<1>7. running' /\ ~refused' => Accounted'
  BY <1>r DEF Accounted, Cleared, Doomed, Types, Kinds, XrayKinds, Steps, Building, Serving
<1>. QED BY <1>1, <1>2, <1>3, <1>4, <1>5, <1>6, <1>7 DEF IInv

\* The Teardown waits for the lock like a call.
LEMMA ShutdownKeeps == ASSUME IInv, shutdown PROVE IInv'
<1>. USE DEF IInv, running, shutdown, caller, call, profile, process
<1>r. \A r \in up : r = <<r[1], r[2]>> /\ r[1] \in Kinds /\ r[2] \in Ids /\ r[2] # 0
  BY Running
<1>1. Types'
  <2>1. Teardown \in Calls
    BY DEF Calls
  <2>. QED BY <2>1 DEF Types
<1>2. XraySlotsAreLive'
  BY DEF XraySlotsAreLive, Named, Doomed, Types, Kinds, XrayKinds, Steps, Building, Serving
<1>3. ResolverHasListener'
  BY DEF ResolverHasListener, Pointed, Listening, Doomed, Aimed, Types, Kinds, XrayKinds, Steps, Building, Serving
<1>4. running' => Doomed'
  BY DEF Doomed, Types, Kinds, XrayKinds, Steps, Building, Serving
<1>5. running' => Aimed'
  BY DEF Aimed, Types, Kinds, XrayKinds, Steps, Building, Serving
<1>6. running' /\ ~refused' => Cleared'
  BY <1>r DEF Cleared, Doomed, Accounted, Types, Kinds, XrayKinds, Steps, Building, Serving
<1>7. running' /\ ~refused' => Accounted'
  BY <1>r DEF Accounted, Cleared, Doomed, Types, Kinds, XrayKinds, Steps, Building, Serving
<1>. QED BY <1>1, <1>2, <1>3, <1>4, <1>5, <1>6, <1>7 DEF IInv

\* The core is gone.
LEMMA ExitKeeps == ASSUME IInv, NEW how, Exit(how) PROVE IInv'
<1>. USE DEF IInv, running, Exit, caller, call, profile, process
<1>r. \A r \in up : r = <<r[1], r[2]>> /\ r[1] \in Kinds /\ r[2] \in Ids /\ r[2] # 0
  BY Running
<1>1. Types'
  BY Names DEF Types, Survivors, Steps, Building, Serving
<1>2. XraySlotsAreLive'
  BY DEF XraySlotsAreLive, Named, Doomed, Types, Kinds, XrayKinds, Steps, Building, Serving
<1>3. ResolverHasListener'
  BY DEF ResolverHasListener, Pointed, Listening, Doomed, Aimed, Types, Kinds, XrayKinds, Steps, Building, Serving
<1>4. running' => Doomed'
  BY DEF Doomed, Types, Kinds, XrayKinds, Steps, Building, Serving
<1>5. running' => Aimed'
  BY DEF Aimed, Types, Kinds, XrayKinds, Steps, Building, Serving
<1>6. running' /\ ~refused' => Cleared'
  BY <1>r DEF Cleared, Doomed, Accounted, Types, Kinds, XrayKinds, Steps, Building, Serving
<1>7. running' /\ ~refused' => Accounted'
  BY <1>r DEF Accounted, Cleared, Doomed, Types, Kinds, XrayKinds, Steps, Building, Serving
<1>. QED BY <1>1, <1>2, <1>3, <1>4, <1>5, <1>6, <1>7 DEF IInv

\* The GUI is gone.
LEMMA DropIpcKeeps == ASSUME IInv, dropIpc PROVE IInv'
<1>. USE DEF IInv, running, dropIpc, caller, call, profile, process
<1>r. \A r \in up : r = <<r[1], r[2]>> /\ r[1] \in Kinds /\ r[2] \in Ids /\ r[2] # 0
  BY Running
<1>1. Types'
  BY Names DEF Types, Steps, Building, Serving
<1>2. XraySlotsAreLive'
  BY DEF XraySlotsAreLive, Named, Doomed, Types, Kinds, XrayKinds, Steps, Building, Serving
<1>3. ResolverHasListener'
  BY DEF ResolverHasListener, Pointed, Listening, Doomed, Aimed, Types, Kinds, XrayKinds, Steps, Building, Serving
<1>4. running' => Doomed'
  BY DEF Doomed, Types, Kinds, XrayKinds, Steps, Building, Serving
<1>5. running' => Aimed'
  BY DEF Aimed, Types, Kinds, XrayKinds, Steps, Building, Serving
<1>6. running' /\ ~refused' => Cleared'
  BY <1>r DEF Cleared, Doomed, Accounted, Types, Kinds, XrayKinds, Steps, Building, Serving
<1>7. running' /\ ~refused' => Accounted'
  BY <1>r DEF Accounted, Cleared, Doomed, Types, Kinds, XrayKinds, Steps, Building, Serving
<1>. QED BY <1>1, <1>2, <1>3, <1>4, <1>5, <1>6, <1>7 DEF IInv

\* The main goroutine releases the DNS under the handler.
LEMMA DropReleaseKeeps == ASSUME IInv, NEW ok \in BOOLEAN, dropRelease(ok) PROVE IInv'
<1>. USE DEF IInv, running, dropRelease, Release, Pointed, caller, call, profile, process
<1>r. \A r \in up : r = <<r[1], r[2]>> /\ r[1] \in Kinds /\ r[2] \in Ids /\ r[2] # 0
  BY Running
<1>1. Types'
  BY Names DEF Types, Steps, Building, Serving
<1>2. XraySlotsAreLive'
  BY DEF XraySlotsAreLive, Named, Doomed, Types, Kinds, XrayKinds, Steps, Building, Serving
<1>3. ResolverHasListener'
  BY DEF ResolverHasListener, Pointed, Listening, Doomed, Aimed, Types, Kinds, XrayKinds, Steps, Building, Serving
<1>4. running' => Doomed'
  BY DEF Doomed, Types, Kinds, XrayKinds, Steps, Building, Serving
<1>5. running' => Aimed'
  BY DEF Aimed, Types, Kinds, XrayKinds, Steps, Building, Serving
<1>6. running' /\ ~refused' => Cleared'
  BY <1>r DEF Cleared, Doomed, Accounted, Types, Kinds, XrayKinds, Steps, Building, Serving
<1>7. running' /\ ~refused' => Accounted'
  BY <1>r DEF Accounted, Cleared, Doomed, Types, Kinds, XrayKinds, Steps, Building, Serving
<1>. QED BY <1>1, <1>2, <1>3, <1>4, <1>5, <1>6, <1>7 DEF IInv

\* A core that has just come up.
LEMMA InitLemma == Init => IInv
<1>. SUFFICES ASSUME Init PROVE IInv
  OBVIOUS
<1>. USE MaxCallsAssumption, Names DEF Init
<1>1. Types
  BY DEF Types, Steps, Building, Serving
<1>2. XraySlotsAreLive /\ ResolverHasListener
  BY DEF XraySlotsAreLive, ResolverHasListener, Pointed, XrayKinds, Kinds
<1>3. Doomed /\ Aimed
  BY DEF Doomed, Aimed
<1>4. Cleared /\ Accounted
  BY DEF Cleared, Accounted, Kinds, XrayKinds, Building, Serving
<1>. QED BY <1>1, <1>2, <1>3, <1>4 DEF IInv

\* A step that changes nothing.
LEMMA StutterLemma == ASSUME IInv, UNCHANGED vars PROVE IInv'
<1>. USE DEF IInv, vars, caller, call, profile, process, running
<1>1. Types' /\ XraySlotsAreLive' /\ ResolverHasListener'
  BY DEF Types, XraySlotsAreLive, ResolverHasListener, Pointed, Listening, Named
<1>2. running' => Doomed' /\ Aimed'
  BY DEF Doomed, Aimed
<1>3. running' /\ ~refused' => Cleared' /\ Accounted'
  BY DEF Cleared, Accounted
<1>. QED BY <1>1, <1>2, <1>3 DEF IInv

\* Every step of every goroutine keeps the invariant.
LEMMA NextLemma == IInv /\ [Next]_vars => IInv'
<1>. SUFFICES ASSUME IInv, [Next]_vars PROVE IInv'
  OBVIOUS
<1>1. CASE SendStart \/ SendStop \/ CallTimesOut
  BY <1>1, SendStartKeeps, SendStopKeeps, CallTimesOutKeeps
<1>2. CASE \E c \in waiting : Lock(c)
  BY <1>2, LockStopKeeps, LockStartKeeps DEF Lock
<1>3. CASE Start
  <2>1. CASE alreadyStarted \/ startXray \/ xrayFails \/ startXrayFullGates \/ fullGatesFail
    BY <2>1, AlreadyStartedKeeps, StartXrayKeeps, XrayFailsKeeps, StartFullKeeps, FullFailsKeeps
  <2>2. CASE \E ok \in BOOLEAN : prepareFails(ok) \/ createFails(ok) \/ applyFails(ok) \/ stopSidecars(ok)
    BY <2>2, PrepareFailsKeeps, CreateFailsKeeps, ApplyFailsKeeps, StopSidecarsKeeps
  <2>3. CASE prepareDns \/ createBox \/ applyDns \/ disablePanics \/ startDone
    BY <2>3, PrepareDnsKeeps, CreateBoxKeeps, ApplyDnsKeeps, DisablePanicsKeeps, StartDoneKeeps
  <2>4. CASE \E b \in BOOLEAN : extraFails(b) \/ startExtra(b) \/ disableRelay(b)
    BY <2>4, ExtraFailsKeeps, StartExtraKeeps, DisableRelayKeeps
  <2>. QED BY <1>3, <2>1, <2>2, <2>3, <2>4 DEF Start
<1>4. CASE Stop
  <2>1. CASE nothingToStop \/ closeHangs \/ closeBox \/ stopExtra \/ unslot \/ closeXray
    BY <2>1, NothingToStopKeeps, CloseHangsKeeps, CloseBoxKeeps, StopExtraKeeps, UnslotKeeps, CloseXrayKeeps
  <2>2. CASE \E b, ok \in BOOLEAN : unpublish(b, ok)
    BY <2>2, UnpublishKeeps
  <2>. QED BY <1>4, <2>1, <2>2 DEF Stop
<1>5. CASE shutdown \/ dropIpc \/ \E ok \in BOOLEAN : dropRelease(ok)
  BY <1>5, ShutdownKeeps, DropIpcKeeps, DropReleaseKeeps
<1>6. CASE teardownDone \/ teardownTimesOut \/ Killed \/ dropExit
  BY <1>6, ExitKeeps DEF teardownDone, teardownTimesOut, Killed, dropExit
<1>7. CASE Finished
  BY <1>7, StutterLemma DEF Finished
<1>8. CASE UNCHANGED vars
  BY <1>8, StutterLemma
<1>. QED BY <1>1, <1>2, <1>3, <1>4, <1>5, <1>6, <1>7, <1>8 DEF Next

(* Every state of every run satisfies the inductive invariant. *)
THEOREM Invariance == Spec => []IInv
BY InitLemma, NextLemma, PTL DEF Spec

(* Between two calls everything lifecycle.go started has a package variable *)
(* that names it, whichever way the Start before ended.                    *)
THEOREM NothingEverForgotten == Spec => []NothingForgotten
<1>1. IInv => NothingForgotten
  BY DEF IInv, Doomed, Accounted, NothingForgotten, Free
<1>. QED BY Invariance, <1>1, PTL

(* A poller that reads an Xray slot of the core without the lock finds an  *)
(* instance or a gate that runs.                                           *)
THEOREM XraySlotsAlwaysLive == Spec => []XraySlotsAreLive
<1>1. IInv => XraySlotsAreLive
  BY DEF IInv
<1>. QED BY Invariance, <1>1, PTL

(* The system resolver is pointed at a box that is gone or closing only by *)
(* a Release that could not put a service back, although dropRelease       *)
(* changes the DNS without lifecycleMu.                                    *)
THEOREM ResolverAlwaysHasListener == Spec => []ResolverHasListener
<1>1. IInv => ResolverHasListener
  BY DEF IInv
<1>. QED BY Invariance, <1>1, PTL
=============================================================================
