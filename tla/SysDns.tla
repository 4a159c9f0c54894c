------------------------------- MODULE SysDns -------------------------------
(***************************************************************************)
(* The macOS system DNS (core/internal/sysdns).  While a Tun profile runs  *)
(* the network service of the default interface is pointed at the core; a  *)
(* record on disk, written before every change, lets the next core put     *)
(* back what one that died left behind.  A process runs one function at a  *)
(* time (mu); every command and every write of the file is a step, so that *)
(* a kill may come between any two of them.                                *)
(***************************************************************************)
EXTENDS Naturals, FiniteSets

CONSTANTS
    Services, None,    \* the network services
    Procs,             \* the cores, and the --restore-dns helpers, that are ever launched; each has a PID of its own
    Overlap            \* a core may be launched while an older one is still alive

ASSUME NoneAssumption == None \notin Services \cup Procs
ASSUME OverlapAssumption == Overlap \in BOOLEAN

VARIABLES
    sys,         \* the DNS servers of each service: "user" (its own), "address" (ours) or "empty"
    alias,       \* lo0 has the address
    def,         \* the service of the default interface, or None
    disk,        \* system-dns.json
    flock,       \* the process inside withStateLock while it replays a record
    life,        \* of each process: "new", "live" or "dead"
    pc, op,      \* where it is, and in which function
    owned,       \* its owned
    current,     \* its current
    session,     \* what Start has had it do: "none", "prepared" or "applied"
    watching,    \* its callback is registered
    follows,     \* follow() goroutines that wait for mu: of this registration and of an older one
    stored,      \* the record it replays
    todo,        \* the services left to put back
    point,       \* the service it is pointing at itself
    stuck        \* history: the alias could not be removed

world == <<sys, alias, def, disk, flock, stuck>>
memory == <<owned, current, session, watching, follows, stored, todo, point>>
vars == <<world, life, pc, op, memory>>

Values == {"user", "address", "empty"}
\* Services : what to put back, "none" for a service that is not in the map.
NoServices == [s \in Services |-> "none"]
Record == [pid : Procs \cup {None}, alias : BOOLEAN, services : [Services -> Values \cup {"none"}]]
NoRecord == [pid |-> None, alias |-> FALSE, services |-> NoServices]
Mapped(services) == {s \in Services : services[s] # "none"}

TypeOK ==
    /\ sys \in [Services -> Values] /\ alias \in BOOLEAN /\ def \in Services \cup {None}
    /\ disk \in Record /\ flock \in Procs \cup {None} /\ stuck \in BOOLEAN
    /\ life \in [Procs -> {"new", "live", "dead"}]
    /\ pc \in [Procs -> {"idle", "stale", "replay", "replayEnd", "save", "alias", "probe", "follow", "fSave", "fSet", "fBack",
                         "fBackSave", "release", "restore", "relSave", "relEnd"}]
    /\ op \in [Procs -> {"none", "startup", "prepare", "apply", "follow", "release"}]
    /\ owned \in [Procs -> Record] /\ stored \in [Procs -> Record]
    /\ current \in [Procs -> Services \cup {None}] /\ point \in [Procs -> Services \cup {None}]
    /\ session \in [Procs -> {"none", "prepared", "applied"}] /\ watching \in [Procs -> BOOLEAN]
    /\ follows \in [Procs -> SUBSET {"live", "stale"}] /\ todo \in [Procs -> SUBSET Services]

Init ==
    /\ sys = [s \in Services |-> "user"] /\ alias = FALSE /\ def \in Services \cup {None}
    /\ disk = NoRecord /\ flock = None /\ stuck = FALSE
    /\ life = [p \in Procs |-> "new"]
    /\ pc = [p \in Procs |-> "idle"] /\ op = [p \in Procs |-> "none"]
    /\ owned = [p \in Procs |-> NoRecord] /\ stored = [p \in Procs |-> NoRecord]
    /\ current = [p \in Procs |-> None] /\ point = [p \in Procs |-> None]
    /\ session = [p \in Procs |-> "none"] /\ watching = [p \in Procs |-> FALSE]
    /\ follows = [p \in Procs |-> {}] /\ todo = [p \in Procs |-> {}]

At(p, step) == life[p] = "live" /\ pc[p] = step
Goto(p, step) == pc' = [pc EXCEPT ![p] = step] /\ UNCHANGED <<life, op>>
Call(p, f, step) == pc' = [pc EXCEPT ![p] = step] /\ op' = [op EXCEPT ![p] = f] /\ UNCHANGED life
Return(p) == Call(p, "none", "idle")

alive(n) == n \in Procs /\ life[n] = "live"

\* setDNSServers; an empty list is written as Empty.
setDNSServers(s, servers) == sys' = [sys EXCEPT ![s] = servers]

\* saveLocked, which waits for whoever holds the file lock; writeRecord renames a file into place.
saveLocked(p, record, ok) ==
    /\ flock = None
    /\ IF ok THEN disk' = [record EXCEPT !.pid = p] ELSE UNCHANGED disk

\* A command that fails is logged, and the alias counted as removed.
removeAlias(was, ok) ==
    /\ alias' = (alias /\ ~(was /\ ok))
    /\ stuck' = (stuck \/ (was /\ alias /\ ~ok))

-----------------------------------------------------------------------------
(* Processes and the network.                                              *)

\* RunCore calls RestoreStale first; the --restore-dns helper calls nothing else.
Launch(p) ==
    /\ life[p] = "new"
    /\ ~Overlap => \A q \in Procs : life[q] # "live"
    /\ life' = [life EXCEPT ![p] = "live"]
    /\ pc' = [pc EXCEPT ![p] = "stale"] /\ op' = [op EXCEPT ![p] = "startup"]
    /\ UNCHANGED <<world, memory>>

\* The process ends, killed or not, and its memory and its lock with it.
Killed(p) ==
    /\ life[p] = "live" /\ life' = [life EXCEPT ![p] = "dead"]
    /\ flock' = IF flock = p THEN None ELSE flock
    /\ pc' = [pc EXCEPT ![p] = "idle"] /\ op' = [op EXCEPT ![p] = "none"]
    /\ owned' = [owned EXCEPT ![p] = NoRecord] /\ stored' = [stored EXCEPT ![p] = NoRecord]
    /\ current' = [current EXCEPT ![p] = None] /\ point' = [point EXCEPT ![p] = None]
    /\ session' = [session EXCEPT ![p] = "none"] /\ watching' = [watching EXCEPT ![p] = FALSE]
    /\ follows' = [follows EXCEPT ![p] = {}] /\ todo' = [todo EXCEPT ![p] = {}]
    /\ UNCHANGED <<sys, alias, def, disk, stuck>>

\* The monitor's callback starts a goroutine.
DefaultChanges(s) ==
    /\ s # def /\ def' = s
    /\ follows' = [p \in Procs |-> IF watching[p] THEN follows[p] \cup {"live"} ELSE follows[p]]
    /\ UNCHANGED <<sys, alias, disk, flock, stuck, life, pc, op, owned, current, session, watching, stored, todo, point>>

-----------------------------------------------------------------------------
(* restoreStaleLocked, at the start of a process and of Prepare.           *)

stalePasses(p) == disk = NoRecord \/ disk.pid = p \/ alive(disk.pid)

staleLook(p) ==
    /\ At(p, "stale") /\ flock = None
    /\ IF stalePasses(p)
       THEN /\ IF op[p] = "startup" THEN Return(p) ELSE Goto(p, "save")
            /\ UNCHANGED <<flock, stored, todo>>
       ELSE /\ Goto(p, "replay")
            /\ flock' = p /\ stored' = [stored EXCEPT ![p] = disk]
            /\ todo' = [todo EXCEPT ![p] = Mapped(disk.services)]
    /\ UNCHANGED <<sys, alias, def, disk, stuck, owned, current, session, watching, follows, point>>

replay(p, s, ok) ==
    /\ At(p, "replay") /\ s \in todo[p]
    /\ todo' = [todo EXCEPT ![p] = @ \ {s}]
    /\ IF ok
       THEN /\ setDNSServers(s, stored[p].services[s])
            /\ stored' = [stored EXCEPT ![p].services[s] = "none"]
       ELSE UNCHANGED <<sys, stored>>
    /\ UNCHANGED <<alias, def, disk, flock, stuck, life, pc, op, owned, current, session, watching, follows, point>>

replayAlias(p, removed) ==
    /\ At(p, "replay") /\ todo[p] = {}
    /\ removeAlias(stored[p].alias, removed) /\ stored' = [stored EXCEPT ![p].alias = FALSE]
    /\ Goto(p, "replayEnd")
    /\ UNCHANGED <<sys, def, disk, flock, owned, current, session, watching, follows, todo, point>>

\* The file is removed, or written with the services it could not put back, which Prepare takes over.
replayEnd(p, ok) ==
    /\ At(p, "replayEnd")
    /\ disk' = CASE ~ok -> disk
                 [] ok /\ Mapped(stored[p].services) = {} -> NoRecord
                 [] OTHER -> stored[p]
    /\ flock' = None
    /\ IF op[p] = "startup" THEN Return(p) /\ stored' = [stored EXCEPT ![p] = NoRecord]
       ELSE Goto(p, "save") /\ UNCHANGED stored
    /\ UNCHANGED <<sys, alias, def, stuck, owned, current, session, watching, follows, todo, point>>

-----------------------------------------------------------------------------
(* Prepare.                                                                *)

Prepare(p) ==
    /\ At(p, "idle") /\ session[p] = "none"
    /\ Call(p, "prepare", "stale")
    /\ UNCHANGED <<world, memory>>

\* Start calls Release when Prepare or Apply fails.
Fail(p) == Call(p, "release", "release") /\ session' = [session EXCEPT ![p] = "prepared"]

\* owned takes the leftovers over, claims the alias if nobody else has put it there, and is saved.
prepareSave(p, ok) ==
    LET taken == [pid |-> p, alias |-> owned[p].alias \/ ~alias,
                  services |-> [s \in Services |-> IF stored[p].services[s] # "none" THEN stored[p].services[s]
                                                   ELSE owned[p].services[s]]]
    IN  /\ At(p, "save")
        /\ saveLocked(p, taken, ok)
        /\ owned' = [owned EXCEPT ![p] = taken] /\ stored' = [stored EXCEPT ![p] = NoRecord]
        /\ IF ok THEN Goto(p, "alias") /\ UNCHANGED session ELSE Fail(p)
        /\ UNCHANGED <<sys, alias, def, flock, stuck, current, watching, follows, todo, point>>

addAlias(p, ok) ==
    /\ At(p, "alias")
    /\ alias' = (alias \/ (owned[p].alias /\ ok))
    /\ IF ok \/ alias \/ ~owned[p].alias THEN Goto(p, "probe") /\ UNCHANGED session ELSE Fail(p)
    /\ UNCHANGED <<sys, def, disk, flock, stuck, owned, current, watching, follows, stored, todo, point>>

probe(p, ok) ==
    /\ At(p, "probe")
    /\ IF ok THEN Return(p) /\ session' = [session EXCEPT ![p] = "prepared"] ELSE Fail(p)
    /\ UNCHANGED <<world, owned, current, watching, follows, stored, todo, point>>

-----------------------------------------------------------------------------
(* Apply, and follow() when the default interface changes.                 *)

Apply(p) ==
    /\ At(p, "idle") /\ session[p] = "prepared"
    /\ watching' = [watching EXCEPT ![p] = TRUE]
    /\ Call(p, "apply", "follow")
    /\ UNCHANGED <<world, owned, current, session, follows, stored, todo, point>>

follow(p) ==
    /\ At(p, "idle") /\ "live" \in follows[p]
    /\ follows' = [follows EXCEPT ![p] = @ \ {"live"}]
    /\ Call(p, "follow", "follow")
    /\ UNCHANGED <<world, owned, current, session, watching, stored, todo, point>>

\* Mutation: a goroutine of a registration that Release has ended goes on.
MutFollowLate(p) ==
    /\ At(p, "idle") /\ "stale" \in follows[p]
    /\ follows' = [follows EXCEPT ![p] = @ \ {"stale"}]
    /\ Call(p, "follow", "follow")
    /\ UNCHANGED <<world, owned, current, session, watching, stored, todo, point>>

followLate(p) ==
    /\ At(p, "idle") /\ "stale" \in follows[p]
    /\ follows' = [follows EXCEPT ![p] = @ \ {"stale"}]
    /\ UNCHANGED <<world, life, pc, op, owned, current, session, watching, stored, todo, point>>

FollowReturns(p, ok) ==
    IF op[p] = "apply" /\ ~ok THEN Fail(p)
    ELSE /\ Return(p)
         /\ session' = IF op[p] = "apply" THEN [session EXCEPT ![p] = "applied"] ELSE session

\* followLocked, up to the change; listing the services or reading one's servers may fail.
followLook(p, ok) ==
    /\ At(p, "follow")
    /\ IF def = None \/ (ok /\ def = current[p]) THEN FollowReturns(p, TRUE) /\ UNCHANGED <<owned, point>>
       ELSE IF ~ok THEN FollowReturns(p, FALSE) /\ UNCHANGED <<owned, point>>
       ELSE /\ point' = [point EXCEPT ![p] = def]
            /\ IF owned[p].services[def] # "none" THEN Goto(p, "fSet") /\ UNCHANGED owned
               ELSE /\ Goto(p, "fSave")
                    /\ owned' = [owned EXCEPT ![p].services[def] = IF sys[def] = "address" THEN "empty" ELSE sys[def]]
            /\ UNCHANGED session
    /\ UNCHANGED <<world, current, watching, follows, stored, todo>>

\* Mutation: the change is made before it is recorded.
MutChangeFirst(p, ok) ==
    /\ At(p, "fSave")
    /\ setDNSServers(point[p], "address")
    /\ UNCHANGED disk
    /\ Goto(p, "fBackSave") /\ UNCHANGED <<owned, session>>
    /\ UNCHANGED <<alias, def, flock, stuck, current, watching, follows, stored, todo, point>>

\* pointLocked: the record first, then the change.
pointSave(p, ok) ==
    /\ At(p, "fSave")
    /\ saveLocked(p, owned[p], ok)
    /\ IF ok THEN Goto(p, "fSet") /\ UNCHANGED <<owned, session>>
       ELSE owned' = [owned EXCEPT ![p].services[point[p]] = "none"] /\ FollowReturns(p, FALSE)
    /\ UNCHANGED <<sys, alias, def, flock, stuck, current, watching, follows, stored, todo, point>>

pointSet(p, ok) ==
    /\ At(p, "fSet")
    /\ IF ~ok THEN FollowReturns(p, FALSE) /\ UNCHANGED <<sys, current>>
       ELSE /\ setDNSServers(point[p], "address")
            /\ IF current[p] # None THEN Goto(p, "fBack") /\ UNCHANGED <<current, session>>
               ELSE current' = [current EXCEPT ![p] = point[p]] /\ FollowReturns(p, TRUE)
    /\ UNCHANGED <<alias, def, disk, flock, stuck, owned, watching, follows, stored, todo, point>>

\* restoreLocked, for the service followed so far.
followBack(p, ok) ==
    /\ At(p, "fBack")
    /\ IF ok
       THEN /\ setDNSServers(current[p], owned[p].services[current[p]])
            /\ owned' = [owned EXCEPT ![p].services[current[p]] = "none"]
            /\ Goto(p, "fBackSave") /\ UNCHANGED <<current, session>>
       ELSE /\ current' = [current EXCEPT ![p] = point[p]] /\ FollowReturns(p, TRUE)
            /\ UNCHANGED <<sys, owned>>
    /\ UNCHANGED <<alias, def, disk, flock, stuck, watching, follows, stored, todo, point>>

followBackSave(p, ok) ==
    /\ At(p, "fBackSave")
    /\ saveLocked(p, owned[p], ok)
    /\ current' = [current EXCEPT ![p] = point[p]] /\ FollowReturns(p, TRUE)
    /\ UNCHANGED <<sys, alias, def, flock, stuck, owned, watching, follows, stored, todo, point>>

-----------------------------------------------------------------------------
(* Release.                                                                *)

Release(p) ==
    /\ At(p, "idle") /\ session[p] # "none"
    /\ Call(p, "release", "release")
    /\ UNCHANGED <<world, memory>>

\* The callback is unregistered and the generation ends; the services are put back one by one.
releaseBegin(p) ==
    /\ At(p, "release")
    /\ watching' = [watching EXCEPT ![p] = FALSE] /\ current' = [current EXCEPT ![p] = None]
    /\ follows' = [follows EXCEPT ![p] = IF @ = {} THEN {} ELSE {"stale"}]
    /\ todo' = [todo EXCEPT ![p] = Mapped(owned[p].services)]
    /\ Goto(p, "restore")
    /\ UNCHANGED <<world, owned, session, stored, point>>

restoreLocked(p, s, ok) ==
    /\ At(p, "restore") /\ s \in todo[p]
    /\ todo' = [todo EXCEPT ![p] = @ \ {s}]
    /\ IF ok
       THEN /\ setDNSServers(s, owned[p].services[s])
            /\ owned' = [owned EXCEPT ![p].services[s] = "none"]
            /\ Goto(p, "relSave")
       ELSE UNCHANGED <<sys, owned, life, pc, op>>
    /\ UNCHANGED <<alias, def, disk, flock, stuck, current, session, watching, follows, stored, point>>

restoreSave(p, ok) ==
    /\ At(p, "relSave")
    /\ saveLocked(p, owned[p], ok)
    /\ Goto(p, "restore")
    /\ UNCHANGED <<sys, alias, def, flock, stuck, memory>>

releaseAlias(p, removed) ==
    /\ At(p, "restore") /\ todo[p] = {}
    /\ removeAlias(owned[p].alias, removed)
    /\ owned' = [owned EXCEPT ![p].alias = FALSE]
    /\ Goto(p, "relEnd")
    /\ UNCHANGED <<sys, def, disk, flock, current, session, watching, follows, stored, todo, point>>

\* What could not be put back stays on record under this PID; otherwise removeRecordLocked.
releaseEnd(p, ok) ==
    /\ At(p, "relEnd") /\ flock = None
    /\ IF Mapped(owned[p].services) # {} THEN saveLocked(p, owned[p], ok) /\ UNCHANGED owned
       ELSE /\ disk' = IF ok /\ disk.pid = p THEN NoRecord ELSE disk
            /\ owned' = [owned EXCEPT ![p] = NoRecord]
    /\ session' = [session EXCEPT ![p] = "none"]
    /\ Return(p)
    /\ UNCHANGED <<sys, alias, def, flock, stuck, current, watching, follows, stored, todo, point>>

-----------------------------------------------------------------------------
Step(p) ==
    \/ Prepare(p) \/ Apply(p) \/ Release(p) \/ releaseBegin(p)
    \/ staleLook(p) \/ follow(p) \/ followLate(p)
    \/ \E ok \in BOOLEAN :
        \/ replayAlias(p, ok) \/ replayEnd(p, ok)
        \/ prepareSave(p, ok) \/ addAlias(p, ok) \/ probe(p, ok)
        \/ followLook(p, ok) \/ pointSave(p, ok) \/ pointSet(p, ok) \/ followBack(p, ok) \/ followBackSave(p, ok)
        \/ restoreSave(p, ok) \/ releaseAlias(p, ok) \/ releaseEnd(p, ok)
        \/ \E s \in Services : replay(p, s, ok) \/ restoreLocked(p, s, ok)

Next ==
    \/ \E p \in Procs : Step(p) \/ Killed(p) \/ Launch(p)
    \/ \E s \in Services \cup {None} : DefaultChanges(s)

Spec == Init /\ [][Next]_vars

-----------------------------------------------------------------------------
\* "record is written before every change, so whatever a dead core left behind can be put back by the next one":
\* at every moment, and so wherever a kill comes, a service that is not as the user had it is on record with what
\* the user had.
\* The alias a core has added is on record too until it is removed, so that the next core removes it and does not
\* take it for somebody else's; unless removing it has failed, which nobody retries.
Recoverable ==
    /\ \A s \in Services : sys[s] # "user" => disk.services[s] = "user"
    /\ alias /\ ~stuck => disk.alias

\* The same for "a dead core" alone: what a core that lives remembers it can put back itself.
DeadRecoverable ==
    \A s \in Services : sys[s] # "user" =>
        disk.services[s] = "user" \/ \E p \in Procs : life[p] = "live" /\ owned[p].services[s] = "user"

\* Nothing follows the default interface after Release: a service is pointed at a core only between its Prepare and
\* the end of its Release.
PointsOnlyInSession ==
    [][\A s \in Services : sys[s] # "address" /\ sys'[s] = "address" =>
          \E p \in Procs : session[p] # "none" /\ owned[p].services[s] # "none"]_vars
=============================================================================
