---------------------------- MODULE SysDnsProofs ----------------------------
(***************************************************************************)
(* The system DNS of macOS, for any services and any number of cores       *)
(* launched one after the other.                                           *)
(*                                                                         *)
(* Recoverable speaks of the disk and of the system only.  It is kept      *)
(* because of what a live core remembers and does not show: everything     *)
(* that is not as the user had it is in its own record (Remembers) or in   *)
(* the one it replays (Replays); that record is on disk before a change    *)
(* and leaves it after the change is undone (Saved); and only what the     *)
(* user had ever gets into a record (UsersOnly), so that putting back      *)
(* never points a service at a core again.                                 *)
(*                                                                         *)
(* The theorems assume that one core is alive at a time.  With two, the    *)
(* younger passes the older one's record by and may overwrite it.          *)
(***************************************************************************)
EXTENDS SysDns, TLAPS

\* Where a process is in follow() once it has decided to change a service, in follow() at all, and in Release.
Pointing == {"fSave", "fSet", "fBack", "fBackSave"}
Following == {"follow"} \cup Pointing
Restoring == {"restore", "relSave", "relEnd"}

\* No two processes are alive at once, and one that never ran has left nothing.
Alone == \A p, q \in Procs : life[p] = "live" /\ life[q] = "live" => p = q
Fresh ==
    \A p \in Procs :
        /\ life[p] = "new" => disk.pid # p /\ \A q \in Procs : stored[q].pid # p
        /\ life[p] # "live" => /\ pc[p] = "idle" /\ session[p] = "none" /\ ~watching[p] /\ follows[p] = {}
                              /\ current[p] = None /\ stored[p] = NoRecord

\* What any record says to put back is what the user had.
Users(services) == \A s \in Services : services[s] \in {"user", "none"}
UsersOnly == Users(disk.services) /\ \A p \in Procs : Users(owned[p].services) /\ Users(stored[p].services)

\* A record with these services names every service that is not as the user had it; the alias is on it.
Covers(services) == \A s \in Services : sys[s] # "user" => services[s] = "user"
AliasOn(flag) == alias /\ ~stuck => flag

\* A process in a session, or whose record is on disk, remembers all that is to put back.
Remembers(p) ==
    pc[p] \in {"alias", "probe", "release"} \cup Following \cup Restoring \/ session[p] # "none" \/ disk.pid = p =>
        Covers(owned[p].services) /\ AliasOn(owned[p].alias)

\* The record a process replays covers what is left to put back; Prepare takes the leftovers over.
Replays(p) ==
    /\ stored[p].pid # p
    /\ pc[p] \in {"replay", "replayEnd"} => Covers(stored[p].services)
    /\ pc[p] = "replay" => AliasOn(stored[p].alias) /\ todo[p] \subseteq Mapped(stored[p].services)
    /\ pc[p] = "replayEnd" => AliasOn(FALSE)
    /\ pc[p] = "save" =>
         /\ \A s \in Services : sys[s] # "user" => stored[p].services[s] = "user" \/ owned[p].services[s] = "user"
         /\ AliasOn(owned[p].alias)
    /\ pc[p] \notin {"replay", "replayEnd", "save"} => stored[p] = NoRecord
    /\ pc[p] \in Restoring => todo[p] \subseteq Mapped(owned[p].services)

\* In a session what a process would put back is on disk too, but for the service it is about to save.
Saved(p) ==
    /\ pc[p] \in {"alias", "probe"} \cup Following \/ (pc[p] = "idle" /\ session[p] # "none") =>
         \A s \in Services :
            owned[p].services[s] = "user" /\ (pc[p] = "fSave" => s # point[p]) => disk.services[s] = "user"
    /\ pc[p] = "alias" => disk.alias = owned[p].alias
    /\ pc[p] = "relEnd" => ~owned[p].alias

\* Services are changed in a session only.
InSession(p) ==
    /\ pc[p] \in Following \cup {"release"} \cup Restoring => session[p] # "none"
    /\ pc[p] \in {"stale", "replay", "replayEnd", "save", "alias", "probe"} => session[p] = "none"
    /\ watching[p] => session[p] # "none" /\ pc[p] \notin Restoring
    /\ "live" \in follows[p] => watching[p]

\* The service a process points at itself, and the one it followed so far.
Points(p) ==
    /\ pc[p] \in Pointing => /\ point[p] \in Services /\ owned[p].services[point[p]] = "user"
                             /\ pc[p] # "fBackSave" => point[p] # current[p]
    /\ pc[p] = "fSave" => sys[point[p]] = "user"
    /\ pc[p] = "fBack" => current[p] # None
    /\ pc[p] \in Restoring => current[p] = None
    /\ current[p] # None /\ pc[p] # "fBackSave" => owned[p].services[current[p]] = "user"

\* All that is said of a live process.
Local(p) == Remembers(p) /\ Replays(p) /\ Saved(p) /\ InSession(p) /\ Points(p)

\* The inductive invariant.
IInv ==
    /\ TypeOK /\ Alone /\ Fresh /\ UsersOnly /\ Recoverable
    /\ \A p \in Procs : life[p] = "live" => Local(p)

\* A step of p alone: it may write its own PID or that of the record it replays to the disk.
Acts(p) ==
    /\ life[p] = "live" /\ UNCHANGED life
    /\ disk'.pid \in {disk.pid, None, p, stored[p].pid} /\ stored'[p].pid \in {disk.pid, stored[p].pid, None}
    /\ \A q \in Procs \ {p} : /\ pc'[q] = pc[q] /\ session'[q] = session[q] /\ watching'[q] = watching[q]
                             /\ follows'[q] = follows[q] /\ current'[q] = current[q]
                             /\ stored'[q] = stored[q] /\ owned'[q] = owned[q]

-----------------------------------------------------------------------------
\* Nothing has been launched yet.
LEMMA InitLemma == Init => IInv
<1> SUFFICES ASSUME Init PROVE IInv
  OBVIOUS
<1> USE NoneAssumption
<1>1. NoRecord \in Record
  BY DEF NoRecord, Record, NoServices, Values
<1>2. TypeOK
  BY <1>1 DEF Init, TypeOK, Values
<1>3. Alone /\ Fresh
  BY DEF Init, Alone, Fresh, NoRecord
<1>4. UsersOnly /\ Recoverable
  BY DEF Init, UsersOnly, Users, Recoverable, NoRecord, NoServices
<1> QED BY <1>2, <1>3, <1>4 DEF Init, IInv

\* A record stays one when the entry of a service is replaced.
LEMMA ServiceLemma ==
  ASSUME NEW f \in [Procs -> Record], NEW p \in Procs, NEW s \in Services, NEW v \in {"user", "empty", "none"}
  PROVE  [f EXCEPT ![p].services[s] = v] \in [Procs -> Record]
  BY DEF Record, Values

\* A service is dropped from it.
LEMMA DropLemma ==
  ASSUME NEW f \in [Procs -> Record], NEW p \in Procs, NEW s \in Services
  PROVE  [f EXCEPT ![p].services[s] = "none"] \in [Procs -> Record]
  BY DEF Record, Values

\* The alias is dropped from it.
LEMMA AliasLemma ==
  ASSUME NEW f \in [Procs -> Record], NEW p \in Procs
  PROVE  [f EXCEPT ![p].alias = FALSE] \in [Procs -> Record]
  BY DEF Record

\* It is written under a PID.
LEMMA PidLemma ==
  ASSUME NEW r \in Record, NEW p \in Procs
  PROVE  [r EXCEPT !.pid = p] \in Record
  BY DEF Record

\* Types are kept by every step.
LEMMA TypeStep ==
  ASSUME IInv, [Next]_vars
  PROVE  TypeOK'
<1> USE DEF TypeOK
<1>t. TypeOK
  BY DEF IInv
<1>0. NoRecord \in Record
  BY DEF Record, NoRecord, NoServices
<1>1. ASSUME NEW p \in Procs, Step(p) PROVE TypeOK'
  <2> USE <1>0, <1>t DEF At, Goto, Call, Return, Fail, FollowReturns, world, memory
  <2>1. CASE Prepare(p)
    BY <2>1 DEF Prepare
  <2>2. CASE Apply(p)
    BY <2>2 DEF Apply
  <2>3. CASE Release(p)
    BY <2>3 DEF Release
  <2>4. CASE releaseBegin(p)
    BY <2>4 DEF releaseBegin, Mapped
  <2>5. CASE staleLook(p)
    BY <2>5 DEF staleLook, Mapped
  <2>6. CASE follow(p)
    BY <2>6 DEF follow
  <2>7. CASE followLate(p)
    BY <2>7 DEF followLate
  <2>8. ASSUME NEW ok \in BOOLEAN, replayAlias(p, ok) PROVE TypeOK'
    <3>1. stored' \in [Procs -> Record]
      <4>1. stored' = [stored EXCEPT ![p].alias = FALSE]
        BY <2>8 DEF replayAlias
      <4> QED BY <4>1, AliasLemma
    <3>2. alias' \in BOOLEAN /\ stuck' \in BOOLEAN
      BY <2>8 DEF replayAlias, removeAlias
    <3> QED BY <2>8, <3>1, <3>2 DEF replayAlias
  <2>9. ASSUME NEW ok \in BOOLEAN, replayEnd(p, ok) PROVE TypeOK'
    BY <2>9 DEF replayEnd
  <2>10. ASSUME NEW ok \in BOOLEAN, prepareSave(p, ok) PROVE TypeOK'
    <3> DEFINE services == [s \in Services |-> IF stored[p].services[s] # "none" THEN stored[p].services[s]
                                              ELSE owned[p].services[s]]
    <3>1. services \in [Services -> Values \cup {"none"}]
      BY DEF Record
    <3>2. [pid |-> p, alias |-> owned[p].alias \/ ~alias, services |-> services] \in Record
      <4> HIDE DEF services
      <4> QED BY <3>1 DEF Record
    <3>3. owned' \in [Procs -> Record] /\ stored' \in [Procs -> Record]
      BY <2>10, <3>2 DEF prepareSave
    <3>4. disk' \in Record
      <4> DEFINE taken == [pid |-> p, alias |-> owned[p].alias \/ ~alias, services |-> services]
      <4>1. disk' = disk \/ disk' = [taken EXCEPT !.pid = p]
        BY <2>10 DEF prepareSave, saveLocked
      <4>2. taken \in Record
        BY <3>2
      <4> HIDE DEF taken
      <4>3. [taken EXCEPT !.pid = p] \in Record
        BY <4>2, PidLemma
      <4> QED BY <4>1, <4>3
    <3> QED BY <2>10, <3>3, <3>4 DEF prepareSave
  <2>11. ASSUME NEW ok \in BOOLEAN, addAlias(p, ok) PROVE TypeOK'
    BY <2>11 DEF addAlias
  <2>12. ASSUME NEW ok \in BOOLEAN, probe(p, ok) PROVE TypeOK'
    BY <2>12 DEF probe
  <2>13. ASSUME NEW ok \in BOOLEAN, followLook(p, ok) PROVE TypeOK'
    <3>1. owned' \in [Procs -> Record]
      <4>1. CASE def # None /\ owned' # owned
        <5>1. PICK v \in {"user", "empty"} : owned' = [owned EXCEPT ![p].services[def] = v]
          BY <2>13, <4>1 DEF followLook, Values
        <5> QED BY <5>1, <4>1, ServiceLemma
      <4> QED BY <2>13, <4>1 DEF followLook
    <3> QED BY <2>13, <3>1 DEF followLook
  <2>14. ASSUME NEW ok \in BOOLEAN, pointSave(p, ok) PROVE TypeOK'
    <3>1. disk' \in Record
      <4>1. disk' \in {disk, NoRecord, [owned[p] EXCEPT !.pid = p]}
        BY <2>14 DEF pointSave, saveLocked
      <4>2. [owned[p] EXCEPT !.pid = p] \in Record
        BY PidLemma
      <4> QED BY <4>1, <4>2
    <3>2. point[p] \in Services
      BY <2>14 DEF pointSave, IInv, Local, Points, Pointing
    <3>3. owned' \in [Procs -> Record]
      <4>1. owned' = owned \/ owned' = [owned EXCEPT ![p].services[point[p]] = "none"]
        BY <2>14 DEF pointSave
      <4>2. [owned EXCEPT ![p].services[point[p]] = "none"] \in [Procs -> Record]
        BY <3>2, DropLemma
      <4> QED BY <4>1, <4>2
    <3> QED BY <2>14, <3>1, <3>3 DEF pointSave
  <2>15. ASSUME NEW ok \in BOOLEAN, pointSet(p, ok) PROVE TypeOK'
    <3>1. point[p] \in Services
      BY <2>15 DEF pointSet, IInv, Local, Points, Pointing
    <3> QED BY <2>15, <3>1 DEF pointSet, setDNSServers, Values
  <2>16. ASSUME NEW ok \in BOOLEAN, followBack(p, ok) PROVE TypeOK'
    <3>1. current[p] \in Services /\ owned[p].services[current[p]] = "user"
      BY <2>16 DEF followBack, IInv, Local, Points, Pointing
    <3>2. owned' \in [Procs -> Record]
      <4>1. owned' = owned \/ owned' = [owned EXCEPT ![p].services[current[p]] = "none"]
        BY <2>16 DEF followBack
      <4>2. [owned EXCEPT ![p].services[current[p]] = "none"] \in [Procs -> Record]
        BY <3>1, DropLemma
      <4> QED BY <4>1, <4>2
    <3> QED BY <2>16, <3>1, <3>2 DEF followBack, setDNSServers, Values
  <2>17. ASSUME NEW ok \in BOOLEAN, followBackSave(p, ok) PROVE TypeOK'
    <3>1. disk' \in Record
      <4>1. disk' \in {disk, NoRecord, [owned[p] EXCEPT !.pid = p]}
        BY <2>17 DEF followBackSave, saveLocked
      <4>2. [owned[p] EXCEPT !.pid = p] \in Record
        BY PidLemma
      <4> QED BY <4>1, <4>2
    <3> QED BY <2>17, <3>1 DEF followBackSave
  <2>18. ASSUME NEW ok \in BOOLEAN, restoreSave(p, ok) PROVE TypeOK'
    <3>1. disk' \in Record
      <4>1. disk' \in {disk, NoRecord, [owned[p] EXCEPT !.pid = p]}
        BY <2>18 DEF restoreSave, saveLocked
      <4>2. [owned[p] EXCEPT !.pid = p] \in Record
        BY PidLemma
      <4> QED BY <4>1, <4>2
    <3> QED BY <2>18, <3>1 DEF restoreSave
  <2>19. ASSUME NEW ok \in BOOLEAN, releaseAlias(p, ok) PROVE TypeOK'
    <3>1. owned' \in [Procs -> Record]
      <4>1. owned' = [owned EXCEPT ![p].alias = FALSE]
        BY <2>19 DEF releaseAlias
      <4> QED BY <4>1, AliasLemma
    <3>2. alias' \in BOOLEAN /\ stuck' \in BOOLEAN
      BY <2>19 DEF releaseAlias, removeAlias
    <3> QED BY <2>19, <3>1, <3>2 DEF releaseAlias
  <2>20. ASSUME NEW ok \in BOOLEAN, releaseEnd(p, ok) PROVE TypeOK'
    <3>1. disk' \in Record
      <4>1. disk' \in {disk, NoRecord, [owned[p] EXCEPT !.pid = p]}
        BY <2>20 DEF releaseEnd, saveLocked
      <4>2. [owned[p] EXCEPT !.pid = p] \in Record
        BY PidLemma
      <4> QED BY <4>1, <4>2
    <3>2. owned' \in [Procs -> Record]
      BY <2>20 DEF releaseEnd
    <3> QED BY <2>20, <3>1, <3>2 DEF releaseEnd
  <2>21. ASSUME NEW ok \in BOOLEAN, NEW s \in Services, replay(p, s, ok) PROVE TypeOK'
    <3>1. stored[p].services[s] = "user"
      <4>1. s \in Mapped(stored[p].services) /\ Users(stored[p].services)
        BY <2>21 DEF replay, IInv, Local, Replays, UsersOnly
      <4> QED BY <4>1 DEF Users, Mapped
    <3>2. stored' \in [Procs -> Record]
      <4>1. stored' = stored \/ stored' = [stored EXCEPT ![p].services[s] = "none"]
        BY <2>21 DEF replay
      <4>2. [stored EXCEPT ![p].services[s] = "none"] \in [Procs -> Record]
        BY DropLemma
      <4> QED BY <4>1, <4>2
    <3> QED BY <2>21, <3>1, <3>2 DEF replay, setDNSServers, Values
  <2>22. ASSUME NEW ok \in BOOLEAN, NEW s \in Services, restoreLocked(p, s, ok) PROVE TypeOK'
    <3>1. owned[p].services[s] = "user"
      <4>1. s \in Mapped(owned[p].services) /\ Users(owned[p].services)
        BY <2>22 DEF restoreLocked, IInv, Local, Replays, UsersOnly, Restoring
      <4> QED BY <4>1 DEF Users, Mapped
    <3>2. owned' \in [Procs -> Record]
      <4>1. owned' = owned \/ owned' = [owned EXCEPT ![p].services[s] = "none"]
        BY <2>22 DEF restoreLocked
      <4>2. [owned EXCEPT ![p].services[s] = "none"] \in [Procs -> Record]
        BY DropLemma
      <4> QED BY <4>1, <4>2
    <3>3. sys' \in [Services -> Values]
      BY <2>22, <3>1 DEF restoreLocked, setDNSServers, Values
    <3>4. UNCHANGED <<life, op>> /\ pc' \in {pc, [pc EXCEPT ![p] = "relSave"]}
      BY <2>22 DEF restoreLocked
    <3> QED BY <2>22, <3>2, <3>3, <3>4 DEF restoreLocked
  <2> QED BY <1>1, <2>1, <2>2, <2>3, <2>4, <2>5, <2>6, <2>7, <2>8, <2>9, <2>10, <2>11, <2>12, <2>13,
             <2>14, <2>15, <2>16, <2>17, <2>18, <2>19, <2>20, <2>21, <2>22 DEF Step
<1>2. ASSUME NEW p \in Procs, Launch(p) PROVE TypeOK'
  BY <1>t, <1>2 DEF Launch, world, memory
<1>3. ASSUME NEW p \in Procs, Killed(p) PROVE TypeOK'
  BY <1>t, <1>0, <1>3 DEF Killed
<1>4. ASSUME NEW s \in Services \cup {None}, DefaultChanges(s) PROVE TypeOK'
  BY <1>t, <1>4 DEF DefaultChanges
<1>5. CASE UNCHANGED vars
  BY <1>t, <1>5 DEF vars, world, memory
<1> QED BY <1>1, <1>2, <1>3, <1>4, <1>5 DEF Next

\* What one process does disturbs nobody else: nobody else is alive.
LEMMA ProcLemma ==
  ASSUME IInv, NEW p \in Procs, Acts(p), TypeOK',
         UsersOnly', Recoverable', Local(p)'
  PROVE  IInv'
<1>1. Alone'
  BY DEF IInv, Alone, Acts
<1>2. Fresh'
  BY NoneAssumption DEF Acts, IInv, Fresh, Local, Replays
<1>3. \A q \in Procs : life'[q] = "live" => q = p
  BY DEF IInv, Alone, Acts
<1> QED BY <1>1, <1>2, <1>3 DEF IInv

\* Records other than the acting process's stay as they are.
LEMMA UsersLemma ==
  ASSUME UsersOnly, NEW p \in Procs,
         Users(disk'.services), Users(owned'[p].services), Users(stored'[p].services),
         \A q \in Procs \ {p} : owned'[q] = owned[q] /\ stored'[q] = stored[q]
  PROVE  UsersOnly'
  BY DEF UsersOnly, Users

\* Prepare begins with a look at the record on disk.
LEMMA PrepareStep ==
  ASSUME IInv, TypeOK', NEW p \in Procs, Prepare(p)
  PROVE  IInv'
<1> USE NoneAssumption
<1>1. Acts(p)
  BY DEF Acts, IInv, TypeOK, Record, NoRecord, Prepare, At, Call, world, memory, Following, Pointing, Restoring
<1>p. /\ TypeOK /\ UsersOnly /\ Recoverable /\ Alone
      /\ Remembers(p) /\ Replays(p) /\ Saved(p) /\ InSession(p) /\ Points(p)
  BY <1>1 DEF Acts, IInv, Local
<1>f. /\ pc[p] = "idle" /\ pc'[p] = "stale" /\ stored'[p] = stored[p]
  BY <1>p DEF TypeOK, Record, InSession, Points, UsersOnly, Users, Prepare, At, Call, world, memory, Following,
     Pointing, Restoring
<1>2. UsersOnly'
  BY <1>p DEF UsersOnly, Users, TypeOK, Record, NoRecord, NoServices, Prepare, At, Call, world, memory,
     Following, Pointing, Restoring
<1>3. Recoverable'
  BY <1>p DEF Recoverable, UsersOnly, Users, TypeOK, Record, Remembers, Replays, Saved, Points, Covers, AliasOn,
     Prepare, At, Call, world, memory, Following, Pointing, Restoring
<1>4. Remembers(p)'
  BY <1>p DEF Remembers, Replays, Covers, AliasOn, TypeOK, Record, Recoverable, UsersOnly, Users, NoRecord,
     NoServices, Prepare, At, Call, world, memory, Following, Pointing, Restoring
<1>5. Replays(p)'
  BY <1>p, <1>f DEF Replays, Restoring
<1>6. Saved(p)'
  BY <1>p DEF Saved, Points, TypeOK, Record, UsersOnly, Users, Prepare, At, Call, world, memory, Following,
     Pointing, Restoring
<1>7. InSession(p)'
  BY <1>p DEF InSession, TypeOK, Prepare, At, Call, world, memory, Following, Pointing, Restoring
<1>8. Points(p)'
  BY <1>p DEF Points, Remembers, Covers, TypeOK, Record, UsersOnly, Users, Prepare, At, Call, world, memory,
     Following, Pointing, Restoring
<1>9. Local(p)'
  BY <1>4, <1>5, <1>6, <1>7, <1>8 DEF Local
<1> QED BY <1>1, <1>2, <1>3, <1>9, ProcLemma

\* Apply registers the callback; the record of Prepare is on disk.
LEMMA ApplyStep ==
  ASSUME IInv, TypeOK', NEW p \in Procs, Apply(p)
  PROVE  IInv'
<1> USE NoneAssumption
<1>1. Acts(p)
  BY DEF Acts, IInv, TypeOK, Record, NoRecord, Apply, At, Call, world, Following, Pointing, Restoring
<1>p. /\ TypeOK /\ UsersOnly /\ Recoverable /\ Alone
      /\ Remembers(p) /\ Replays(p) /\ Saved(p) /\ InSession(p) /\ Points(p)
  BY <1>1 DEF Acts, IInv, Local
<1>f. /\ pc[p] = "idle" /\ session[p] = "prepared" /\ pc'[p] = "follow"
      /\ UNCHANGED <<sys, alias, stuck, stored, session, owned, disk, current>>
  BY <1>p DEF TypeOK, Record, InSession, Points, UsersOnly, Users, Apply, At, Call, world, Following, Pointing,
     Restoring
<1>2. UsersOnly'
  BY <1>p DEF UsersOnly, Users, TypeOK, Record, NoRecord, NoServices, Apply, At, Call, world, Following,
     Pointing, Restoring
<1>3. Recoverable'
  BY <1>p DEF Recoverable, UsersOnly, Users, TypeOK, Record, Remembers, Replays, Saved, Points, Covers, AliasOn,
     Apply, At, Call, world, Following, Pointing, Restoring
<1>4. Remembers(p)'
  BY <1>p, <1>f DEF Remembers, Following, Covers, AliasOn
<1>5. Replays(p)'
  BY <1>p, <1>f DEF Replays, Restoring, Following, Pointing
<1>6. Saved(p)'
  BY <1>p, <1>f DEF Saved, Following, Pointing
<1>7. InSession(p)'
  BY <1>p DEF InSession, TypeOK, Apply, At, Call, world, Following, Pointing, Restoring
<1>8. Points(p)'
  BY <1>p DEF Points, Remembers, Covers, TypeOK, Record, UsersOnly, Users, Apply, At, Call, world, Following,
     Pointing, Restoring
<1>9. Local(p)'
  BY <1>4, <1>5, <1>6, <1>7, <1>8 DEF Local
<1> QED BY <1>1, <1>2, <1>3, <1>9, ProcLemma

\* Release is called in a session.
LEMMA ReleaseStep ==
  ASSUME IInv, TypeOK', NEW p \in Procs, Release(p)
  PROVE  IInv'
<1> USE NoneAssumption
<1>1. Acts(p)
  BY DEF Acts, IInv, TypeOK, Record, NoRecord, Release, At, Call, world, memory, Following, Pointing, Restoring
<1>p. /\ TypeOK /\ UsersOnly /\ Recoverable /\ Alone
      /\ Remembers(p) /\ Replays(p) /\ Saved(p) /\ InSession(p) /\ Points(p)
  BY <1>1 DEF Acts, IInv, Local
<1>f. /\ pc[p] = "idle" /\ pc'[p] = "release" /\ UNCHANGED stored
  BY <1>p DEF TypeOK, Record, InSession, Points, UsersOnly, Users, Release, At, Call, world, memory, Following,
     Pointing, Restoring
<1>2. UsersOnly'
  BY <1>p DEF UsersOnly, Users, TypeOK, Record, NoRecord, NoServices, Release, At, Call, world, memory,
     Following, Pointing, Restoring
<1>3. Recoverable'
  BY <1>p DEF Recoverable, UsersOnly, Users, TypeOK, Record, Remembers, Replays, Saved, Points, Covers, AliasOn,
     Release, At, Call, world, memory, Following, Pointing, Restoring
<1>4. Remembers(p)'
  BY <1>p DEF Remembers, Replays, Covers, AliasOn, TypeOK, Record, Recoverable, UsersOnly, Users, NoRecord,
     NoServices, Release, At, Call, world, memory, Following, Pointing, Restoring
<1>5. Replays(p)'
  BY <1>p, <1>f DEF Replays, Restoring
<1>6. Saved(p)'
  BY <1>p DEF Saved, Points, TypeOK, Record, UsersOnly, Users, Release, At, Call, world, memory, Following,
     Pointing, Restoring
<1>7. InSession(p)'
  BY <1>p DEF InSession, TypeOK, Release, At, Call, world, memory, Following, Pointing, Restoring
<1>8. Points(p)'
  BY <1>p DEF Points, Remembers, Covers, TypeOK, Record, UsersOnly, Users, Release, At, Call, world, memory,
     Following, Pointing, Restoring
<1>9. Local(p)'
  BY <1>4, <1>5, <1>6, <1>7, <1>8 DEF Local
<1> QED BY <1>1, <1>2, <1>3, <1>9, ProcLemma

\* What Release puts back is all that the process remembers.
LEMMA ReleaseBeginStep ==
  ASSUME IInv, TypeOK', NEW p \in Procs, releaseBegin(p)
  PROVE  IInv'
<1> USE NoneAssumption
<1>1. Acts(p)
  BY DEF Acts, IInv, TypeOK, Record, NoRecord, releaseBegin, At, Goto, world, Following, Pointing, Restoring,
     Mapped
<1>p. /\ TypeOK /\ UsersOnly /\ Recoverable /\ Alone
      /\ Remembers(p) /\ Replays(p) /\ Saved(p) /\ InSession(p) /\ Points(p)
  BY <1>1 DEF Acts, IInv, Local
<1>f. /\ pc[p] = "release" /\ pc'[p] = "restore" /\ UNCHANGED <<stored, owned>>
      /\ todo'[p] = Mapped(owned[p].services)
  BY <1>p DEF TypeOK, Record, InSession, Points, UsersOnly, Users, releaseBegin, At, Goto, world, Following,
     Pointing, Restoring, Mapped
<1>2. UsersOnly'
  BY <1>p DEF UsersOnly, Users, TypeOK, Record, NoRecord, NoServices, releaseBegin, At, Goto, world, Following,
     Pointing, Restoring, Mapped
<1>3. Recoverable'
  BY <1>p DEF Recoverable, UsersOnly, Users, TypeOK, Record, Remembers, Replays, Saved, Points, Covers, AliasOn,
     releaseBegin, At, Goto, world, Following, Pointing, Restoring, Mapped
<1>4. Remembers(p)'
  BY <1>p DEF Remembers, Replays, Covers, AliasOn, TypeOK, Record, Recoverable, UsersOnly, Users, NoRecord,
     NoServices, releaseBegin, At, Goto, world, Following, Pointing, Restoring, Mapped
<1>5. Replays(p)'
  BY <1>p, <1>f DEF Replays, Restoring
<1>6. Saved(p)'
  BY <1>p DEF Saved, Points, TypeOK, Record, UsersOnly, Users, releaseBegin, At, Goto, world, Following,
     Pointing, Restoring, Mapped
<1>7. InSession(p)'
  BY <1>p DEF InSession, TypeOK, releaseBegin, At, Goto, world, Following, Pointing, Restoring, Mapped
<1>8. Points(p)'
  BY <1>p DEF Points, Remembers, Covers, TypeOK, Record, UsersOnly, Users, releaseBegin, At, Goto, world,
     Following, Pointing, Restoring, Mapped
<1>9. Local(p)'
  BY <1>4, <1>5, <1>6, <1>7, <1>8 DEF Local
<1> QED BY <1>1, <1>2, <1>3, <1>9, ProcLemma

\* The record of a dead process is loaded whole; a process passes its own by because it remembers all of it.
LEMMA StaleLookStep ==
  ASSUME IInv, TypeOK', NEW p \in Procs, staleLook(p)
  PROVE  IInv'
<1> USE NoneAssumption
<1>1. Acts(p)
  BY DEF Acts, IInv, TypeOK, Record, NoRecord, staleLook, At, Goto, Call, Return, Following, Pointing,
     Restoring, stalePasses, alive, Mapped, Alone
<1>p. /\ TypeOK /\ UsersOnly /\ Recoverable /\ Alone
      /\ Remembers(p) /\ Replays(p) /\ Saved(p) /\ InSession(p) /\ Points(p)
  BY <1>1 DEF Acts, IInv, Local
<1>f. /\ pc[p] = "stale" /\ pc'[p] \in {"idle", "save", "replay"} /\ (pc'[p] = "idle" => op[p] = "startup")
      /\ UNCHANGED <<session, owned, disk>> /\ stored'[p] \in {stored[p], disk}
  BY <1>p DEF TypeOK, Record, InSession, Points, UsersOnly, Users, staleLook, At, Goto, Call, Return, Following,
     Pointing, Restoring, stalePasses, alive, Mapped, Alone
<1>2. UsersOnly'
  BY <1>p, <1>f, <1>1, UsersLemma DEF Acts, UsersOnly, Users, NoRecord, NoServices
<1>3. Recoverable'
  BY <1>p DEF Recoverable, UsersOnly, Users, TypeOK, Record, Remembers, Replays, Saved, Points, Covers, AliasOn,
     staleLook, At, Goto, Call, Return, Following, Pointing, Restoring, stalePasses, alive, Mapped, Alone
<1>4. Remembers(p)'
  BY <1>p DEF Remembers, Replays, Covers, AliasOn, TypeOK, Record, Recoverable, UsersOnly, Users, NoRecord,
     NoServices, staleLook, At, Goto, Call, Return, Following, Pointing, Restoring, stalePasses, alive, Mapped,
     Alone
<1>5. Replays(p)'
  BY <1>p DEF Remembers, Replays, Covers, AliasOn, TypeOK, Record, Recoverable, NoRecord, staleLook, At, Goto,
     Call, Return, Following, Pointing, Restoring, stalePasses, alive, Mapped, Alone
<1>6. Saved(p)'
  BY <1>p, <1>f DEF Saved, Following, Pointing, InSession
<1>7. InSession(p)'
  BY <1>p DEF InSession, TypeOK, staleLook, At, Goto, Call, Return, Following, Pointing, Restoring, stalePasses,
     alive, Mapped, Alone
<1>8. Points(p)'
  BY <1>p DEF Points, Remembers, Covers, TypeOK, Record, UsersOnly, Users, staleLook, At, Goto, Call, Return,
     Following, Pointing, Restoring, stalePasses, alive, Mapped, Alone
<1>9. Local(p)'
  BY <1>4, <1>5, <1>6, <1>7, <1>8 DEF Local
<1> QED BY <1>1, <1>2, <1>3, <1>9, ProcLemma

\* A goroutine of the current registration runs in a session.
LEMMA FollowStep ==
  ASSUME IInv, TypeOK', NEW p \in Procs, follow(p)
  PROVE  IInv'
<1> USE NoneAssumption
<1>1. Acts(p)
  BY DEF Acts, IInv, TypeOK, Record, NoRecord, follow, At, Call, world, Following, Pointing, Restoring
<1>p. /\ TypeOK /\ UsersOnly /\ Recoverable /\ Alone
      /\ Remembers(p) /\ Replays(p) /\ Saved(p) /\ InSession(p) /\ Points(p)
  BY <1>1 DEF Acts, IInv, Local
<1>f. /\ pc[p] = "idle" /\ session[p] # "none" /\ pc'[p] = "follow"
      /\ UNCHANGED <<sys, alias, stuck, stored, session, owned, disk, current>>
  BY <1>p DEF TypeOK, Record, InSession, Points, UsersOnly, Users, follow, At, Call, world, Following, Pointing,
     Restoring
<1>2. UsersOnly'
  BY <1>p DEF UsersOnly, Users, TypeOK, Record, NoRecord, NoServices, follow, At, Call, world, Following,
     Pointing, Restoring
<1>3. Recoverable'
  BY <1>p DEF Recoverable, UsersOnly, Users, TypeOK, Record, Remembers, Replays, Saved, Points, Covers, AliasOn,
     follow, At, Call, world, Following, Pointing, Restoring
<1>4. Remembers(p)'
  BY <1>p, <1>f DEF Remembers, Covers, AliasOn
<1>5. Replays(p)'
  BY <1>p, <1>f DEF Replays, Restoring, Following, Pointing
<1>6. Saved(p)'
  BY <1>p, <1>f DEF Saved, Following, Pointing
<1>7. InSession(p)'
  BY <1>p DEF InSession, TypeOK, follow, At, Call, world, Following, Pointing, Restoring
<1>8. Points(p)'
  BY <1>p DEF Points, Remembers, Covers, TypeOK, Record, UsersOnly, Users, follow, At, Call, world, Following,
     Pointing, Restoring
<1>9. Local(p)'
  BY <1>4, <1>5, <1>6, <1>7, <1>8 DEF Local
<1> QED BY <1>1, <1>2, <1>3, <1>9, ProcLemma

\* One of an older registration does nothing.
LEMMA FollowLateStep ==
  ASSUME IInv, TypeOK', NEW p \in Procs, followLate(p)
  PROVE  IInv'
<1> USE NoneAssumption
<1>1. Acts(p)
  BY DEF Acts, IInv, TypeOK, Record, NoRecord, followLate, At, world, Following, Pointing, Restoring
<1>p. /\ TypeOK /\ UsersOnly /\ Recoverable /\ Alone
      /\ Remembers(p) /\ Replays(p) /\ Saved(p) /\ InSession(p) /\ Points(p)
  BY <1>1 DEF Acts, IInv, Local
<1>2. UsersOnly'
  BY <1>p DEF UsersOnly, Users, TypeOK, Record, NoRecord, NoServices, followLate, At, world, Following,
     Pointing, Restoring
<1>3. Recoverable'
  BY <1>p DEF Recoverable, UsersOnly, Users, TypeOK, Record, Remembers, Replays, Saved, Points, Covers, AliasOn,
     followLate, At, world, Following, Pointing, Restoring
<1>4. Remembers(p)'
  BY <1>p DEF Remembers, Replays, Covers, AliasOn, TypeOK, Record, Recoverable, UsersOnly, Users, NoRecord,
     NoServices, followLate, At, world, Following, Pointing, Restoring
<1>5. Replays(p)'
  BY <1>p DEF Remembers, Replays, Covers, AliasOn, TypeOK, Record, Recoverable, NoRecord, followLate, At, world,
     Following, Pointing, Restoring
<1>6. Saved(p)'
  BY <1>p DEF Saved, Points, TypeOK, Record, UsersOnly, Users, followLate, At, world, Following, Pointing,
     Restoring
<1>7. InSession(p)'
  BY <1>p DEF InSession, TypeOK, followLate, At, world, Following, Pointing, Restoring
<1>8. Points(p)'
  BY <1>p DEF Points, Remembers, Covers, TypeOK, Record, UsersOnly, Users, followLate, At, world, Following,
     Pointing, Restoring
<1>9. Local(p)'
  BY <1>4, <1>5, <1>6, <1>7, <1>8 DEF Local
<1> QED BY <1>1, <1>2, <1>3, <1>9, ProcLemma

\* After this the alias is gone, or cannot be removed.
LEMMA ReplayAliasStep ==
  ASSUME IInv, TypeOK', NEW p \in Procs, NEW ok \in BOOLEAN, replayAlias(p, ok)
  PROVE  IInv'
<1> USE NoneAssumption
<1>1. Acts(p)
  BY DEF Acts, IInv, TypeOK, Record, NoRecord, replayAlias, At, Goto, Call, Return, Following, Pointing,
     Restoring, removeAlias
<1>p. /\ TypeOK /\ UsersOnly /\ Recoverable /\ Alone
      /\ Remembers(p) /\ Replays(p) /\ Saved(p) /\ InSession(p) /\ Points(p)
  BY <1>1 DEF Acts, IInv, Local
<1>2. UsersOnly'
  BY <1>p DEF UsersOnly, Users, TypeOK, Record, NoRecord, NoServices, replayAlias, At, Goto, Call, Return,
     Following, Pointing, Restoring, removeAlias
<1>3. Recoverable'
  BY <1>p DEF Recoverable, UsersOnly, Users, TypeOK, Record, Remembers, Replays, Saved, Points, Covers, AliasOn,
     replayAlias, At, Goto, Call, Return, Following, Pointing, Restoring, removeAlias
<1>4. Remembers(p)'
  BY <1>p DEF Remembers, Replays, Covers, AliasOn, TypeOK, Record, Recoverable, UsersOnly, Users, NoRecord,
     NoServices, replayAlias, At, Goto, Call, Return, Following, Pointing, Restoring, removeAlias
<1>5. Replays(p)'
  BY <1>p DEF Remembers, Replays, Covers, AliasOn, TypeOK, Record, Recoverable, NoRecord, replayAlias, At, Goto,
     Call, Return, Following, Pointing, Restoring, removeAlias
<1>6. Saved(p)'
  BY <1>p DEF Saved, Points, TypeOK, Record, UsersOnly, Users, replayAlias, At, Goto, Call, Return, Following,
     Pointing, Restoring, removeAlias
<1>7. InSession(p)'
  BY <1>p DEF InSession, TypeOK, replayAlias, At, Goto, Call, Return, Following, Pointing, Restoring,
     removeAlias
<1>8. Points(p)'
  BY <1>p DEF Points, Remembers, Covers, TypeOK, Record, UsersOnly, Users, replayAlias, At, Goto, Call, Return,
     Following, Pointing, Restoring, removeAlias
<1>9. Local(p)'
  BY <1>4, <1>5, <1>6, <1>7, <1>8 DEF Local
<1> QED BY <1>1, <1>2, <1>3, <1>9, ProcLemma

\* The record is removed or cut to the leftovers, which still cover every change.
LEMMA ReplayEndStep ==
  ASSUME IInv, TypeOK', NEW p \in Procs, NEW ok \in BOOLEAN, replayEnd(p, ok)
  PROVE  IInv'
<1> USE NoneAssumption
<1>1. Acts(p)
  BY DEF Acts, IInv, TypeOK, Record, NoRecord, replayEnd, At, Goto, Call, Return, Following, Pointing,
     Restoring, Mapped
<1>p. /\ TypeOK /\ UsersOnly /\ Recoverable /\ Alone
      /\ Remembers(p) /\ Replays(p) /\ Saved(p) /\ InSession(p) /\ Points(p)
  BY <1>1 DEF Acts, IInv, Local
<1>f. /\ pc[p] = "replayEnd" /\ pc'[p] \in {"idle", "save"} /\ UNCHANGED <<session, owned>>
      /\ disk' \in {disk, NoRecord, stored[p]} /\ stored'[p] \in {stored[p], NoRecord}
  BY <1>p DEF TypeOK, Record, InSession, Points, UsersOnly, Users, replayEnd, At, Goto, Call, Return, Following,
     Pointing, Restoring, Mapped
<1>2. UsersOnly'
  BY <1>p, <1>f, <1>1, UsersLemma DEF Acts, UsersOnly, Users, NoRecord, NoServices
<1>3. Recoverable'
  BY <1>p DEF Recoverable, UsersOnly, Users, TypeOK, Record, Remembers, Replays, Saved, Points, Covers, AliasOn,
     replayEnd, At, Goto, Call, Return, Following, Pointing, Restoring, Mapped
<1>4. Remembers(p)'
  BY <1>p DEF Remembers, Replays, Covers, AliasOn, TypeOK, Record, Recoverable, UsersOnly, Users, NoRecord,
     NoServices, replayEnd, At, Goto, Call, Return, Following, Pointing, Restoring, Mapped
<1>5. Replays(p)'
  BY <1>p DEF Remembers, Replays, Covers, AliasOn, TypeOK, Record, Recoverable, NoRecord, replayEnd, At, Goto,
     Call, Return, Following, Pointing, Restoring, Mapped
<1>6. Saved(p)'
  BY <1>p, <1>f DEF Saved, Following, Pointing, InSession
<1>7. InSession(p)'
  BY <1>p DEF InSession, TypeOK, replayEnd, At, Goto, Call, Return, Following, Pointing, Restoring, Mapped
<1>8. Points(p)'
  BY <1>p DEF Points, Remembers, Covers, TypeOK, Record, UsersOnly, Users, replayEnd, At, Goto, Call, Return,
     Following, Pointing, Restoring, Mapped
<1>9. Local(p)'
  BY <1>4, <1>5, <1>6, <1>7, <1>8 DEF Local
<1> QED BY <1>1, <1>2, <1>3, <1>9, ProcLemma

\* The record that Prepare writes covers the leftovers and the alias it is about to add.
LEMMA PrepareSaveStep ==
  ASSUME IInv, TypeOK', NEW p \in Procs, NEW ok \in BOOLEAN, prepareSave(p, ok)
  PROVE  IInv'
<1> USE NoneAssumption
<1>1. Acts(p)
  BY DEF Acts, IInv, TypeOK, Record, NoRecord, prepareSave, At, Goto, Call, Fail, Following, Pointing,
     Restoring, saveLocked
<1>p. /\ TypeOK /\ UsersOnly /\ Recoverable /\ Alone
      /\ Remembers(p) /\ Replays(p) /\ Saved(p) /\ InSession(p) /\ Points(p)
  BY <1>1 DEF Acts, IInv, Local
<1>t. PICK taken : /\ taken = [pid |-> p, alias |-> owned[p].alias \/ ~alias,
                           services |-> [s \in Services |->
                                          IF stored[p].services[s] # "none" THEN stored[p].services[s]
                                          ELSE owned[p].services[s]]]
                     /\ saveLocked(p, taken, ok) /\ owned' = [owned EXCEPT ![p] = taken]
  BY DEF prepareSave
<1>r. /\ taken.alias = (owned[p].alias \/ ~alias)
      /\ \A s \in Services : taken.services[s] = IF stored[p].services[s] # "none" THEN stored[p].services[s]
                                                ELSE owned[p].services[s]
      /\ [taken EXCEPT !.pid = p].services = taken.services /\ [taken EXCEPT !.pid = p].alias = taken.alias
  BY <1>t
<1>o. /\ owned'[p] = taken
      /\ ok => disk'.services = taken.services /\ disk'.alias = taken.alias
      /\ ~ok => disk' = disk
  <2>1. owned' = [owned EXCEPT ![p] = taken] /\ saveLocked(p, taken, ok)
    BY <1>t
  <2>2. owned'[p] = taken
    BY <1>p, <2>1 DEF TypeOK
  <2>3. (ok => disk' = [taken EXCEPT !.pid = p]) /\ (~ok => disk' = disk)
    BY <2>1 DEF saveLocked
  <2> QED BY <1>r, <2>2, <2>3
<1>f. /\ pc[p] = "save" /\ UNCHANGED <<sys, alias, stuck>> /\ stored'[p] = NoRecord
      /\ ok => pc'[p] = "alias"
      /\ ~ok => pc'[p] = "release"
  BY <1>p DEF TypeOK, prepareSave, At, Goto, Call, Fail
<1>2. UsersOnly'
  BY <1>p, <1>f, <1>r, <1>o, <1>1, UsersLemma DEF Acts, UsersOnly, Users, NoRecord, NoServices
<1>3. Recoverable'
  BY <1>p, <1>f, <1>r, <1>o DEF Recoverable, Replays, AliasOn, UsersOnly, Users
<1>4. Remembers(p)'
  BY <1>p DEF Remembers, Replays, Covers, AliasOn, TypeOK, Record, Recoverable, UsersOnly, Users, NoRecord,
     NoServices, prepareSave, At, Goto, Call, Fail, Following, Pointing, Restoring, saveLocked
<1>5. Replays(p)'
  BY <1>p DEF Remembers, Replays, Covers, AliasOn, TypeOK, Record, Recoverable, NoRecord, prepareSave, At, Goto,
     Call, Fail, Following, Pointing, Restoring, saveLocked
<1>6. Saved(p)'
  BY <1>p, <1>f, <1>r, <1>o DEF Saved, Following, Pointing
<1>7. InSession(p)'
  BY <1>p DEF InSession, TypeOK, prepareSave, At, Goto, Call, Fail, Following, Pointing, Restoring, saveLocked
<1>8. Points(p)'
  BY <1>p DEF Points, Remembers, Covers, TypeOK, Record, UsersOnly, Users, prepareSave, At, Goto, Call, Fail,
     Following, Pointing, Restoring, saveLocked
<1>9. Local(p)'
  BY <1>4, <1>5, <1>6, <1>7, <1>8 DEF Local
<1> QED BY <1>1, <1>2, <1>3, <1>9, ProcLemma

\* The alias is added only with the record on disk.
LEMMA AddAliasStep ==
  ASSUME IInv, TypeOK', NEW p \in Procs, NEW ok \in BOOLEAN, addAlias(p, ok)
  PROVE  IInv'
<1> USE NoneAssumption
<1>1. Acts(p)
  BY DEF Acts, IInv, TypeOK, Record, NoRecord, addAlias, At, Goto, Call, Return, Fail, world, Following,
     Pointing, Restoring
<1>p. /\ TypeOK /\ UsersOnly /\ Recoverable /\ Alone
      /\ Remembers(p) /\ Replays(p) /\ Saved(p) /\ InSession(p) /\ Points(p)
  BY <1>1 DEF Acts, IInv, Local
<1>f. /\ pc[p] = "alias" /\ pc'[p] \in {"probe", "release"} /\ UNCHANGED stored
  BY <1>p DEF TypeOK, Record, InSession, Points, UsersOnly, Users, addAlias, At, Goto, Call, Return, Fail,
     world, Following, Pointing, Restoring
<1>2. UsersOnly'
  BY <1>p DEF UsersOnly, Users, TypeOK, Record, NoRecord, NoServices, addAlias, At, Goto, Call, Return, Fail,
     world, Following, Pointing, Restoring
<1>3. Recoverable'
  BY <1>p DEF Recoverable, UsersOnly, Users, TypeOK, Record, Remembers, Replays, Saved, Points, Covers, AliasOn,
     addAlias, At, Goto, Call, Return, Fail, world, Following, Pointing, Restoring
<1>4. Remembers(p)'
  BY <1>p DEF Remembers, Replays, Covers, AliasOn, TypeOK, Record, Recoverable, UsersOnly, Users, NoRecord,
     NoServices, addAlias, At, Goto, Call, Return, Fail, world, Following, Pointing, Restoring
<1>5. Replays(p)'
  BY <1>p, <1>f DEF Replays, Restoring
<1>6. Saved(p)'
  BY <1>p DEF Saved, Points, TypeOK, Record, UsersOnly, Users, addAlias, At, Goto, Call, Return, Fail, world,
     Following, Pointing, Restoring
<1>7. InSession(p)'
  BY <1>p DEF InSession, TypeOK, addAlias, At, Goto, Call, Return, Fail, world, Following, Pointing, Restoring
<1>8. Points(p)'
  BY <1>p DEF Points, Remembers, Covers, TypeOK, Record, UsersOnly, Users, addAlias, At, Goto, Call, Return,
     Fail, world, Following, Pointing, Restoring
<1>9. Local(p)'
  BY <1>4, <1>5, <1>6, <1>7, <1>8 DEF Local
<1> QED BY <1>1, <1>2, <1>3, <1>9, ProcLemma

\* The probe changes nothing that is recorded.
LEMMA ProbeStep ==
  ASSUME IInv, TypeOK', NEW p \in Procs, NEW ok \in BOOLEAN, probe(p, ok)
  PROVE  IInv'
<1> USE NoneAssumption
<1>1. Acts(p)
  BY DEF Acts, IInv, TypeOK, Record, NoRecord, probe, At, Call, Return, Fail, world, Following, Pointing,
     Restoring
<1>p. /\ TypeOK /\ UsersOnly /\ Recoverable /\ Alone
      /\ Remembers(p) /\ Replays(p) /\ Saved(p) /\ InSession(p) /\ Points(p)
  BY <1>1 DEF Acts, IInv, Local
<1>f. /\ pc[p] = "probe" /\ pc'[p] \in {"idle", "release"} /\ UNCHANGED stored
  BY <1>p DEF TypeOK, Record, InSession, Points, UsersOnly, Users, probe, At, Call, Return, Fail, world,
     Following, Pointing, Restoring
<1>2. UsersOnly'
  BY <1>p DEF UsersOnly, Users, TypeOK, Record, NoRecord, NoServices, probe, At, Call, Return, Fail, world,
     Following, Pointing, Restoring
<1>3. Recoverable'
  BY <1>p DEF Recoverable, UsersOnly, Users, TypeOK, Record, Remembers, Replays, Saved, Points, Covers, AliasOn,
     probe, At, Call, Return, Fail, world, Following, Pointing, Restoring
<1>4. Remembers(p)'
  BY <1>p DEF Remembers, Replays, Covers, AliasOn, TypeOK, Record, Recoverable, UsersOnly, Users, NoRecord,
     NoServices, probe, At, Call, Return, Fail, world, Following, Pointing, Restoring
<1>5. Replays(p)'
  BY <1>p, <1>f DEF Replays, Restoring
<1>6. Saved(p)'
  BY <1>p DEF Saved, Points, TypeOK, Record, UsersOnly, Users, probe, At, Call, Return, Fail, world, Following,
     Pointing, Restoring
<1>7. InSession(p)'
  BY <1>p DEF InSession, TypeOK, probe, At, Call, Return, Fail, world, Following, Pointing, Restoring
<1>8. Points(p)'
  BY <1>p DEF Points, Remembers, Covers, TypeOK, Record, UsersOnly, Users, probe, At, Call, Return, Fail, world,
     Following, Pointing, Restoring
<1>9. Local(p)'
  BY <1>4, <1>5, <1>6, <1>7, <1>8 DEF Local
<1> QED BY <1>1, <1>2, <1>3, <1>9, ProcLemma

\* A service that is not remembered is as the user had it: that is what is remembered.
LEMMA FollowLookStep ==
  ASSUME IInv, TypeOK', NEW p \in Procs, NEW ok \in BOOLEAN, followLook(p, ok)
  PROVE  IInv'
<1> USE NoneAssumption
<1>1. Acts(p)
  BY DEF Acts, IInv, TypeOK, Record, NoRecord, followLook, At, Goto, Call, Return, Fail, FollowReturns, world,
     Following, Pointing, Restoring
<1>p. /\ TypeOK /\ UsersOnly /\ Recoverable /\ Alone
      /\ Remembers(p) /\ Replays(p) /\ Saved(p) /\ InSession(p) /\ Points(p)
  BY <1>1 DEF Acts, IInv, Local
<1>f. /\ pc[p] = "follow" /\ pc'[p] \in {"idle", "release", "fSet", "fSave"} /\ UNCHANGED <<stored, disk>>
      /\ pc'[p] # "fSave" => UNCHANGED owned
      /\ pc'[p] = "fSave" => def \in Services /\ owned[p].services[def] = "none"
  BY <1>p DEF TypeOK, Record, InSession, Points, UsersOnly, Users, followLook, At, Goto, Call, Return, Fail,
     FollowReturns, world, Following, Pointing, Restoring
<1>g. pc'[p] = "fSave" => /\ owned'[p].alias = owned[p].alias /\ owned'[p].pid = owned[p].pid
                /\ \A t \in Services : owned'[p].services[t] = 
                    IF t = def THEN (IF sys[def] = "address" THEN "empty" ELSE sys[def]) ELSE owned[p].services[t]
  <2> SUFFICES ASSUME pc'[p] = "fSave" PROVE <1>g!2
    OBVIOUS
  <2>1. PICK f \in [Procs -> Record] : f = owned
    BY <1>p DEF TypeOK
  <2>2. PICK g : g = owned'
    OBVIOUS
  <2>3. PICK s1 \in Services : s1 = def
    BY <1>f
  <2>4. PICK v1 : v1 = (IF sys[def] = "address" THEN "empty" ELSE sys[def])
    OBVIOUS
  <2>5. g = [f EXCEPT ![p].services[s1] = v1]
    BY <1>p, <2>1, <2>2, <2>3, <2>4, <1>f DEF followLook, Goto, Fail, Call, Return, FollowReturns, TypeOK
  <2>6. /\ g[p].alias = f[p].alias /\ g[p].pid = f[p].pid
        /\ \A t \in Services : g[p].services[t] = IF t = s1 THEN v1 ELSE f[p].services[t]
    BY <2>5 DEF Record
  <2> QED BY <2>1, <2>2, <2>3, <2>4, <2>6
<1>2. UsersOnly'
  BY <1>p, <1>f, <1>g, <1>1, UsersLemma DEF Acts, UsersOnly, Users, NoRecord, NoServices, Remembers, Covers,
     Following
<1>3. Recoverable'
  BY <1>p DEF Recoverable, UsersOnly, Users, TypeOK, Record, Remembers, Replays, Saved, Points, Covers, AliasOn,
     followLook, At, Goto, Call, Return, Fail, FollowReturns, world, Following, Pointing, Restoring
<1>4. Remembers(p)'
  BY <1>p DEF Remembers, Replays, Covers, AliasOn, TypeOK, Record, Recoverable, UsersOnly, Users, NoRecord,
     NoServices, followLook, At, Goto, Call, Return, Fail, FollowReturns, world, Following, Pointing, Restoring
<1>5. Replays(p)'
  BY <1>p, <1>f, <1>g DEF Replays, Restoring
<1>6. Saved(p)'
  BY <1>p DEF Saved, Points, TypeOK, Record, UsersOnly, Users, followLook, At, Goto, Call, Return, Fail,
     FollowReturns, world, Following, Pointing, Restoring
<1>7. InSession(p)'
  BY <1>p DEF InSession, TypeOK, followLook, At, Goto, Call, Return, Fail, FollowReturns, world, Following,
     Pointing, Restoring
<1>8. Points(p)'
  BY <1>p DEF Points, Remembers, Covers, TypeOK, Record, UsersOnly, Users, followLook, At, Goto, Call, Return,
     Fail, FollowReturns, world, Following, Pointing, Restoring
<1>9. Local(p)'
  BY <1>4, <1>5, <1>6, <1>7, <1>8 DEF Local
<1> QED BY <1>1, <1>2, <1>3, <1>9, ProcLemma

\* The record is written before the change, or the service is forgotten unchanged.
LEMMA PointSaveStep ==
  ASSUME IInv, TypeOK', NEW p \in Procs, NEW ok \in BOOLEAN, pointSave(p, ok)
  PROVE  IInv'
<1> USE NoneAssumption
<1>1. Acts(p)
  BY DEF Acts, IInv, TypeOK, Record, NoRecord, pointSave, At, Goto, Call, Return, Fail, FollowReturns,
     Following, Pointing, Restoring, saveLocked
<1>p. /\ TypeOK /\ UsersOnly /\ Recoverable /\ Alone
      /\ Remembers(p) /\ Replays(p) /\ Saved(p) /\ InSession(p) /\ Points(p)
  BY <1>1 DEF Acts, IInv, Local
<1>f. /\ pc[p] = "fSave" /\ UNCHANGED <<stored, sys, alias, stuck, point, current>> /\ point[p] \in Services
      /\ ok => disk'.services = owned[p].services /\ disk'.alias = owned[p].alias
      /\ ~ok => disk' = disk
      /\ ok => UNCHANGED <<owned, session>> /\ pc'[p] = "fSet"
      /\ ~ok => pc'[p] \in {"idle", "release"}
  BY <1>p DEF TypeOK, Record, InSession, Points, UsersOnly, Users, pointSave, At, Goto, Call, Return, Fail,
     FollowReturns, Following, Pointing, Restoring, saveLocked
<1>g. ~ok => /\ owned'[p].alias = owned[p].alias /\ owned'[p].pid = owned[p].pid
                /\ \A t \in Services : owned'[p].services[t] = 
                    IF t = point[p] THEN "none" ELSE owned[p].services[t]
  <2> SUFFICES ASSUME ~ok PROVE <1>g!2
    OBVIOUS
  <2>1. PICK f \in [Procs -> Record] : f = owned
    BY <1>p DEF TypeOK
  <2>2. PICK g : g = owned'
    OBVIOUS
  <2>3. PICK s1 \in Services : s1 = point[p]
    BY <1>f
  <2>4. PICK v1 : v1 = "none"
    OBVIOUS
  <2>5. g = [f EXCEPT ![p].services[s1] = v1]
    BY <1>p, <2>1, <2>2, <2>3, <2>4, <1>f DEF pointSave
  <2>6. /\ g[p].alias = f[p].alias /\ g[p].pid = f[p].pid
        /\ \A t \in Services : g[p].services[t] = IF t = s1 THEN v1 ELSE f[p].services[t]
    BY <2>5 DEF Record
  <2> QED BY <2>1, <2>2, <2>3, <2>4, <2>6
<1>2. UsersOnly'
  BY <1>p, <1>f, <1>g, <1>1, UsersLemma DEF Acts, UsersOnly, Users, NoRecord, NoServices
<1>3. Recoverable'
  BY <1>p, <1>f, <1>g DEF Recoverable, Remembers, Covers, AliasOn, Following, Pointing, Restoring
<1>4. Remembers(p)'
  BY <1>p, <1>f, <1>g DEF Remembers, Covers, AliasOn, Following, Pointing, Points
<1>5. Replays(p)'
  BY <1>p, <1>f, <1>g DEF Replays, Restoring
<1>6. Saved(p)'
  BY <1>p, <1>f, <1>g DEF Saved, Following, Pointing, TypeOK, Record
<1>7. InSession(p)'
  BY <1>p DEF InSession, TypeOK, pointSave, At, Goto, Call, Return, Fail, FollowReturns, Following, Pointing,
     Restoring, saveLocked
<1>8. Points(p)'
  BY <1>p DEF Points, Remembers, Covers, TypeOK, Record, UsersOnly, Users, pointSave, At, Goto, Call, Return,
     Fail, FollowReturns, Following, Pointing, Restoring, saveLocked
<1>9. Local(p)'
  BY <1>4, <1>5, <1>6, <1>7, <1>8 DEF Local
<1> QED BY <1>1, <1>2, <1>3, <1>9, ProcLemma

\* The service that is pointed at the core is on disk and remembered.
LEMMA PointSetStep ==
  ASSUME IInv, TypeOK', NEW p \in Procs, NEW ok \in BOOLEAN, pointSet(p, ok)
  PROVE  IInv'
<1> USE NoneAssumption
<1>1. Acts(p)
  BY DEF Acts, IInv, TypeOK, Record, NoRecord, pointSet, At, Goto, Call, Return, Fail, FollowReturns, Following,
     Pointing, Restoring, setDNSServers
<1>p. /\ TypeOK /\ UsersOnly /\ Recoverable /\ Alone
      /\ Remembers(p) /\ Replays(p) /\ Saved(p) /\ InSession(p) /\ Points(p)
  BY <1>1 DEF Acts, IInv, Local
<1>f. /\ pc[p] = "fSet" /\ pc'[p] \in {"idle", "release", "fBack"}
      /\ UNCHANGED <<stored, owned, disk, alias, stuck>> /\ point[p] \in Services
      /\ sys' \in {sys, [sys EXCEPT ![point[p]] = "address"]}
  BY <1>p DEF TypeOK, Record, InSession, Points, UsersOnly, Users, pointSet, At, Goto, Call, Return, Fail,
     FollowReturns, Following, Pointing, Restoring, setDNSServers
<1>2. UsersOnly'
  BY <1>p DEF UsersOnly, Users, TypeOK, Record, NoRecord, NoServices, pointSet, At, Goto, Call, Return, Fail,
     FollowReturns, Following, Pointing, Restoring, setDNSServers
<1>3. Recoverable'
  BY <1>p DEF Recoverable, UsersOnly, Users, TypeOK, Record, Remembers, Replays, Saved, Points, Covers, AliasOn,
     pointSet, At, Goto, Call, Return, Fail, FollowReturns, Following, Pointing, Restoring, setDNSServers
<1>4. Remembers(p)'
  BY <1>p, <1>f DEF Remembers, Covers, AliasOn, Following, Pointing, Points, TypeOK
<1>5. Replays(p)'
  BY <1>p, <1>f DEF Replays, Restoring
<1>6. Saved(p)'
  BY <1>p DEF Saved, Points, TypeOK, Record, UsersOnly, Users, pointSet, At, Goto, Call, Return, Fail,
     FollowReturns, Following, Pointing, Restoring, setDNSServers
<1>7. InSession(p)'
  BY <1>p DEF InSession, TypeOK, pointSet, At, Goto, Call, Return, Fail, FollowReturns, Following, Pointing,
     Restoring, setDNSServers
<1>8. Points(p)'
  BY <1>p DEF Points, Remembers, Covers, TypeOK, Record, UsersOnly, Users, pointSet, At, Goto, Call, Return,
     Fail, FollowReturns, Following, Pointing, Restoring, setDNSServers
<1>9. Local(p)'
  BY <1>4, <1>5, <1>6, <1>7, <1>8 DEF Local
<1> QED BY <1>1, <1>2, <1>3, <1>9, ProcLemma

\* The service followed so far gets back what the user had.
LEMMA FollowBackStep ==
  ASSUME IInv, TypeOK', NEW p \in Procs, NEW ok \in BOOLEAN, followBack(p, ok)
  PROVE  IInv'
<1> USE NoneAssumption
<1>1. Acts(p)
  BY DEF Acts, IInv, TypeOK, Record, NoRecord, followBack, At, Goto, Call, Return, Fail, FollowReturns,
     Following, Pointing, Restoring, setDNSServers
<1>p. /\ TypeOK /\ UsersOnly /\ Recoverable /\ Alone
      /\ Remembers(p) /\ Replays(p) /\ Saved(p) /\ InSession(p) /\ Points(p)
  BY <1>1 DEF Acts, IInv, Local
<1>f. /\ pc[p] = "fBack" /\ pc'[p] \in {"idle", "release", "fBackSave"}
      /\ UNCHANGED <<stored, disk, alias, stuck>>
      /\ current[p] \in Services /\ owned[p].services[current[p]] = "user"
      /\ ~ok => UNCHANGED <<sys, owned>>
      /\ ok => sys' = [sys EXCEPT ![current[p]] = "user"]
  BY <1>p DEF TypeOK, Record, InSession, Points, UsersOnly, Users, followBack, At, Goto, Call, Return, Fail,
     FollowReturns, Following, Pointing, Restoring, setDNSServers
<1>g. ok => /\ owned'[p].alias = owned[p].alias /\ owned'[p].pid = owned[p].pid
                /\ \A t \in Services : owned'[p].services[t] = 
                    IF t = current[p] THEN "none" ELSE owned[p].services[t]
  <2> SUFFICES ASSUME ok PROVE <1>g!2
    OBVIOUS
  <2>1. PICK f \in [Procs -> Record] : f = owned
    BY <1>p DEF TypeOK
  <2>2. PICK g : g = owned'
    OBVIOUS
  <2>3. PICK s1 \in Services : s1 = current[p]
    BY <1>f
  <2>4. PICK v1 : v1 = "none"
    OBVIOUS
  <2>5. g = [f EXCEPT ![p].services[s1] = v1]
    BY <1>p, <2>1, <2>2, <2>3, <2>4, <1>f DEF followBack
  <2>6. /\ g[p].alias = f[p].alias /\ g[p].pid = f[p].pid
        /\ \A t \in Services : g[p].services[t] = IF t = s1 THEN v1 ELSE f[p].services[t]
    BY <2>5 DEF Record
  <2> QED BY <2>1, <2>2, <2>3, <2>4, <2>6
<1>2. UsersOnly'
  BY <1>p, <1>f, <1>g, <1>1, UsersLemma DEF Acts, UsersOnly, Users, NoRecord, NoServices
<1>3. Recoverable'
  BY <1>p DEF Recoverable, UsersOnly, Users, TypeOK, Record, Remembers, Replays, Saved, Points, Covers, AliasOn,
     followBack, At, Goto, Call, Return, Fail, FollowReturns, Following, Pointing, Restoring, setDNSServers
<1>4. Remembers(p)'
  BY <1>p, <1>f, <1>g DEF Remembers, Covers, AliasOn, Following, Pointing, TypeOK
<1>5. Replays(p)'
  BY <1>p, <1>f, <1>g DEF Replays, Restoring
<1>6. Saved(p)'
  BY <1>p DEF Saved, Points, TypeOK, Record, UsersOnly, Users, followBack, At, Goto, Call, Return, Fail,
     FollowReturns, Following, Pointing, Restoring, setDNSServers
<1>7. InSession(p)'
  BY <1>p DEF InSession, TypeOK, followBack, At, Goto, Call, Return, Fail, FollowReturns, Following, Pointing,
     Restoring, setDNSServers
<1>8. Points(p)'
  BY <1>p DEF Points, Remembers, Covers, TypeOK, Record, UsersOnly, Users, followBack, At, Goto, Call, Return,
     Fail, FollowReturns, Following, Pointing, Restoring, setDNSServers
<1>9. Local(p)'
  BY <1>4, <1>5, <1>6, <1>7, <1>8 DEF Local
<1> QED BY <1>1, <1>2, <1>3, <1>9, ProcLemma

\* The save drops from the disk only what was put back.
LEMMA FollowBackSaveStep ==
  ASSUME IInv, TypeOK', NEW p \in Procs, NEW ok \in BOOLEAN, followBackSave(p, ok)
  PROVE  IInv'
<1> USE NoneAssumption
<1>1. Acts(p)
  BY DEF Acts, IInv, TypeOK, Record, NoRecord, followBackSave, At, Call, Return, Fail, FollowReturns, Following,
     Pointing, Restoring, saveLocked
<1>p. /\ TypeOK /\ UsersOnly /\ Recoverable /\ Alone
      /\ Remembers(p) /\ Replays(p) /\ Saved(p) /\ InSession(p) /\ Points(p)
  BY <1>1 DEF Acts, IInv, Local
<1>f. /\ pc[p] = "fBackSave" /\ pc'[p] \in {"idle", "release"} /\ UNCHANGED <<owned, stored, sys, alias, stuck>>
      /\ ok => disk'.services = owned[p].services /\ disk'.alias = owned[p].alias
      /\ ~ok => disk' = disk
  BY <1>p DEF TypeOK, Record, InSession, Points, UsersOnly, Users, followBackSave, At, Call, Return, Fail,
     FollowReturns, Following, Pointing, Restoring, saveLocked
<1>2. UsersOnly'
  BY <1>p, <1>f, <1>1, UsersLemma DEF Acts, UsersOnly, Users, NoRecord, NoServices
<1>3. Recoverable'
  BY <1>p, <1>f DEF Recoverable, Remembers, Covers, AliasOn, Following, Pointing, Restoring
<1>4. Remembers(p)'
  BY <1>p DEF Remembers, Replays, Covers, AliasOn, TypeOK, Record, Recoverable, UsersOnly, Users, NoRecord,
     NoServices, followBackSave, At, Call, Return, Fail, FollowReturns, Following, Pointing, Restoring,
     saveLocked
<1>5. Replays(p)'
  BY <1>p, <1>f DEF Replays, Restoring
<1>6. Saved(p)'
  BY <1>p, <1>f DEF Saved, TypeOK, Record, Following, Pointing
<1>7. InSession(p)'
  BY <1>p DEF InSession, TypeOK, followBackSave, At, Call, Return, Fail, FollowReturns, Following, Pointing,
     Restoring, saveLocked
<1>8. Points(p)'
  BY <1>p DEF Points, Remembers, Covers, TypeOK, Record, UsersOnly, Users, followBackSave, At, Call, Return,
     Fail, FollowReturns, Following, Pointing, Restoring, saveLocked
<1>9. Local(p)'
  BY <1>4, <1>5, <1>6, <1>7, <1>8 DEF Local
<1> QED BY <1>1, <1>2, <1>3, <1>9, ProcLemma

\* The same in Release.
LEMMA RestoreSaveStep ==
  ASSUME IInv, TypeOK', NEW p \in Procs, NEW ok \in BOOLEAN, restoreSave(p, ok)
  PROVE  IInv'
<1> USE NoneAssumption
<1>1. Acts(p)
  BY DEF Acts, IInv, TypeOK, Record, NoRecord, restoreSave, At, Goto, memory, Following, Pointing, Restoring,
     saveLocked
<1>p. /\ TypeOK /\ UsersOnly /\ Recoverable /\ Alone
      /\ Remembers(p) /\ Replays(p) /\ Saved(p) /\ InSession(p) /\ Points(p)
  BY <1>1 DEF Acts, IInv, Local
<1>f. /\ pc[p] = "relSave" /\ pc'[p] = "restore" /\ UNCHANGED <<stored, todo, owned, sys, alias, stuck>>
      /\ ok => disk'.services = owned[p].services /\ disk'.alias = owned[p].alias
      /\ ~ok => disk' = disk
  BY <1>p DEF TypeOK, Record, InSession, Points, UsersOnly, Users, restoreSave, At, Goto, memory, Following,
     Pointing, Restoring, saveLocked
<1>2. UsersOnly'
  BY <1>p, <1>f, <1>1, UsersLemma DEF Acts, UsersOnly, Users, NoRecord, NoServices
<1>3. Recoverable'
  BY <1>p, <1>f DEF Recoverable, Remembers, Covers, AliasOn, Following, Pointing, Restoring
<1>4. Remembers(p)'
  BY <1>p DEF Remembers, Replays, Covers, AliasOn, TypeOK, Record, Recoverable, UsersOnly, Users, NoRecord,
     NoServices, restoreSave, At, Goto, memory, Following, Pointing, Restoring, saveLocked
<1>5. Replays(p)'
  BY <1>p, <1>f DEF Replays, Restoring
<1>6. Saved(p)'
  BY <1>p DEF Saved, Points, TypeOK, Record, UsersOnly, Users, restoreSave, At, Goto, memory, Following,
     Pointing, Restoring, saveLocked
<1>7. InSession(p)'
  BY <1>p DEF InSession, TypeOK, restoreSave, At, Goto, memory, Following, Pointing, Restoring, saveLocked
<1>8. Points(p)'
  BY <1>p DEF Points, Remembers, Covers, TypeOK, Record, UsersOnly, Users, restoreSave, At, Goto, memory,
     Following, Pointing, Restoring, saveLocked
<1>9. Local(p)'
  BY <1>4, <1>5, <1>6, <1>7, <1>8 DEF Local
<1> QED BY <1>1, <1>2, <1>3, <1>9, ProcLemma

\* The alias goes with the end of the session, or is stuck.
LEMMA ReleaseAliasStep ==
  ASSUME IInv, TypeOK', NEW p \in Procs, NEW ok \in BOOLEAN, releaseAlias(p, ok)
  PROVE  IInv'
<1> USE NoneAssumption
<1>1. Acts(p)
  BY DEF Acts, IInv, TypeOK, Record, NoRecord, releaseAlias, At, Goto, Following, Pointing, Restoring,
     removeAlias
<1>p. /\ TypeOK /\ UsersOnly /\ Recoverable /\ Alone
      /\ Remembers(p) /\ Replays(p) /\ Saved(p) /\ InSession(p) /\ Points(p)
  BY <1>1 DEF Acts, IInv, Local
<1>f. /\ pc[p] = "restore" /\ pc'[p] = "relEnd" /\ UNCHANGED <<stored, todo>>
      /\ owned'[p].services = owned[p].services
  BY <1>p DEF TypeOK, Record, InSession, Points, UsersOnly, Users, releaseAlias, At, Goto, Following, Pointing,
     Restoring, removeAlias
<1>2. UsersOnly'
  BY <1>p DEF UsersOnly, Users, TypeOK, Record, NoRecord, NoServices, releaseAlias, At, Goto, Following,
     Pointing, Restoring, removeAlias
<1>3. Recoverable'
  BY <1>p DEF Recoverable, UsersOnly, Users, TypeOK, Record, Remembers, Replays, Saved, Points, Covers, AliasOn,
     releaseAlias, At, Goto, Following, Pointing, Restoring, removeAlias
<1>4. Remembers(p)'
  BY <1>p DEF Remembers, Replays, Covers, AliasOn, TypeOK, Record, Recoverable, UsersOnly, Users, NoRecord,
     NoServices, releaseAlias, At, Goto, Following, Pointing, Restoring, removeAlias
<1>5. Replays(p)'
  BY <1>p, <1>f DEF Replays, Restoring
<1>6. Saved(p)'
  BY <1>p DEF Saved, Points, TypeOK, Record, UsersOnly, Users, releaseAlias, At, Goto, Following, Pointing,
     Restoring, removeAlias
<1>7. InSession(p)'
  BY <1>p DEF InSession, TypeOK, releaseAlias, At, Goto, Following, Pointing, Restoring, removeAlias
<1>8. Points(p)'
  BY <1>p DEF Points, Remembers, Covers, TypeOK, Record, UsersOnly, Users, releaseAlias, At, Goto, Following,
     Pointing, Restoring, removeAlias
<1>9. Local(p)'
  BY <1>4, <1>5, <1>6, <1>7, <1>8 DEF Local
<1> QED BY <1>1, <1>2, <1>3, <1>9, ProcLemma

\* The record is removed when nothing is left to put back.
LEMMA ReleaseEndStep ==
  ASSUME IInv, TypeOK', NEW p \in Procs, NEW ok \in BOOLEAN, releaseEnd(p, ok)
  PROVE  IInv'
<1> USE NoneAssumption
<1>1. Acts(p)
  BY DEF Acts, IInv, TypeOK, Record, NoRecord, releaseEnd, At, Call, Return, Following, Pointing, Restoring,
     saveLocked, Mapped
<1>p. /\ TypeOK /\ UsersOnly /\ Recoverable /\ Alone
      /\ Remembers(p) /\ Replays(p) /\ Saved(p) /\ InSession(p) /\ Points(p)
  BY <1>1 DEF Acts, IInv, Local
<1>f. /\ pc[p] = "relEnd" /\ pc'[p] = "idle" /\ UNCHANGED <<stored, sys, alias, stuck>> /\ session'[p] = "none"
      /\ \/ /\ owned' = owned
            /\ ok => disk'.services = owned[p].services /\ disk'.alias = owned[p].alias
            /\ ~ok => disk' = disk
         \/ /\ Mapped(owned[p].services) = {} /\ owned'[p] = NoRecord /\ disk' \in {disk, NoRecord}
  BY <1>p DEF TypeOK, Record, InSession, Points, UsersOnly, Users, releaseEnd, At, Call, Return, Following,
     Pointing, Restoring, saveLocked, Mapped
<1>h. Mapped(owned[p].services) = {} => \A s \in Services : sys[s] = "user"
  BY <1>p, <1>f DEF Remembers, Restoring, Covers, Mapped
<1>2. UsersOnly'
  BY <1>p, <1>f, <1>h, <1>1, UsersLemma DEF Acts, UsersOnly, Users, NoRecord, NoServices
<1>3. Recoverable'
  BY <1>p, <1>f, <1>h DEF Recoverable, Remembers, Covers, AliasOn, Restoring, NoRecord, Saved
<1>4. Remembers(p)'
  BY <1>p, <1>f, <1>h DEF Remembers, Covers, AliasOn, Restoring, NoRecord, Saved
<1>5. Replays(p)'
  BY <1>p, <1>f, <1>h DEF Replays, Restoring
<1>6. Saved(p)'
  BY <1>p DEF Saved, Points, TypeOK, Record, UsersOnly, Users, releaseEnd, At, Call, Return, Following,
     Pointing, Restoring, saveLocked, Mapped
<1>7. InSession(p)'
  BY <1>p DEF InSession, TypeOK, releaseEnd, At, Call, Return, Following, Pointing, Restoring, saveLocked,
     Mapped
<1>8. Points(p)'
  BY <1>p DEF Points, Remembers, Covers, TypeOK, Record, UsersOnly, Users, releaseEnd, At, Call, Return,
     Following, Pointing, Restoring, saveLocked, Mapped
<1>9. Local(p)'
  BY <1>4, <1>5, <1>6, <1>7, <1>8 DEF Local
<1> QED BY <1>1, <1>2, <1>3, <1>9, ProcLemma

\* A replayed service gets back what the user had, while the disk still names it.
LEMMA ReplayStep ==
  ASSUME IInv, TypeOK', NEW p \in Procs, NEW s \in Services, NEW ok \in BOOLEAN, replay(p, s, ok)
  PROVE  IInv'
<1> USE NoneAssumption
<1>1. Acts(p)
  BY DEF Acts, IInv, TypeOK, Record, NoRecord, replay, At, Following, Pointing, Restoring, setDNSServers, Mapped
<1>p. /\ TypeOK /\ UsersOnly /\ Recoverable /\ Alone
      /\ Remembers(p) /\ Replays(p) /\ Saved(p) /\ InSession(p) /\ Points(p)
  BY <1>1 DEF Acts, IInv, Local
<1>f. /\ pc[p] = "replay" /\ pc'[p] = "replay" /\ s \in todo[p] /\ UNCHANGED <<owned, disk, alias, stuck>>
      /\ todo'[p] = todo[p] \ {s}
      /\ ~ok => UNCHANGED <<sys, stored>>
      /\ ok => sys' = [sys EXCEPT ![s] = stored[p].services[s]]
  BY <1>p DEF TypeOK, Record, InSession, Points, UsersOnly, Users, replay, At, Following, Pointing, Restoring,
     setDNSServers, Mapped
<1>g. ok => /\ stored'[p].alias = stored[p].alias /\ stored'[p].pid = stored[p].pid
                /\ \A t \in Services : stored'[p].services[t] = 
                    IF t = s THEN "none" ELSE stored[p].services[t]
  <2> SUFFICES ASSUME ok PROVE <1>g!2
    OBVIOUS
  <2>1. PICK f \in [Procs -> Record] : f = stored
    BY <1>p DEF TypeOK
  <2>2. PICK g : g = stored'
    OBVIOUS
  <2>3. PICK s1 \in Services : s1 = s
    BY <1>f
  <2>4. PICK v1 : v1 = "none"
    OBVIOUS
  <2>5. g = [f EXCEPT ![p].services[s1] = v1]
    BY <1>p, <2>1, <2>2, <2>3, <2>4, <1>f DEF replay
  <2>6. /\ g[p].alias = f[p].alias /\ g[p].pid = f[p].pid
        /\ \A t \in Services : g[p].services[t] = IF t = s1 THEN v1 ELSE f[p].services[t]
    BY <2>5 DEF Record
  <2> QED BY <2>1, <2>2, <2>3, <2>4, <2>6
<1>h. stored[p].services[s] = "user"
  BY <1>p, <1>f DEF Replays, UsersOnly, Users, Mapped
<1>2. UsersOnly'
  BY <1>p, <1>f, <1>g, <1>h, <1>1, UsersLemma DEF Acts, UsersOnly, Users, NoRecord, NoServices
<1>3. Recoverable'
  BY <1>p DEF Recoverable, UsersOnly, Users, TypeOK, Record, Remembers, Replays, Saved, Points, Covers, AliasOn,
     replay, At, Following, Pointing, Restoring, setDNSServers, Mapped
<1>4. Remembers(p)'
  BY <1>p DEF Remembers, Replays, Covers, AliasOn, TypeOK, Record, Recoverable, UsersOnly, Users, NoRecord,
     NoServices, replay, At, Following, Pointing, Restoring, setDNSServers, Mapped
<1>5. Replays(p)'
  BY <1>p, <1>f, <1>g, <1>h DEF Replays, Covers, AliasOn, TypeOK, Mapped, Restoring
<1>6. Saved(p)'
  BY <1>p DEF Saved, Points, TypeOK, Record, UsersOnly, Users, replay, At, Following, Pointing, Restoring,
     setDNSServers, Mapped
<1>7. InSession(p)'
  BY <1>p DEF InSession, TypeOK, replay, At, Following, Pointing, Restoring, setDNSServers, Mapped
<1>8. Points(p)'
  BY <1>p DEF Points, Remembers, Covers, TypeOK, Record, UsersOnly, Users, replay, At, Following, Pointing,
     Restoring, setDNSServers, Mapped
<1>9. Local(p)'
  BY <1>4, <1>5, <1>6, <1>7, <1>8 DEF Local
<1> QED BY <1>1, <1>2, <1>3, <1>9, ProcLemma

\* The same for a service that Release puts back.
LEMMA RestoreLockedStep ==
  ASSUME IInv, TypeOK', NEW p \in Procs, NEW s \in Services, NEW ok \in BOOLEAN, restoreLocked(p, s, ok)
  PROVE  IInv'
<1> USE NoneAssumption
<1>1. Acts(p)
  BY DEF Acts, IInv, TypeOK, Record, NoRecord, restoreLocked, At, Goto, Following, Pointing, Restoring,
     setDNSServers, Mapped
<1>p. /\ TypeOK /\ UsersOnly /\ Recoverable /\ Alone
      /\ Remembers(p) /\ Replays(p) /\ Saved(p) /\ InSession(p) /\ Points(p)
  BY <1>1 DEF Acts, IInv, Local
<1>f. /\ pc[p] = "restore" /\ pc'[p] \in {"restore", "relSave"} /\ s \in todo[p]
      /\ UNCHANGED <<stored, disk, alias, stuck>> /\ todo'[p] = todo[p] \ {s}
      /\ ~ok => UNCHANGED <<sys, owned>>
      /\ ok => sys' = [sys EXCEPT ![s] = owned[p].services[s]]
  BY <1>p DEF TypeOK, Record, InSession, Points, UsersOnly, Users, restoreLocked, At, Goto, Following, Pointing,
     Restoring, setDNSServers, Mapped
<1>g. ok => /\ owned'[p].alias = owned[p].alias /\ owned'[p].pid = owned[p].pid
                /\ \A t \in Services : owned'[p].services[t] = 
                    IF t = s THEN "none" ELSE owned[p].services[t]
  <2> SUFFICES ASSUME ok PROVE <1>g!2
    OBVIOUS
  <2>1. PICK f \in [Procs -> Record] : f = owned
    BY <1>p DEF TypeOK
  <2>2. PICK g : g = owned'
    OBVIOUS
  <2>3. PICK s1 \in Services : s1 = s
    BY <1>f
  <2>4. PICK v1 : v1 = "none"
    OBVIOUS
  <2>5. g = [f EXCEPT ![p].services[s1] = v1]
    BY <1>p, <2>1, <2>2, <2>3, <2>4, <1>f DEF restoreLocked
  <2>6. /\ g[p].alias = f[p].alias /\ g[p].pid = f[p].pid
        /\ \A t \in Services : g[p].services[t] = IF t = s1 THEN v1 ELSE f[p].services[t]
    BY <2>5 DEF Record
  <2> QED BY <2>1, <2>2, <2>3, <2>4, <2>6
<1>h. owned[p].services[s] = "user"
  BY <1>p, <1>f DEF Replays, Restoring, UsersOnly, Users, Mapped
<1>2. UsersOnly'
  BY <1>p, <1>f, <1>g, <1>h, <1>1, UsersLemma DEF Acts, UsersOnly, Users, NoRecord, NoServices
<1>3. Recoverable'
  BY <1>p DEF Recoverable, UsersOnly, Users, TypeOK, Record, Remembers, Replays, Saved, Points, Covers, AliasOn,
     restoreLocked, At, Goto, Following, Pointing, Restoring, setDNSServers, Mapped
<1>4. Remembers(p)'
  BY <1>p, <1>f, <1>g, <1>h DEF Remembers, Covers, AliasOn, TypeOK, Restoring
<1>5. Replays(p)'
  BY <1>p DEF Remembers, Replays, Covers, AliasOn, TypeOK, Record, Recoverable, NoRecord, restoreLocked, At,
     Goto, Following, Pointing, Restoring, setDNSServers, Mapped
<1>6. Saved(p)'
  BY <1>p DEF Saved, Points, TypeOK, Record, UsersOnly, Users, restoreLocked, At, Goto, Following, Pointing,
     Restoring, setDNSServers, Mapped
<1>7. InSession(p)'
  BY <1>p DEF InSession, TypeOK, restoreLocked, At, Goto, Following, Pointing, Restoring, setDNSServers, Mapped
<1>8. Points(p)'
  BY <1>p DEF Points, Remembers, Covers, TypeOK, Record, UsersOnly, Users, restoreLocked, At, Goto, Following,
     Pointing, Restoring, setDNSServers, Mapped
<1>9. Local(p)'
  BY <1>4, <1>5, <1>6, <1>7, <1>8 DEF Local
<1> QED BY <1>1, <1>2, <1>3, <1>9, ProcLemma

-----------------------------------------------------------------------------
\* A process is launched when no other is alive, and has left nothing behind.
LEMMA LaunchStep ==
  ASSUME IInv, TypeOK', NEW p \in Procs, Launch(p), ~Overlap
  PROVE  IInv'
<1> USE DEF Launch
<1>1. \A q \in Procs : life[q] # "live"
  OBVIOUS
<1>2. /\ life[p] = "new" /\ UNCHANGED <<world, memory>> /\ pc'[p] = "stale"
      /\ \A q \in Procs \ {p} : life'[q] = life[q] /\ pc'[q] = pc[q]
      /\ life'[p] = "live"
  BY DEF IInv, TypeOK
<1>3. Alone' /\ \A q \in Procs : life'[q] = "live" => q = p
  BY <1>1, <1>2 DEF Alone
<1>4. Fresh'
  BY <1>2 DEF IInv, Fresh, world, memory
<1>5. UsersOnly' /\ Recoverable'
  BY <1>2 DEF IInv, UsersOnly, Users, Recoverable, world, memory
<1>6. /\ session[p] = "none" /\ ~watching[p] /\ follows[p] = {}
      /\ current[p] = None /\ stored[p] = NoRecord /\ disk.pid # p
  BY <1>2 DEF IInv, Fresh
<1>7. Local(p)'
  <2> USE <1>2, <1>6, NoneAssumption DEF world, memory, Following, Pointing, Restoring
  <2>1. Remembers(p)' /\ Saved(p)' /\ InSession(p)' /\ Points(p)'
    BY DEF Remembers, Saved, InSession, Points
  <2>2. NoRecord.pid # p
    BY DEF NoRecord
  <2>3. Replays(p)'
    BY <2>2 DEF Replays
  <2> QED BY <2>1, <2>3 DEF Local
<1> QED BY <1>3, <1>4, <1>5, <1>7 DEF IInv

\* What a killed process leaves behind is on disk.
LEMMA KilledStep ==
  ASSUME IInv, TypeOK', NEW p \in Procs, Killed(p)
  PROVE  IInv'
<1> USE NoneAssumption DEF Killed
<1>1. /\ life[p] = "live" /\ life'[p] = "dead" /\ pc'[p] = "idle" /\ session'[p] = "none" /\ watching'[p] = FALSE
      /\ follows'[p] = {} /\ current'[p] = None /\ stored'[p] = NoRecord /\ owned'[p] = NoRecord
      /\ \A q \in Procs \ {p} : /\ pc'[q] = pc[q] /\ session'[q] = session[q] /\ watching'[q] = watching[q]
                               /\ follows'[q] = follows[q] /\ current'[q] = current[q] /\ stored'[q] = stored[q]
                               /\ owned'[q] = owned[q] /\ life'[q] = life[q]
  BY DEF IInv, TypeOK
<1>2. \A q \in Procs : life'[q] # "live"
  BY <1>1 DEF IInv, Alone
<1>3. Fresh'
  <2>1. \A q \in Procs : NoRecord.pid # q
    BY DEF NoRecord
  <2> QED BY <1>1, <2>1 DEF IInv, Fresh
<1>4. UsersOnly' /\ Recoverable'
  BY <1>1 DEF IInv, UsersOnly, Users, Recoverable, NoRecord, NoServices
<1> QED BY <1>2, <1>3, <1>4 DEF IInv, Alone

\* The default interface changes: only a registered callback hears of it.
LEMMA DefaultStep ==
  ASSUME IInv, TypeOK', NEW t \in Services \cup {None}, DefaultChanges(t)
  PROVE  IInv'
<1> USE DEF DefaultChanges
<1>1. Alone' /\ Fresh' /\ UsersOnly' /\ Recoverable'
  BY DEF IInv, Alone, Fresh, UsersOnly, Users, Recoverable
<1>2. ASSUME NEW p \in Procs, life'[p] = "live" PROVE Local(p)'
  <2>1. Local(p)
    BY <1>2 DEF IInv
  <2>2. Remembers(p)' /\ Replays(p)'
    BY <2>1 DEF Local, Remembers, Replays, Covers, AliasOn
  <2>3. Saved(p)' /\ InSession(p)' /\ Points(p)'
    BY <2>1 DEF Local, Saved, InSession, Points
  <2> QED BY <2>2, <2>3 DEF Local
<1> QED BY <1>1, <1>2 DEF IInv

\* Every step of a process keeps the invariant.
LEMMA StepLemma ==
  ASSUME IInv, TypeOK', NEW p \in Procs, Step(p)
  PROVE  IInv'
<1>1. CASE Prepare(p) \/ Apply(p) \/ Release(p) \/ releaseBegin(p) \/ staleLook(p) \/ follow(p) \/ followLate(p)
  BY <1>1, PrepareStep, ApplyStep, ReleaseStep, ReleaseBeginStep, StaleLookStep, FollowStep, FollowLateStep
<1>2. ASSUME NEW ok \in BOOLEAN,
             replayAlias(p, ok) \/ replayEnd(p, ok) \/ prepareSave(p, ok) \/ addAlias(p, ok) \/ probe(p, ok)
      PROVE  IInv'
  BY <1>2, ReplayAliasStep, ReplayEndStep, PrepareSaveStep, AddAliasStep, ProbeStep
<1>3. ASSUME NEW ok \in BOOLEAN,
             \/ followLook(p, ok) \/ pointSave(p, ok) \/ pointSet(p, ok) \/ followBack(p, ok) \/ followBackSave(p, ok)
      PROVE  IInv'
  BY <1>3, FollowLookStep, PointSaveStep, PointSetStep, FollowBackStep, FollowBackSaveStep
<1>4. ASSUME NEW ok \in BOOLEAN, restoreSave(p, ok) \/ releaseAlias(p, ok) \/ releaseEnd(p, ok)
      PROVE  IInv'
  BY <1>4, RestoreSaveStep, ReleaseAliasStep, ReleaseEndStep
<1>5. ASSUME NEW ok \in BOOLEAN, NEW s \in Services, replay(p, s, ok) \/ restoreLocked(p, s, ok)
      PROVE  IInv'
  BY <1>5, ReplayStep, RestoreLockedStep
<1> QED BY <1>1, <1>2, <1>3, <1>4, <1>5 DEF Step

\* The invariant holds of every behaviour with one core at a time.
THEOREM Invariance == ASSUME ~Overlap PROVE Spec => []IInv
<1>1. IInv /\ [Next]_vars => IInv'
  <2> SUFFICES ASSUME IInv, [Next]_vars PROVE IInv'
    OBVIOUS
  <2>1. TypeOK'
    BY TypeStep
  <2>2. CASE UNCHANGED vars
    <3> USE <2>2 DEF vars, world, memory
    <3>1. Alone' /\ Fresh' /\ UsersOnly' /\ Recoverable'
      BY DEF IInv, Alone, Fresh, UsersOnly, Users, Recoverable
    <3>2. ASSUME NEW p \in Procs, life[p] = "live" PROVE Local(p)'
      <4>1. Local(p)
        BY <3>2 DEF IInv
      <4>2. Remembers(p)' /\ Replays(p)'
        BY <4>1 DEF Local, Remembers, Replays, Covers, AliasOn
      <4>3. Saved(p)' /\ InSession(p)' /\ Points(p)'
        BY <4>1 DEF Local, Saved, InSession, Points
      <4> QED BY <4>2, <4>3 DEF Local
    <3> QED BY <2>1, <3>1, <3>2 DEF IInv
  <2>3. CASE Next
    BY <2>1, <2>3, StepLemma, LaunchStep, KilledStep, DefaultStep DEF Next
  <2> QED BY <2>2, <2>3
<1> QED BY <1>1, InitLemma, PTL DEF Spec

\* With one core at a time, whatever a core that dies has changed is on disk with what the
\* user had, wherever the kill comes: saveLocked precedes every change and follows its undoing.
THEOREM RecoverableAlways == ASSUME ~Overlap PROVE Spec => []Recoverable
<1>1. IInv => Recoverable
  BY DEF IInv
<1> QED BY <1>1, Invariance, PTL

\* With one core at a time, a service is pointed at a core only in its session, with what is
\* to put back remembered: a follow() goroutine that Release has overtaken changes nothing.
THEOREM PointsInSession == ASSUME ~Overlap PROVE Spec => PointsOnlyInSession
<1> DEFINE Begins == \A s \in Services : sys[s] # "address" /\ sys'[s] = "address" =>
                       \E p \in Procs : session[p] # "none" /\ owned[p].services[s] # "none"
<1>1. IInv /\ [Next]_vars => [Begins]_vars
  <2> SUFFICES ASSUME IInv, [Next]_vars, NEW s \in Services, sys[s] # "address", sys'[s] = "address"
               PROVE  \E p \in Procs : session[p] # "none" /\ owned[p].services[s] # "none"
    OBVIOUS
  <2>1. ASSUME NEW p \in Procs, NEW ok \in BOOLEAN, pointSet(p, ok)
        PROVE  session[p] # "none" /\ owned[p].services[s] # "none"
    <3>1. InSession(p) /\ Points(p) /\ pc[p] = "fSet"
      BY <2>1 DEF pointSet, At, IInv, Local
    <3>2. point[p] \in Services /\ sys' \in {sys, [sys EXCEPT ![point[p]] = "address"]}
      BY <2>1, <3>1 DEF pointSet, setDNSServers, Points, Pointing
    <3>3. s = point[p]
      BY <3>2 DEF IInv, TypeOK
    <3> QED BY <3>1, <3>3 DEF InSession, Points, Following, Pointing
  <2>2. ASSUME NEW p \in Procs, NEW ok \in BOOLEAN, followBack(p, ok) PROVE FALSE
    <3>1. current[p] \in Services /\ owned[p].services[current[p]] = "user"
      BY <2>2 DEF followBack, At, IInv, Local, Points, TypeOK
    <3> QED BY <2>2, <3>1 DEF followBack, setDNSServers, IInv, TypeOK
  <2>3. ASSUME NEW p \in Procs, NEW ok \in BOOLEAN, NEW t \in Services, replay(p, t, ok) PROVE FALSE
    <3>1. stored[p].services[t] \in {"user", "none"}
      BY DEF IInv, UsersOnly, Users
    <3> QED BY <2>3, <3>1 DEF replay, setDNSServers, IInv, TypeOK
  <2>4. ASSUME NEW p \in Procs, NEW ok \in BOOLEAN, NEW t \in Services, restoreLocked(p, t, ok) PROVE FALSE
    <3>1. owned[p].services[t] \in {"user", "none"}
      BY DEF IInv, UsersOnly, Users
    <3> QED BY <2>4, <3>1 DEF restoreLocked, setDNSServers, IInv, TypeOK
  <2>5. sys' # sys
    OBVIOUS
  <2>6. ASSUME NEW p \in Procs, NEW ok \in BOOLEAN,
               \/ replayAlias(p, ok) \/ replayEnd(p, ok) \/ prepareSave(p, ok) \/ addAlias(p, ok) \/ probe(p, ok)
               \/ followLook(p, ok) \/ pointSave(p, ok) \/ followBackSave(p, ok) \/ restoreSave(p, ok)
               \/ releaseAlias(p, ok) \/ releaseEnd(p, ok)
        PROVE  FALSE
    BY <2>5, <2>6 DEF replayAlias, replayEnd, prepareSave, addAlias, probe, followLook, pointSave,
       followBackSave, restoreSave, releaseAlias, releaseEnd, world
  <2>7. ASSUME NEW p \in Procs,
               \/ Prepare(p) \/ Apply(p) \/ Release(p) \/ releaseBegin(p) \/ staleLook(p)
               \/ follow(p) \/ followLate(p) \/ Launch(p) \/ Killed(p)
        PROVE  FALSE
    BY <2>5, <2>7 DEF Prepare, Apply, Release, releaseBegin, staleLook, follow, followLate, Launch, Killed,
       world
  <2>8. ASSUME NEW t \in Services \cup {None}, DefaultChanges(t) PROVE FALSE
    BY <2>5, <2>8 DEF DefaultChanges
  <2>9. ~UNCHANGED vars
    BY <2>5 DEF vars, world
  <2> QED BY <2>1, <2>2, <2>3, <2>4, <2>6, <2>7, <2>8, <2>9 DEF Next, Step
<1> QED BY <1>1, Invariance, PTL DEF Spec, PointsOnlyInSession

=============================================================================
