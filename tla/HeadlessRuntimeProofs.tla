------------------------ MODULE HeadlessRuntimeProofs ------------------------
(***************************************************************************)
(* The four safety properties of HeadlessRuntime, for any set of profiles   *)
(* and any limits on strikes and boots.                                    *)
(***************************************************************************)
EXTENDS HeadlessRuntime, TLAPS

Marks == {"harm", "over", "blame", "dispatched"}
Lives == {"off", "loaded", "settled", "starting", "exec", "teardown", "after", "quitting", "quit"}
Quit  == life \in {"quitting", "quit"}

USE DEF Alive, Exiting, Quit

(* What the steps need to know of the variables' types. *)
Types ==
    /\ disk \in Records /\ g \in Records
    /\ remember \in Maybe(Profiles) /\ bootId \in Maybe(Profiles) /\ retryId \in Maybe(Profiles)
    /\ want \in Maybe(Profiles) /\ run \in Maybe(Profiles) /\ started \in Maybe(Profiles)
    /\ bootTimer \in Maybe(Profiles) /\ runTimer \in Maybe(Profiles)
    /\ start.profile \in Maybe(Profiles)
    /\ life \in Lives
    /\ exit \in Codes \cup {"none"}
    /\ row \in Maybe(Profiles) /\ harm \in Nat /\ blame \in Nat /\ giveUps \in Nat
    /\ counted \in SUBSET Marks

(* The record in memory is the one on disk, except for a candidate that    *)
(* decide() has not saved because there was no record before it.           *)
Unsaved == /\ disk.profile = NoProfile /\ disk.strikes = 0 /\ ~disk.armed
           /\ g.strikes = 0 /\ ~g.armed /\ harm = 0
Synced == /\ g.open = disk.open /\ g.unstable = disk.unstable /\ g.exit = disk.exit
          /\ g = disk \/ Unsaved
          /\ life \in {"off", "loaded", "settled"} => g = disk

(* Nothing has happened before the process serves. *)
Idle ==
    /\ life \in {"off", "loaded", "settled"} =>
         /\ phase = "none" /\ bootId = NoProfile /\ retryId = NoProfile /\ ~request /\ want = NoProfile
         /\ exit = "none" /\ ~override
    /\ life \in {"off", "loaded", "settled", "starting"} =>
         /\ core = "down" /\ start = NoStart /\ run = NoProfile /\ started = NoProfile /\ ~crashed
         /\ bootTimer = NoProfile /\ runTimer = NoProfile /\ counted = {}
    /\ life = "starting" => phase # "armed" /\ retryId = NoProfile
    /\ life \in {"settled", "starting"} => ~g.armed

(* last_exit in the course of a life. *)
Written ==
    /\ life # "off" => returned = Ended("none", "none")
    /\ life \in {"loaded", "settled", "starting", "exec", "quitting"} => g.exit = "none"
    /\ life = "quit" => g.exit \in {"none", "restart"}
    /\ life \in {"teardown", "after"} => exit # "none" /\ g.exit = ExitCode
    /\ override => exit = "restart"
    /\ ExitIsRecorded

(* The boots that gave up are in the streak, or about to be counted by the *)
(* next settlePrevious().                                                  *)
Counted ==
    /\ giveUps <= g.unstable \/ (g.open /\ giveUps <= g.unstable + 1)
    /\ life \in {"settled", "starting", "exec"} => giveUps <= g.unstable
    /\ giveUps <= BootsToStayUp
    /\ KeepsArm(exit) => g.unstable < BootsToStayUp

(* The record is about the row's profile, and so is a resume. *)
Owner ==
    /\ g.profile \in {row, NoProfile}
    /\ g.profile = NoProfile => g.strikes = 0 /\ ~g.armed /\ harm = 0
    /\ bootId # NoProfile => bootId = row /\ bootId = g.profile

(* One life dispatches the boot start once, and its record is armed only   *)
(* after that.                                                             *)
Trial ==
    /\ phase \in {"waiting", "armed"} => bootId # NoProfile
    /\ phase = "armed" => "dispatched" \in counted
    /\ phase = "waiting" \/ retryId # NoProfile \/ request => "dispatched" \notin counted
    /\ "blame" \in counted => "dispatched" \in counted
    /\ retryId # NoProfile => retryId = bootId
    /\ bootTimer # NoProfile =>
         bootTimer = bootId /\ phase = "done" /\ "dispatched" \in counted
    /\ start.boot /\ phase = "armed" => start.profile = bootId
    /\ g.armed /\ life \in {"exec", "teardown", "quitting"} => bootId # NoProfile /\ "dispatched" \in counted

(* While the record is armed the profile's first crash is still to come, so *)
(* it is not taken for a second one.                                       *)
FirstCrash ==
    /\ request => core # "dead" /\ ~crashed
    /\ g.armed /\ life = "exec" => ~crashed
    /\ run # NoProfile => started = run
    /\ life = "exec" /\ bootTimer # NoProfile /\ g.armed /\ "over" \notin counted => run = bootTimer

(* Every harm is a strike, or will be one because the record is armed; an  *)
(* armed record has a strike to spare.                                     *)
Paid ==
    /\ harm <= g.strikes \/ (g.armed /\ harm <= g.strikes + 1)
    /\ life \in {"settled", "starting", "exec"} \/ (Quit /\ ~KeepsArm(exit)) => harm <= g.strikes
    /\ life = "exec" /\ (phase = "armed" \/ bootTimer # NoProfile) /\ "over" \notin counted
         => g.armed \/ harm < g.strikes
    /\ g.armed => g.strikes < StrikesToSuppress
    /\ phase = "waiting" \/ retryId # NoProfile => g.strikes < StrikesToSuppress

(* Who gives the exit its strike: the record stays armed only for 70 and 71, *)
(* and no survival check is left to disarm it then.                         *)
Kept ==
    /\ KeepsArm(exit) => bootTimer = NoProfile \/ (~g.armed /\ ~request)
    /\ life \in {"teardown", "after"} /\ ~KeepsArm(ExitCode) => ~g.armed

(* An armed record owes a strike that blame has already counted, or will.  *)
Owed ==
    /\ g.strikes <= blame
    /\ g.armed /\ (life # "exec" \/ "blame" \in counted) => g.strikes < blame
    /\ life = "exec" /\ core # "up" /\ bootId # NoProfile /\ "dispatched" \in counted => "blame" \in counted

IInv == /\ Types /\ Synced /\ Idle /\ Written /\ Counted /\ Owner
        /\ Trial /\ FirstCrash /\ Paid /\ Kept /\ Owed

-----------------------------------------------------------------------------
(* What the guard's operations do to a record. *)

(* The fields of a record that is a record. *)
LEMMA FieldTypes ==
    ASSUME NEW r \in Records
    PROVE  /\ r.profile \in Maybe(Profiles) /\ r.strikes \in 0 .. StrikesToSuppress /\ r.armed \in BOOLEAN
           /\ r.open \in BOOLEAN /\ r.unstable \in 0 .. BootsToStayUp /\ r.exit \in Codes \cup {"none"}
           /\ r.strikes \in Nat /\ r.strikes <= StrikesToSuppress
           /\ r.unstable \in Nat /\ r.unstable <= BootsToStayUp
<1>1. r.profile \in Maybe(Profiles) /\ r.strikes \in 0 .. StrikesToSuppress /\ r.armed \in BOOLEAN
  BY DEF Records
<1>2. r.open \in BOOLEAN /\ r.unstable \in 0 .. BootsToStayUp /\ r.exit \in Codes \cup {"none"}
  BY DEF Records
<1>. QED BY <1>1, <1>2, HeadlessAssumption

\* disarm() and nothing else.
LEMMA DisarmFacts ==
    ASSUME NEW r \in Records
    PROVE  /\ Disarm(r) \in Records /\ Disarm(r).armed = FALSE /\ Disarm(r).strikes = r.strikes
           /\ Disarm(r).profile = r.profile /\ Disarm(r).open = r.open
           /\ Disarm(r).unstable = r.unstable /\ Disarm(r).exit = r.exit
BY DEF Disarm, Records

\* A strike disarms and stops counting at the limit.
LEMMA StrikeFacts ==
    ASSUME NEW r \in Records
    PROVE  /\ Strike(r) \in Records /\ Strike(r).armed = FALSE
           /\ Strike(r).strikes = IF r.strikes < StrikesToSuppress THEN r.strikes + 1 ELSE StrikesToSuppress
           /\ Strike(r).profile = r.profile /\ Strike(r).open = r.open
           /\ Strike(r).unstable = r.unstable /\ Strike(r).exit = r.exit
<1>1. Least(r.strikes + 1, StrikesToSuppress) \in 0 .. StrikesToSuppress
  BY FieldTypes, HeadlessAssumption DEF Least
<1>2. Strike(r) \in Records
  BY <1>1 DEF Strike, Records
<1>3. Least(r.strikes + 1, StrikesToSuppress)
        = IF r.strikes < StrikesToSuppress THEN r.strikes + 1 ELSE StrikesToSuppress
  BY FieldTypes, HeadlessAssumption DEF Least
<1>. QED BY <1>2, <1>3 DEF Strike, Records

\* arm() keeps the strikes of the same profile only.
LEMMA ArmFacts ==
    ASSUME NEW r \in Records, NEW p \in Profiles
    PROVE  /\ Arm(r, p) \in Records /\ Arm(r, p).armed = TRUE /\ Arm(r, p).profile = p
           /\ Arm(r, p).strikes = IF p = r.profile THEN r.strikes ELSE 0
           /\ Arm(r, p).open = r.open /\ Arm(r, p).unstable = r.unstable /\ Arm(r, p).exit = r.exit
<1>1. (IF p = r.profile THEN r.strikes ELSE 0) \in 0 .. StrikesToSuppress
  BY FieldTypes, HeadlessAssumption
<1>2. p \in Maybe(Profiles)
  BY DEF Maybe
<1>. QED BY <1>1, <1>2 DEF Arm, Records

\* survived() clears the strikes.
LEMMA SurvivedFacts ==
    ASSUME NEW r \in Records
    PROVE  /\ Survived(r) \in Records /\ Survived(r).armed = FALSE /\ Survived(r).strikes = 0
           /\ Survived(r).profile = r.profile /\ Survived(r).open = r.open
           /\ Survived(r).unstable = r.unstable /\ Survived(r).exit = r.exit
<1>1. 0 \in 0 .. StrikesToSuppress
  BY HeadlessAssumption
<1>. QED BY <1>1 DEF Survived, Records

\* markStable() closes the boot.
LEMMA MarkStableFacts ==
    ASSUME NEW r \in Records
    PROVE  /\ MarkStable(r) \in Records /\ MarkStable(r).open = FALSE /\ MarkStable(r).unstable = 0
           /\ MarkStable(r).profile = r.profile /\ MarkStable(r).strikes = r.strikes
           /\ MarkStable(r).armed = r.armed /\ MarkStable(r).exit = r.exit
<1>1. 0 \in 0 .. BootsToStayUp
  BY HeadlessAssumption
<1>. QED BY <1>1 DEF MarkStable, Records

\* The exit is written; only 70 and 71 keep the arm.
LEMMA NoteExitFacts ==
    ASSUME NEW r \in Records, NEW code \in Codes
    PROVE  /\ NoteExit(r, code) \in Records /\ NoteExit(r, code).exit = code
           /\ NoteExit(r, code).armed = (r.armed /\ KeepsArm(code))
           /\ NoteExit(r, code).profile = r.profile /\ NoteExit(r, code).strikes = r.strikes
           /\ NoteExit(r, code).open = r.open /\ NoteExit(r, code).unstable = r.unstable
<1>1. CASE KeepsArm(code)
  <2>1. NoteExit(r, code) = [r EXCEPT !.exit = code]
    BY <1>1 DEF NoteExit
  <2>. QED BY <1>1, <2>1 DEF Records
<1>2. CASE ~KeepsArm(code)
  <2>1. NoteExit(r, code) = [Disarm(r) EXCEPT !.exit = code]
    BY <1>2 DEF NoteExit
  <2>. QED BY <1>2, <2>1, DisarmFacts DEF Records
<1>. QED BY <1>1, <1>2

(* The settled record: the streak and the open boot. *)
Settled(r) == [r EXCEPT !.unstable = Streak(r), !.open = TRUE]

\* The boot before is counted and this one is open.
LEMMA SettledFacts ==
    ASSUME NEW r \in Records
    PROVE  /\ Settled(r) \in Records /\ Settled(r).open = TRUE
           /\ Settled(r).unstable = IF r.open /\ r.unstable < BootsToStayUp THEN r.unstable + 1 ELSE r.unstable
           /\ Settled(r).profile = r.profile /\ Settled(r).strikes = r.strikes
           /\ Settled(r).armed = r.armed /\ Settled(r).exit = r.exit
<1>1. Streak(r) \in 0 .. BootsToStayUp
  BY FieldTypes, HeadlessAssumption DEF Streak, Least
<1>2. Streak(r) = IF r.open /\ r.unstable < BootsToStayUp THEN r.unstable + 1 ELSE r.unstable
  BY FieldTypes, HeadlessAssumption DEF Streak, Least
<1>. QED BY <1>1, <1>2 DEF Settled, Records

\* The constructor's clearing of last_exit.
LEMMA ClearedFacts ==
    ASSUME NEW r \in Records
    PROVE  LET c == [r EXCEPT !.exit = "none"]
           IN  /\ c \in Records /\ c.exit = "none" /\ c.profile = r.profile /\ c.strikes = r.strikes
               /\ c.armed = r.armed /\ c.open = r.open /\ c.unstable = r.unstable
BY DEF Records

\* The record of a new candidate.
LEMMA NewRecordFacts ==
    ASSUME NEW r \in Records, NEW p \in Profiles
    PROVE  LET c == [r EXCEPT !.profile = p, !.strikes = 0, !.armed = FALSE]
           IN  /\ c \in Records /\ c.exit = r.exit /\ c.profile = p /\ c.strikes = 0
               /\ c.armed = FALSE /\ c.open = r.open /\ c.unstable = r.unstable
<1>1. 0 \in 0 .. StrikesToSuppress /\ p \in Maybe(Profiles)
  BY HeadlessAssumption DEF Maybe
<1>. QED BY <1>1 DEF Records

-----------------------------------------------------------------------------
(* What a boot that went wrong adds to the histories. *)
LEMMA HarmFacts ==
    ASSUME Types, NEW certain \in BOOLEAN, Harm(certain)
    PROVE  /\ harm' \in Nat /\ harm' <= harm + 1
           /\ ~certain => harm' = harm
           /\ blame' \in Nat
           /\ g.strikes <= blame => g.strikes <= blame'
           /\ g.strikes <= blame /\ Dispatched /\ "blame" \notin counted => g.strikes < blame'
           /\ ~(Dispatched /\ "blame" \notin counted) => blame' = blame
<1>1. g.strikes \in Nat /\ g.strikes <= StrikesToSuppress
  BY FieldTypes DEF Types
<1>2. \A h \in Nat : /\ Count(h) \in Nat /\ Count(h) <= h + 1
                     /\ g.strikes <= h => g.strikes < Count(h)
  BY <1>1, HeadlessAssumption DEF Count, Least
<1>3. harm \in Nat /\ blame \in Nat
  BY DEF Types
<1>4. harm' \in Nat /\ harm' <= harm + 1 /\ (~certain => harm' = harm)
  BY <1>2, <1>3 DEF Harm
<1>5. ~(Dispatched /\ "blame" \notin counted) => blame' = blame
  BY DEF Harm
<1>6. Dispatched /\ "blame" \notin counted => blame' = Count(blame)
  BY DEF Harm
<1>. QED BY <1>1, <1>2, <1>3, <1>4, <1>5, <1>6

\* ... and the marks of this life with it, against the record's strikes.
LEMMA HurtFacts ==
    ASSUME Types, Trial, Owed, NEW certain \in BOOLEAN, Hurt(certain)
    PROVE  /\ harm' \in Nat /\ harm' <= harm + 1 /\ (~certain => harm' = harm)
           /\ blame' \in Nat /\ g.strikes <= blame'
           /\ counted' \in SUBSET Marks /\ counted \subseteq counted'
           /\ certain => "over" \in counted'
           /\ "over" \in counted' => "over" \in counted \/ certain
           /\ "dispatched" \in counted' => "dispatched" \in counted
           /\ "blame" \in counted' => "dispatched" \in counted'
           /\ bootId # NoProfile /\ "dispatched" \in counted => "blame" \in counted'
           /\ g.armed /\ "blame" \in counted' => g.strikes < blame'
<1>1. Harm(certain)
  BY DEF Hurt
<1>2. /\ counted' \in SUBSET Marks /\ counted \subseteq counted'
      /\ Dispatched => "blame" \in counted'
      /\ certain => "over" \in counted'
      /\ "dispatched" \in counted' => "dispatched" \in counted
      /\ "over" \in counted' => "over" \in counted \/ certain
      /\ "blame" \in counted' => "blame" \in counted \/ Dispatched
  BY DEF Hurt, Types, Marks
<1>3. /\ harm' \in Nat /\ harm' <= harm + 1 /\ (~certain => harm' = harm)
      /\ g.strikes <= blame' /\ blame' \in Nat
      /\ (Dispatched /\ "blame" \notin counted => g.strikes < blame')
      /\ (~(Dispatched /\ "blame" \notin counted) => blame' = blame)
  BY <1>1, HarmFacts DEF Owed
<1>4. "blame" \in counted' => "dispatched" \in counted'
  BY <1>2 DEF Trial, Dispatched
<1>5. bootId # NoProfile /\ "dispatched" \in counted => "blame" \in counted'
  BY <1>2 DEF Dispatched
<1>6. g.armed /\ "blame" \in counted' => g.strikes < blame'
  BY <1>2, <1>3 DEF Owed
<1>. QED BY <1>2, <1>3, <1>4, <1>5, <1>6

-----------------------------------------------------------------------------
\* The constructor consumes last_exit and changes nothing else of the record.
LEMMA LoadKeeps == ASSUME IInv, Load PROVE IInv'
<1>. USE DEF IInv, Load, Save, durable, boot, conn, timers, ghosts
<1>a. /\ g' \in Records /\ disk' = g' /\ g'.exit = "none" /\ g'.profile = g.profile /\ g'.strikes = g.strikes
      /\ g'.armed = g.armed /\ g'.open = g.open /\ g'.unstable = g.unstable /\ g = disk
  BY ClearedFacts DEF Types, Synced
<1>. USE <1>a
<1>1. Types'
  BY DEF Types, Lives, Maybe, Marks, Codes, NoStart
<1>2. Synced'
  BY DEF Synced, Unsaved, Paid, Types
<1>3. Idle'
  BY DEF Idle
<1>4. Written'
  BY DEF Written, ExitIsRecorded, ExitCode, Ended, Codes, Synced, Idle
<1>5. Counted'
  BY DEF Counted, KeepsArm, StayUp, Types, Idle
<1>6. Owner'
  BY DEF Owner, Trial
<1>7. Trial'
  BY DEF Trial, Idle, Owner, NoStart
<1>8. FirstCrash'
  BY DEF FirstCrash, Trial, Idle
<1>9. Paid'
  BY DEF Paid, Trial, Idle, Owner, FirstCrash, Types
<1>10. Kept'
  BY DEF Kept, KeepsArm, ExitCode, Idle
<1>11. Owed'
  BY DEF Owed, Trial, Idle, Types
<1>. QED BY <1>1, <1>2, <1>3, <1>4, <1>5, <1>6, <1>7, <1>8, <1>9, <1>10, <1>11 DEF IInv

\* The pending strike is given and the boot before is counted: what was owed is paid.
LEMMA settlePreviousKeeps == ASSUME IInv, settlePrevious PROVE IInv'
<1>. USE DEF IInv, settlePrevious, durable, boot, conn, timers, ghosts
<1>a. g' = (IF g.armed THEN Strike(Settled(g)) ELSE Settled(g)) /\ disk' = g'
  BY DEF Save, Settled
<1>b. /\ g' \in Records /\ g'.armed = FALSE /\ g'.profile = g.profile /\ g'.open = TRUE /\ g'.exit = g.exit
      /\ g'.unstable = (IF g.open /\ g.unstable < BootsToStayUp THEN g.unstable + 1 ELSE g.unstable)
      /\ g'.strikes = (IF g.armed /\ g.strikes < StrikesToSuppress THEN g.strikes + 1 ELSE g.strikes)
  <2>1. CASE g.armed
    <3>1. Settled(g) \in Records
      BY SettledFacts DEF Types
    <3>2. g' = Strike(Settled(g))
      BY <1>a, <2>1
    <3>3. /\ g' \in Records /\ g'.armed = FALSE /\ g'.profile = Settled(g).profile /\ g'.open = Settled(g).open
          /\ g'.exit = Settled(g).exit /\ g'.unstable = Settled(g).unstable
          /\ g'.strikes = (IF Settled(g).strikes < StrikesToSuppress THEN Settled(g).strikes + 1 ELSE StrikesToSuppress)
      BY <3>1, <3>2, StrikeFacts
    <3>4. g.strikes \in Nat /\ g.strikes <= StrikesToSuppress
      BY FieldTypes DEF Types
    <3>5. /\ Settled(g).open = TRUE /\ Settled(g).profile = g.profile /\ Settled(g).strikes = g.strikes
          /\ Settled(g).exit = g.exit
          /\ Settled(g).unstable = (IF g.open /\ g.unstable < BootsToStayUp THEN g.unstable + 1 ELSE g.unstable)
      BY SettledFacts DEF Types
    <3>. QED BY <2>1, <3>3, <3>4, <3>5, HeadlessAssumption
  <2>2. CASE ~g.armed
    BY <1>a, <2>2, SettledFacts, FieldTypes DEF Types
  <2>. QED BY <2>1, <2>2
<1>c. /\ g.strikes \in Nat /\ g.strikes <= StrikesToSuppress
      /\ g.unstable \in Nat /\ g.unstable <= BootsToStayUp
  BY FieldTypes DEF Types
<1>. USE <1>a, <1>b, <1>c, HeadlessAssumption
<1>. HIDE DEF settlePrevious
<1>d. life = "loaded" /\ life' = "settled"
      /\ UNCHANGED <<suppressed, remember, exit, override, boot, conn, timers, returned, ghosts>>
  BY DEF settlePrevious
<1>. USE <1>d
<1>1. Types'
  BY DEF Types, Lives, Maybe, Marks, Codes, NoStart
<1>2. Synced'
  BY DEF Synced, Unsaved, Paid, Types
<1>3. Idle'
  BY DEF Idle
<1>4. Written'
  BY DEF Written, ExitIsRecorded, ExitCode, Ended, Codes, Synced, Idle
<1>5. Counted'
  BY DEF Counted, KeepsArm, StayUp, Types, Idle
<1>6. Owner'
  BY DEF Owner, Trial
<1>7. Trial'
  BY DEF Trial, Idle, Owner, NoStart
<1>8. FirstCrash'
  BY DEF FirstCrash, Trial, Idle
<1>9. Paid'
  BY DEF Paid, Trial, Idle, Owner, FirstCrash, Types
<1>10. Kept'
  BY DEF Kept, KeepsArm, ExitCode, Idle
<1>11. Owed'
  BY DEF Owed, Trial, Idle, Types
<1>. QED BY <1>1, <1>2, <1>3, <1>4, <1>5, <1>6, <1>7, <1>8, <1>9, <1>10, <1>11 DEF IInv

\* The process begins to serve.
LEMMA ExecRunsKeeps == ASSUME IInv, ExecRuns PROVE IInv'
<1>. USE DEF IInv, ExecRuns, durable, boot, conn, timers, ghosts
<1>1. Types'
  BY DEF Types, Lives, Maybe, Marks, Codes, NoStart
<1>2. Synced'
  BY DEF Synced, Unsaved, Paid, Types
<1>3. Idle'
  BY DEF Idle
<1>4. Written'
  BY DEF Written, ExitIsRecorded, ExitCode, Ended, Codes, Synced, Idle
<1>5. Counted'
  BY DEF Counted, KeepsArm, StayUp, Types, Idle
<1>6. Owner'
  BY DEF Owner, Trial
<1>7. Trial'
  BY DEF Trial, Idle, Owner, NoStart
<1>8. FirstCrash'
  BY DEF FirstCrash, Trial, Idle
<1>9. Paid'
  BY DEF Paid, Trial, Idle, Owner, FirstCrash, Types
<1>10. Kept'
  BY DEF Kept, KeepsArm, ExitCode, Idle
<1>11. Owed'
  BY DEF Owed, Trial, Idle, Types
<1>. QED BY <1>1, <1>2, <1>3, <1>4, <1>5, <1>6, <1>7, <1>8, <1>9, <1>10, <1>11 DEF IInv

\* A core that connects.
LEMMA CoreConnectsKeeps == ASSUME IInv, CoreConnects PROVE IInv'
<1>. USE DEF IInv, CoreConnects, Serving, durable, boot, conn, timers, ghosts
<1>1. Types'
  BY DEF Types, Lives, Maybe, Marks, Codes, NoStart
<1>2. Synced'
  BY DEF Synced, Unsaved, Paid, Types
<1>3. Idle'
  BY DEF Idle
<1>4. Written'
  BY DEF Written, ExitIsRecorded, ExitCode, Ended, Codes, Synced, Idle
<1>5. Counted'
  BY DEF Counted, KeepsArm, StayUp, Types, Idle
<1>6. Owner'
  BY DEF Owner, Trial
<1>7. Trial'
  BY DEF Trial, Idle, Owner, NoStart
<1>8. FirstCrash'
  BY DEF FirstCrash, Trial, Idle
<1>9. Paid'
  BY DEF Paid, Trial, Idle, Owner, FirstCrash, Types
<1>10. Kept'
  BY DEF Kept, KeepsArm, ExitCode, Idle
<1>11. Owed'
  BY DEF Owed, Trial, Idle, Types
<1>. QED BY <1>1, <1>2, <1>3, <1>4, <1>5, <1>6, <1>7, <1>8, <1>9, <1>10, <1>11 DEF IInv

\* A cancelled resume keeps the boot profile and the record.
LEMMA CancelResumeKeeps == ASSUME IInv, CancelResume PROVE IInv'
<1>. USE DEF IInv, CancelResume, Serving, durable, boot, conn, timers, ghosts
<1>1. Types'
  BY DEF Types, Lives, Maybe, Marks, Codes, NoStart
<1>2. Synced'
  BY DEF Synced, Unsaved, Paid, Types
<1>3. Idle'
  BY DEF Idle
<1>4. Written'
  BY DEF Written, ExitIsRecorded, ExitCode, Ended, Codes, Synced, Idle
<1>5. Counted'
  BY DEF Counted, KeepsArm, StayUp, Types, Idle
<1>6. Owner'
  BY DEF Owner, Trial
<1>7. Trial'
  BY DEF Trial, Idle, Owner, NoStart
<1>8. FirstCrash'
  BY DEF FirstCrash, Trial, Idle
<1>9. Paid'
  BY DEF Paid, Trial, Idle, Owner, FirstCrash, Types
<1>10. Kept'
  BY DEF Kept, KeepsArm, ExitCode, Idle
<1>11. Owed'
  BY DEF Owed, Trial, Idle, Types
<1>. QED BY <1>1, <1>2, <1>3, <1>4, <1>5, <1>6, <1>7, <1>8, <1>9, <1>10, <1>11 DEF IInv

\* A stop ends the trial of the run it stops.
LEMMA StopRunKeeps == ASSUME IInv, StopRun PROVE IInv'
<1>. USE DEF IInv, StopRun, Serving, durable, boot, conn, timers, ghosts
<1>1. Types'
  BY DEF Types, Lives, Maybe, Marks, Codes, NoStart
<1>2. Synced'
  BY DEF Synced, Unsaved, Paid, Types
<1>3. Idle'
  BY DEF Idle
<1>4. Written'
  BY DEF Written, ExitIsRecorded, ExitCode, Ended, Codes, Synced, Idle
<1>5. Counted'
  BY DEF Counted, KeepsArm, StayUp, Types, Idle
<1>6. Owner'
  BY DEF Owner, Trial
<1>7. Trial'
  BY DEF Trial, Idle, Owner, NoStart
<1>8. FirstCrash'
  BY DEF FirstCrash, Trial, Idle
<1>9. Paid'
  BY DEF Paid, Trial, Idle, Owner, FirstCrash, Types
<1>10. Kept'
  BY DEF Kept, KeepsArm, ExitCode, Idle
<1>11. Owed'
  BY DEF Owed, Trial, Idle, Types
<1>. QED BY <1>1, <1>2, <1>3, <1>4, <1>5, <1>6, <1>7, <1>8, <1>9, <1>10, <1>11 DEF IInv

\* Only a boot start that was never dispatched waits again.
LEMMA CoreRetryKeeps == ASSUME IInv, CoreRetry PROVE IInv'
<1>. USE DEF IInv, CoreRetry, Serving, Terminating, durable, boot, conn, timers, ghosts
<1>1. Types'
  BY DEF Types, Lives, Maybe, Marks, Codes, NoStart
<1>2. Synced'
  BY DEF Synced, Unsaved, Paid, Types
<1>3. Idle'
  BY DEF Idle
<1>4. Written'
  BY DEF Written, ExitIsRecorded, ExitCode, Ended, Codes, Synced, Idle
<1>5. Counted'
  BY DEF Counted, KeepsArm, StayUp, Types, Idle
<1>6. Owner'
  BY DEF Owner, Trial
<1>7. Trial'
  BY DEF Trial, Idle, Owner, NoStart
<1>8. FirstCrash'
  BY DEF FirstCrash, Trial, Idle
<1>9. Paid'
  BY DEF Paid, Trial, Idle, Owner, FirstCrash, Types
<1>10. Kept'
  BY DEF Kept, KeepsArm, ExitCode, Idle
<1>11. Owed'
  BY DEF Owed, Trial, Idle, Types
<1>. QED BY <1>1, <1>2, <1>3, <1>4, <1>5, <1>6, <1>7, <1>8, <1>9, <1>10, <1>11 DEF IInv

\* The teardown's stop of the run.
LEMMA TeardownStopsKeeps == ASSUME IInv, TeardownStops PROVE IInv'
<1>. USE DEF IInv, TeardownStops, durable, boot, conn, timers, ghosts
<1>1. Types'
  BY DEF Types, Lives, Maybe, Marks, Codes, NoStart
<1>2. Synced'
  BY DEF Synced, Unsaved, Paid, Types
<1>3. Idle'
  BY DEF Idle
<1>4. Written'
  BY DEF Written, ExitIsRecorded, ExitCode, Ended, Codes, Synced, Idle
<1>5. Counted'
  BY DEF Counted, KeepsArm, StayUp, Types, Idle
<1>6. Owner'
  BY DEF Owner, Trial
<1>7. Trial'
  BY DEF Trial, Idle, Owner, NoStart
<1>8. FirstCrash'
  BY DEF FirstCrash, Trial, Idle
<1>9. Paid'
  BY DEF Paid, Trial, Idle, Owner, FirstCrash, Types
<1>10. Kept'
  BY DEF Kept, KeepsArm, ExitCode, Idle
<1>11. Owed'
  BY DEF Owed, Trial, Idle, Types
<1>. QED BY <1>1, <1>2, <1>3, <1>4, <1>5, <1>6, <1>7, <1>8, <1>9, <1>10, <1>11 DEF IInv

\* The end of the teardown.
LEMMA TeardownDoneKeeps == ASSUME IInv, TeardownDone PROVE IInv'
<1>. USE DEF IInv, TeardownDone, Silent, durable, boot, conn, timers, ghosts
<1>1. Types'
  BY DEF Types, Lives, Maybe, Marks, Codes, NoStart
<1>2. Synced'
  BY DEF Synced, Unsaved, Paid, Types
<1>3. Idle'
  BY DEF Idle
<1>4. Written'
  BY DEF Written, ExitIsRecorded, ExitCode, Ended, Codes, Synced, Idle
<1>5. Counted'
  BY DEF Counted, KeepsArm, StayUp, Types, Idle
<1>6. Owner'
  BY DEF Owner, Trial
<1>7. Trial'
  BY DEF Trial, Idle, Owner, NoStart
<1>8. FirstCrash'
  BY DEF FirstCrash, Trial, Idle
<1>9. Paid'
  BY DEF Paid, Trial, Idle, Owner, FirstCrash, Types
<1>10. Kept'
  BY DEF Kept, KeepsArm, ExitCode, Idle
<1>11. Owed'
  BY DEF Owed, Trial, Idle, Types
<1>. QED BY <1>1, <1>2, <1>3, <1>4, <1>5, <1>6, <1>7, <1>8, <1>9, <1>10, <1>11 DEF IInv

\* Either the record and its row stay, or both begin anew with the candidate; a boot that
\* is suppressed has no boot profile.
LEMMA DecideKeeps == ASSUME IInv, decide PROVE IInv'
<1>. USE DEF IInv, durable, boot, conn, timers, ghosts
<1>t. /\ g.strikes \in Nat /\ g.strikes <= StrikesToSuppress
      /\ g.unstable \in Nat /\ g.unstable <= BootsToStayUp
  BY FieldTypes DEF Types
<1>. USE <1>t, HeadlessAssumption

<1>a. PICK c \in {remember, NoProfile} :
        LET resume == c # NoProfile /\ MayResume(c)
            other  == c # NoProfile /\ c # g.profile
        IN  /\ suppressed' = (c # NoProfile /\ ~resume)
            /\ IF other THEN NewRecord(c) ELSE UNCHANGED <<g, disk>>
            /\ IF c \in {NoProfile, row} THEN UNCHANGED <<row, harm, blame>>
                                         ELSE row' = c /\ harm' = 0 /\ blame' = 0
            /\ bootId' = IF resume THEN c ELSE NoProfile
            /\ phase' = IF resume THEN "waiting" ELSE "done"
            /\ request' = resume
            /\ want' = bootId'
  BY DEF decide
<1>b. /\ life = "settled" /\ life' = "starting"
      /\ UNCHANGED <<crashed, remember, exit, override, retryId, core, start, run, started, timers, returned,
                     counted, giveUps>>
  BY DEF decide
<1>c. /\ g' \in Records /\ disk' \in Records
      /\ g'.open = g.open /\ g'.unstable = g.unstable /\ g'.exit = g.exit /\ ~g'.armed
      /\ disk'.open = g.open /\ disk'.unstable = g.unstable /\ disk'.exit = g.exit
  <2>1. CASE c # NoProfile /\ c # g.profile
    <3>1. c \in Profiles
      BY <2>1, <1>a DEF Types, Maybe
    <3>2. NewRecord(c)
      BY <2>1, <1>a
    <3>3. /\ g' \in Records /\ g'.open = g.open /\ g'.unstable = g.unstable /\ g'.exit = g.exit /\ ~g'.armed
      BY <3>1, <3>2, NewRecordFacts DEF NewRecord, Types
    <3>4. disk' = g' \/ disk' = disk
      BY <3>2 DEF NewRecord
    <3>. QED BY <3>3, <3>4 DEF Types, Synced
  <2>2. CASE ~(c # NoProfile /\ c # g.profile)
    BY <2>2, <1>a, <1>b DEF Types, Synced, Idle
  <2>. QED BY <2>1, <2>2
<1>d. /\ row' \in Maybe(Profiles) /\ bootId' \in Maybe(Profiles) /\ want' \in Maybe(Profiles)
      /\ harm' \in Nat /\ blame' \in Nat /\ harm' <= g'.strikes /\ g'.strikes <= blame'
      /\ g'.profile \in {row', NoProfile}
      /\ g'.profile = NoProfile => g'.strikes = 0 /\ harm' = 0
      /\ bootId' # NoProfile => bootId' = row' /\ bootId' = g'.profile /\ g'.strikes < StrikesToSuppress
      /\ phase' \in {"waiting", "done"} /\ (phase' = "waiting" => bootId' # NoProfile)
      /\ g' = disk' \/ Unsaved'
  <2>1. CASE c # NoProfile /\ c # g.profile
    <3>1. c \in Profiles
      BY <2>1, <1>a DEF Types, Maybe
    <3>2. NewRecord(c)
      BY <2>1, <1>a
    <3>3. g'.profile = c /\ g'.strikes = 0
      BY <3>1, <3>2, NewRecordFacts DEF NewRecord, Types
    <3>4. g.profile = NoProfile => disk' = disk /\ disk = g /\ harm = 0 /\ g.strikes = 0 /\ ~g.armed
      BY <3>2, <1>b DEF NewRecord, Synced, Owner
    <3>5. g.profile # NoProfile => disk' = g' /\ g.profile = row
      BY <3>2 DEF NewRecord, Owner
    <3>6. bootId' = c /\ phase' = "waiting" /\ row' = c /\ want' = c
      BY <2>1, <1>a DEF MayResume
    <3>7. harm' = 0 /\ blame' \in Nat
      BY <1>a, <2>1, <3>4, <3>5 DEF Types
    <3>8. g' = disk' \/ Unsaved'
      BY <1>c, <3>3, <3>4, <3>5, <3>7 DEF Unsaved
    <3>. QED BY <2>1, <3>1, <3>3, <3>6, <3>7, <3>8 DEF Maybe
  <2>2. CASE ~(c # NoProfile /\ c # g.profile)
    <3>1. g' = g /\ disk' = disk /\ row' = row /\ harm' = harm /\ blame' = blame
      BY <2>2, <1>a DEF Owner
    <3>2. /\ bootId' \in {c, NoProfile} /\ want' = bootId' /\ phase' \in {"waiting", "done"}
          /\ (phase' = "waiting" => bootId' # NoProfile)
          /\ (bootId' # NoProfile => c # NoProfile /\ MayResume(c))
      BY <1>a
    <3>3. bootId' # NoProfile => bootId' = g.profile /\ g.strikes < StrikesToSuppress /\ g.profile = row
      BY <2>2, <3>2 DEF MayResume, Owner
    <3>. QED BY <1>b, <3>1, <3>2, <3>3 DEF Owner, Synced, Paid, Owed, Types, Maybe
  <2>. QED BY <2>1, <2>2
<1>. USE <1>b, <1>c, <1>d
<1>1. Types'
  BY DEF Types, Lives, Maybe, Marks, Codes, NoStart
<1>2. Synced'
  BY DEF Synced, Unsaved, Paid, Types
<1>3. Idle'
  BY DEF Idle
<1>4. Written'
  BY DEF Written, ExitIsRecorded, ExitCode, Ended, Codes, Synced, Idle
<1>5. Counted'
  BY DEF Counted, KeepsArm, StayUp, Types, Idle
<1>6. Owner'
  BY DEF Owner, Trial
<1>7. Trial'
  BY DEF Trial, Idle, Owner, NoStart
<1>8. FirstCrash'
  BY DEF FirstCrash, Trial, Idle
<1>9. Paid'
  BY DEF Paid, Trial, Idle, Owner, FirstCrash, Types
<1>10. Kept'
  BY DEF Kept, KeepsArm, ExitCode, Idle
<1>11. Owed'
  BY DEF Owed, Trial, Idle, Types
<1>. QED BY <1>1, <1>2, <1>3, <1>4, <1>5, <1>6, <1>7, <1>8, <1>9, <1>10, <1>11 DEF IInv

\* The one step that arms: the boot start is the one that waited, so nothing is blamed yet.
LEMMA CoreStartedKeeps == ASSUME IInv, CoreStarted PROVE IInv'
<1>. USE DEF IInv, durable, boot, conn, timers, ghosts
<1>t. /\ g.strikes \in Nat /\ g.strikes <= StrikesToSuppress
      /\ g.unstable \in Nat /\ g.unstable <= BootsToStayUp
  BY FieldTypes DEF Types
<1>. USE <1>t, HeadlessAssumption

<1>a. /\ life = "exec" /\ core = "up" /\ start = NoStart
      /\ want' = NoProfile /\ ~request'
      /\ UNCHANGED <<crashed, remember, suppressed, life, exit, override, bootId, core, run, started, stable,
                     retrying, bootTimer, returned, harm, blame, giveUps, row>>
  BY DEF CoreStarted, Serving
<1>b. \/ /\ request /\ want = bootId /\ phase = "waiting" /\ phase' = "armed"
         /\ counted' = counted \cup {"dispatched"}
         /\ start'.profile = want /\ retryId' = NoProfile /\ runTimer' = NoProfile
         /\ g' = Arm(g, want) /\ disk' = g'
      \/ /\ g' = g /\ disk' = disk /\ counted' = counted /\ phase' \in {phase, "done"}
         /\ \/ start' = start
            \/ start'.profile = want /\ start'.boot = request
         /\ phase = "armed" => phase' = phase \/ request
         /\ retryId' \in {retryId, NoProfile} /\ runTimer' \in {runTimer, NoProfile}
  <2>1. CASE want # NoProfile /\ Dispatch(want, request) /\ request /\ Arms(want)
    BY <2>1 DEF Dispatch, Arms, Save
  <2>2. CASE want # NoProfile /\ Dispatch(want, request) /\ ~(request /\ Arms(want))
    BY <2>2 DEF Dispatch
  <2>3. CASE request /\ phase' = (IF Terminating THEN phase ELSE "done")
             /\ UNCHANGED <<start, retryId, runTimer, counted, g, disk>>
    BY <2>3
  <2>. QED BY <2>1, <2>2, <2>3 DEF CoreStarted
<1>c. /\ g' \in Records /\ disk' \in Records /\ g'.profile = g.profile /\ g'.strikes = g.strikes
      /\ g'.open = g.open /\ g'.unstable = g.unstable /\ g'.exit = g.exit
      /\ disk'.open = g.open /\ disk'.unstable = g.unstable /\ disk'.exit = g.exit
      /\ phase = "waiting" /\ phase' = "armed" => disk' = g' /\ g'.armed
      /\ ~(phase = "waiting" /\ phase' = "armed") => g' = g /\ disk' = disk
  <2>. HIDE <1>t
  <2>1. CASE phase = "waiting" /\ phase' = "armed" /\ g' = Arm(g, want) /\ disk' = g' /\ want = bootId
    <3>1. want \in Profiles /\ want = g.profile
      BY <2>1 DEF Trial, Owner, Types, Maybe
    <3>2. g \in Records
      BY DEF Types
    <3>3. /\ Arm(g, want) \in Records /\ Arm(g, want).armed /\ Arm(g, want).profile = g.profile
          /\ Arm(g, want).strikes = g.strikes /\ Arm(g, want).open = g.open
          /\ Arm(g, want).unstable = g.unstable /\ Arm(g, want).exit = g.exit
      BY <3>1, <3>2, ArmFacts
    <3>. QED BY <2>1, <3>3
  <2>2. CASE g' = g /\ disk' = disk /\ phase' \in {phase, "done"}
    BY <2>2 DEF Types, Synced
  <2>. QED BY <1>b, <2>1, <2>2
<1>. USE <1>a, <1>b, <1>c
<1>1. Types'
  BY DEF Types, Lives, Maybe, Marks
<1>2. Synced'
  BY DEF Synced, Unsaved, Paid, Types
<1>3. Idle'
  BY DEF Idle
<1>4. Written'
  BY DEF Written, ExitIsRecorded, ExitCode, Ended, Codes, Synced, Idle
<1>5. Counted'
  BY DEF Counted, KeepsArm, StayUp, Types, Idle
<1>6. Owner'
  BY DEF Owner, Trial
<1>7. Trial'
  BY DEF Trial, Idle, Owner, NoStart
<1>8. FirstCrash'
  BY DEF FirstCrash, Trial, Idle
<1>9. Paid'
  <2>1. CASE phase = "waiting" /\ phase' = "armed" /\ g'.armed
    BY <2>1 DEF Paid, Types
  <2>2. CASE g' = g /\ counted' = counted /\ phase' \in {phase, "done"} /\ retryId' \in {retryId, NoProfile}
    BY <2>2 DEF Paid, Types
  <2>. QED BY <2>1, <2>2, <1>b, <1>c
<1>10. Kept'
  BY DEF Kept, KeepsArm, ExitCode, Idle
<1>11. Owed'
  BY DEF Owed, Trial, Idle, Types
<1>. QED BY <1>1, <1>2, <1>3, <1>4, <1>5, <1>6, <1>7, <1>8, <1>9, <1>10, <1>11 DEF IInv

\* A start over the API never arms.
LEMMA ApiStartKeeps == ASSUME IInv, NEW p \in Profiles, ApiStart(p) PROVE IInv'
<1>. USE DEF IInv, durable, boot, conn, timers, ghosts
<1>t. /\ g.strikes \in Nat /\ g.strikes <= StrikesToSuppress
      /\ g.unstable \in Nat /\ g.unstable <= BootsToStayUp
  BY FieldTypes DEF Types
<1>. USE <1>t, HeadlessAssumption

<1>a. /\ life = "exec" /\ start = NoStart
      /\ UNCHANGED <<remember, suppressed, life, exit, override, bootId, run, started, crashed, stable,
                     retrying, bootTimer, returned, harm, blame, giveUps, row>>
      /\ g' = g /\ disk' = disk /\ counted' = counted
      /\ \/ /\ core = "up" /\ core' = core /\ want' = want /\ request' = request /\ phase' = phase
            /\ start'.profile = p /\ start'.boot = FALSE /\ retryId' = NoProfile /\ runTimer' = NoProfile
         \/ /\ want' = p /\ ~request' /\ core' \in {core, "down"} /\ (core = "up" => core' = "up")
            /\ phase' \in {phase, "done"} /\ (phase' = phase \/ request)
            /\ UNCHANGED <<start, retryId, runTimer>>
  BY DEF ApiStart, Dispatch, Serving
<1>. USE <1>a
<1>. HIDE DEF ApiStart
<1>1. Types'
  BY DEF Types, Lives, Maybe, Marks, Codes, NoStart
<1>2. Synced'
  BY DEF Synced, Unsaved, Paid, Types
<1>3. Idle'
  BY DEF Idle
<1>4. Written'
  BY DEF Written, ExitIsRecorded, ExitCode, Ended, Codes, Synced, Idle
<1>5. Counted'
  BY DEF Counted, KeepsArm, StayUp, Types, Idle
<1>6. Owner'
  BY DEF Owner, Trial
<1>7. Trial'
  BY DEF Trial, Idle, Owner, NoStart
<1>8. FirstCrash'
  BY DEF FirstCrash, Trial, Idle
<1>9. Paid'
  BY DEF Paid, Trial, Idle, Owner, FirstCrash, Types
<1>10. Kept'
  BY DEF Kept, KeepsArm, ExitCode, Idle
<1>11. Owed'
  BY DEF Owed, Trial, Idle, Types
<1>. QED BY <1>1, <1>2, <1>3, <1>4, <1>5, <1>6, <1>7, <1>8, <1>9, <1>10, <1>11 DEF IInv

\* The boot start that succeeds gets its survival check, unless the program is ending.
LEMMA StartedKeeps == ASSUME IInv, Started PROVE IInv'
<1>. USE DEF IInv, durable, boot, conn, timers, ghosts
<1>t. /\ g.strikes \in Nat /\ g.strikes <= StrikesToSuppress
      /\ g.unstable \in Nat /\ g.unstable <= BootsToStayUp
  BY FieldTypes DEF Types
<1>. USE <1>t, HeadlessAssumption

<1>a. /\ Alive /\ core = "up" /\ run = NoProfile
      /\ run' = start.profile /\ started' = start.profile /\ runTimer' = start.profile
      /\ remember' \in {remember, start.profile} /\ start' = NoStart /\ retryId' = NoProfile
      /\ bootTimer' \in {bootTimer, start.profile} /\ phase' \in {phase, "done"}
      /\ UNCHANGED <<crashed, disk, g, life, exit, override, bootId, request, core, want, stable, retrying,
                     returned, ghosts>>
  BY DEF Started
<1>b. \/ /\ start.boot /\ phase = "armed" /\ exit = "none" /\ life = "exec"
         /\ bootTimer' = start.profile /\ phase' = "done"
      \/ /\ bootTimer' = bootTimer /\ (phase' = phase \/ phase # "armed")
  BY DEF Started, Terminating
<1>. USE <1>a, <1>b
<1>1. Types'
  BY DEF Types, Lives, Maybe, Marks, Codes, NoStart
<1>2. Synced'
  BY DEF Synced, Unsaved, Paid, Types
<1>3. Idle'
  BY DEF Idle
<1>4. Written'
  BY DEF Written, ExitIsRecorded, ExitCode, Ended, Codes, Synced, Idle
<1>5. Counted'
  BY DEF Counted, KeepsArm, StayUp, Types, Idle
<1>6. Owner'
  BY DEF Owner, Trial
<1>7. Trial'
  BY DEF Trial, Idle, Owner, NoStart
<1>8. FirstCrash'
  BY DEF FirstCrash, Trial, Idle
<1>9. Paid'
  BY DEF Paid, Trial, Idle, Owner, FirstCrash, Types
<1>10. Kept'
  BY DEF Kept, KeepsArm, ExitCode, Idle
<1>11. Owed'
  BY DEF Owed, Trial, Idle, Types
<1>. QED BY <1>1, <1>2, <1>3, <1>4, <1>5, <1>6, <1>7, <1>8, <1>9, <1>10, <1>11 DEF IInv

\* A failed boot start strikes only without a core, and then blame has been counted.
LEMMA StartFailedKeeps == ASSUME IInv, StartFailed PROVE IInv'
<1>. USE DEF IInv, durable, boot, conn, timers, ghosts
<1>t. /\ g.strikes \in Nat /\ g.strikes <= StrikesToSuppress
      /\ g.unstable \in Nat /\ g.unstable <= BootsToStayUp
  BY FieldTypes DEF Types
<1>. USE <1>t, HeadlessAssumption

<1>a. /\ Alive /\ start' = NoStart
      /\ UNCHANGED <<crashed, remember, suppressed, life, exit, override, bootId, retryId, request, core, want,
                     run, started, timers, returned, giveUps, row>>
  BY DEF StartFailed
<1>b. \/ /\ phase = "armed" /\ phase' = "done" /\ g.armed /\ life = "exec" /\ exit = "none" /\ disk' = g'
         /\ g' = (IF core # "up" THEN Strike(g) ELSE Disarm(g))
      \/ g' = g /\ disk' = disk /\ phase' = phase /\ UNCHANGED <<harm, blame, counted>>
      \/ g' = g /\ disk' = disk /\ phase' = "done" /\ (phase # "armed" \/ ~g.armed)
  BY DEF StartFailed, Terminating, Save
<1>d. \/ UNCHANGED <<harm, blame, counted>>
      \/ core # "up" /\ life = "exec" /\ start # NoStart /\ phase' = "done" /\ Hurt(OnTrial)
  BY DEF StartFailed, Terminating
<1>e. /\ blame' = blame /\ counted' \in SUBSET Marks /\ counted \subseteq counted'
      /\ "dispatched" \in counted' => "dispatched" \in counted
      /\ "blame" \in counted' => "blame" \in counted
      /\ harm' \in Nat
      /\ \/ harm' = harm
         \/ /\ harm' <= harm + 1 /\ core # "up" /\ life = "exec"
            /\ phase = "armed" /\ phase' = "done" /\ "over" \notin counted
  <2>1. CASE UNCHANGED <<harm, blame, counted>>
    BY <2>1 DEF Types
  <2>2. CASE core # "up" /\ life = "exec" /\ start # NoStart /\ phase' = "done" /\ Hurt(OnTrial)
    <3>1. OnTrial \in BOOLEAN /\ (OnTrial => phase = "armed" /\ "over" \notin counted)
      BY <2>2 DEF OnTrial
    <3>2. Dispatched => "blame" \in counted
      BY <2>2 DEF Dispatched, Trial, Owed
    <3>3. blame' = blame /\ ("blame" \in counted' => "blame" \in counted)
      BY <2>2, <3>2 DEF Hurt, Harm
    <3>. QED BY <2>2, <3>1, <3>3, HurtFacts
  <2>. QED BY <1>d, <2>1, <2>2
<1>c. /\ g' \in Records /\ disk' \in Records /\ g'.profile = g.profile
      /\ g'.open = g.open /\ g'.unstable = g.unstable /\ g'.exit = g.exit
      /\ disk'.open = g.open /\ disk'.unstable = g.unstable /\ disk'.exit = g.exit
      /\ \/ /\ phase = "armed" /\ phase' = "done" /\ disk' = g' /\ g.armed /\ ~g'.armed
            /\ \/ core = "up" /\ g'.strikes = g.strikes
               \/ core # "up" /\ life = "exec" /\ g'.strikes = g.strikes + 1
         \/ g' = g /\ disk' = disk /\ (phase' = phase \/ phase # "armed" \/ ~g.armed)
  <2>1. CASE g' = g /\ disk' = disk /\ (phase' = phase \/ phase # "armed" \/ ~g.armed)
    BY <2>1 DEF Types, Synced
  <2>2. CASE core # "up" /\ g.armed /\ g' = Strike(g) /\ disk' = g'
             /\ phase = "armed" /\ phase' = "done" /\ life = "exec"
    <3>1. g.strikes < StrikesToSuppress
      BY <2>2 DEF Paid
    <3>2. g \in Records
      BY DEF Types
    <3>3. g'.strikes = g.strikes + 1
      BY <2>2, <3>1, <3>2, StrikeFacts
    <3>. QED BY <2>2, <3>2, <3>3, StrikeFacts
  <2>3. CASE core = "up" /\ g.armed /\ g' = Disarm(g) /\ disk' = g'
             /\ phase = "armed" /\ phase' = "done" /\ life = "exec"
    BY <2>3, DisarmFacts DEF Types
  <2>. QED BY <1>b, <2>1, <2>2, <2>3
<1>. USE <1>a, <1>b, <1>c, <1>e
<1>1. Types'
  BY DEF Types, Lives, Maybe, Marks, Codes, NoStart
<1>2. Synced'
  BY DEF Synced, Unsaved, Paid, Types
<1>3. Idle'
  BY DEF Idle
<1>4. Written'
  BY DEF Written, ExitIsRecorded, ExitCode, Ended, Codes, Synced, Idle
<1>5. Counted'
  BY DEF Counted, KeepsArm, StayUp, Types, Idle
<1>6. Owner'
  BY DEF Owner, Trial
<1>7. Trial'
  BY DEF Trial, Idle, Owner, NoStart
<1>8. FirstCrash'
  BY DEF FirstCrash, Trial, Idle
<1>9. Paid'
  <2>1. CASE harm' = harm
    BY <2>1 DEF Paid, Trial, Idle, Owner, FirstCrash, Types
  <2>2. CASE /\ harm' <= harm + 1 /\ core # "up" /\ life = "exec"
             /\ phase = "armed" /\ phase' = "done" /\ "over" \notin counted
    <3>1. bootTimer = NoProfile /\ retryId = NoProfile /\ g'.strikes \in Nat
      BY <2>2, FieldTypes DEF Trial
    <3>2. \/ g.armed /\ ~g'.armed /\ g'.strikes = g.strikes + 1
          \/ ~g.armed /\ g' = g
      BY <2>2, <1>c
    <3>3. /\ harm <= g.strikes /\ (g.armed \/ harm < g.strikes) /\ harm \in Nat
          /\ (g.armed => g.strikes < StrikesToSuppress)
      BY <2>2 DEF Paid, Types
    <3>4. harm' <= g'.strikes /\ (g'.armed => g'.strikes < StrikesToSuppress)
      BY <2>2, <1>e, <3>1, <3>2, <3>3
    <3>. QED BY <2>2, <3>1, <3>4 DEF Paid
  <2>. QED BY <1>e, <2>1, <2>2
<1>10. Kept'
  BY DEF Kept, KeepsArm, ExitCode, Idle
<1>11. Owed'
  BY DEF Owed, Trial, Idle, Types
<1>. QED BY <1>1, <1>2, <1>3, <1>4, <1>5, <1>6, <1>7, <1>8, <1>9, <1>10, <1>11 DEF IInv

\* The death of the core counts what this life dispatched.
LEMMA CoreDiesKeeps == ASSUME IInv, CoreDies PROVE IInv'
<1>. USE DEF IInv, durable, boot, conn, timers, ghosts
<1>t. /\ g.strikes \in Nat /\ g.strikes <= StrikesToSuppress
      /\ g.unstable \in Nat /\ g.unstable <= BootsToStayUp
  BY FieldTypes DEF Types
<1>. USE <1>t, HeadlessAssumption

<1>a. /\ Alive /\ core' \in {"failed", "dead"}
      /\ (request => core' = "failed")
      /\ UNCHANGED <<crashed, durable, g, suppressed, life, exit, override, boot, want, start, run, started,
                     timers, returned, giveUps, row>>
  BY DEF CoreDies
<1>b. /\ harm' = harm /\ blame' \in Nat /\ counted' \in SUBSET Marks /\ counted \subseteq counted'
      /\ "dispatched" \in counted' => "dispatched" \in counted
      /\ "over" \in counted' => "over" \in counted
      /\ "blame" \in counted' => "dispatched" \in counted'
      /\ g.strikes <= blame'
      /\ core = "up" /\ bootId # NoProfile /\ "dispatched" \in counted => "blame" \in counted'
      /\ g.armed /\ (life # "exec" \/ "blame" \in counted') => g.strikes < blame'
  <2>1. CASE core = "up" /\ Hurt(FALSE)
    <3>1. Dispatched \/ blame' = blame
      BY <2>1 DEF Hurt, Harm
    <3>2. Dispatched => bootId # NoProfile /\ "dispatched" \in counted
      BY DEF Dispatched, Trial
    <3>. QED BY <2>1, <3>1, <3>2, HurtFacts DEF Owed
  <2>2. CASE core # "up" /\ UNCHANGED <<harm, blame, counted>>
    BY <2>2 DEF Types, Owed, Trial
  <2>. QED BY <2>1, <2>2 DEF CoreDies
<1>. USE <1>a, <1>b
<1>1. Types'
  BY DEF Types, Lives, Maybe, Marks, Codes, NoStart
<1>2. Synced'
  BY DEF Synced, Unsaved, Paid, Types
<1>3. Idle'
  BY DEF Idle
<1>4. Written'
  BY DEF Written, ExitIsRecorded, ExitCode, Ended, Codes, Synced, Idle
<1>5. Counted'
  BY DEF Counted, KeepsArm, StayUp, Types, Idle
<1>6. Owner'
  BY DEF Owner, Trial
<1>7. Trial'
  BY DEF Trial, Idle, Owner, NoStart
<1>8. FirstCrash'
  BY DEF FirstCrash, Trial, Idle
<1>9. Paid'
  BY DEF Paid, Trial, Idle, Owner, FirstCrash, Types
<1>10. Kept'
  BY DEF Kept, KeepsArm, ExitCode, Idle
<1>11. Owed'
  BY DEF Owed, Trial, Idle, Types
<1>. QED BY <1>1, <1>2, <1>3, <1>4, <1>5, <1>6, <1>7, <1>8, <1>9, <1>10, <1>11 DEF IInv

\* The step where strikes, harm and blame meet: an armed record on trial is struck because
\* no crash before it is in the window.
LEMMA CoreExitedKeeps == ASSUME IInv, NEW gaveUp \in BOOLEAN, NEW tooFrequent \in BOOLEAN, CoreExited(gaveUp, tooFrequent) PROVE IInv'
<1>. USE DEF IInv, durable, boot, conn, timers, ghosts
<1>t. /\ g.strikes \in Nat /\ g.strikes <= StrikesToSuppress
      /\ g.unstable \in Nat /\ g.unstable <= BootsToStayUp
  BY FieldTypes DEF Types
<1>. USE <1>t, HeadlessAssumption

<1>a. /\ life = "exec" /\ core \in {"dead", "failed"} /\ run' = NoProfile /\ runTimer' = NoProfile
      /\ Hurt(OnTrial)
      /\ tooFrequent => crashed
      /\ (core # "dead" => crashed' = crashed)
      /\ started' \in {started, NoProfile} /\ core' \in {"down", "gaveUp"}
      /\ UNCHANGED <<remember, suppressed, life, override, bootId, start, bootTimer, returned, giveUps, row>>
  BY DEF CoreExited, Serving
<1>b. \/ /\ g.armed /\ disk' = g'
         /\ g' = IF Blamed(IF tooFrequent THEN NoProfile ELSE started) THEN Strike(g) ELSE Disarm(g)
      \/ ~g.armed /\ g' = g /\ disk' = disk
  BY DEF CoreExited, Save
<1>c. \/ /\ UNCHANGED <<phase, retryId, request, exit>>
         /\ want' \in {started, NoProfile, want}
      \/ /\ want' = NoProfile /\ ~request' /\ phase' \in {phase, "done"}
         /\ retryId' = retryId \/ (retryId' = bootId /\ request /\ phase = "waiting")
         /\ exit' = exit \/ (exit' = "gaveUp" /\ exit = "none" /\ ~StayUp)
  BY <1>a DEF CoreExited
<1>d. OnTrial \in BOOLEAN
  BY DEF OnTrial
<1>e. /\ harm' \in Nat /\ harm' <= harm + 1 /\ (~OnTrial => harm' = harm)
      /\ blame' \in Nat /\ g.strikes <= blame'
      /\ counted' \in SUBSET Marks /\ counted \subseteq counted'
      /\ OnTrial => "over" \in counted'
      /\ "over" \in counted' => "over" \in counted \/ OnTrial
      /\ "dispatched" \in counted' => "dispatched" \in counted
      /\ "blame" \in counted' => "dispatched" \in counted'
      /\ bootId # NoProfile /\ "dispatched" \in counted => "blame" \in counted'
      /\ g.armed => g.strikes < blame'
  <2>1. g.armed => bootId # NoProfile /\ "dispatched" \in counted
    BY <1>a DEF Trial
  <2>. QED BY <1>a, <1>d, <2>1, HurtFacts
<1>f. g.armed /\ "over" \notin counted /\ (phase = "armed" \/ bootTimer # NoProfile)
        => Blamed(IF tooFrequent THEN NoProfile ELSE started)
  <2>1. g.armed => ~tooFrequent
    BY <1>a DEF FirstCrash
  <2>2. g.armed /\ "over" \notin counted /\ bootTimer # NoProfile => started = bootId /\ bootId # NoProfile
    BY <1>a DEF FirstCrash, Trial
  <2>. QED BY <2>1, <2>2 DEF Blamed
<1>g. /\ g' \in Records /\ disk' \in Records /\ g'.profile = g.profile /\ ~g'.armed
      /\ g'.open = g.open /\ g'.unstable = g.unstable /\ g'.exit = g.exit
      /\ disk'.open = g.open /\ disk'.unstable = g.unstable /\ disk'.exit = g.exit
      /\ g'.strikes \in Nat /\ (g'.strikes = g.strikes \/ (g.armed /\ g'.strikes = g.strikes + 1))
      /\ g.armed /\ Blamed(IF tooFrequent THEN NoProfile ELSE started) => g'.strikes = g.strikes + 1
      /\ disk' = g' \/ (g' = g /\ disk' = disk /\ ~g.armed)
  <2>0. g \in Records
    BY DEF Types
  <2>1. CASE g.armed /\ disk' = g' /\ Blamed(IF tooFrequent THEN NoProfile ELSE started) /\ g' = Strike(g)
    <3>1. g.strikes < StrikesToSuppress
      BY <2>1 DEF Paid
    <3>2. g'.strikes = g.strikes + 1
      BY <2>0, <2>1, <3>1, StrikeFacts
    <3>3. /\ g' \in Records /\ g'.profile = g.profile /\ g'.armed = FALSE
          /\ g'.open = g.open /\ g'.unstable = g.unstable /\ g'.exit = g.exit
      BY <2>0, <2>1, StrikeFacts
    <3>. QED BY <2>1, <3>2, <3>3
  <2>2. CASE g.armed /\ disk' = g' /\ ~Blamed(IF tooFrequent THEN NoProfile ELSE started) /\ g' = Disarm(g)
    BY <2>0, <2>2, DisarmFacts
  <2>3. CASE ~g.armed /\ g' = g /\ disk' = disk
    BY <2>0, <2>3 DEF Types, Synced
  <2>. QED BY <1>b, <2>1, <2>2, <2>3
<1>h. harm' <= g'.strikes
  <2>1. CASE OnTrial
    <3>1. "over" \notin counted /\ (phase = "armed" \/ bootTimer # NoProfile)
      BY <2>1 DEF OnTrial
    <3>2. g.armed \/ harm < g.strikes
      BY <1>a, <3>1 DEF Paid
    <3>. QED BY <1>a, <1>e, <1>f, <1>g, <3>1, <3>2 DEF Paid, Types
  <2>2. CASE ~OnTrial
    BY <1>a, <1>e, <1>g, <2>2 DEF Paid, Types
  <2>. QED BY <2>1, <2>2
<1>i. ("over" \notin counted' /\ (phase' = "armed" \/ bootTimer # NoProfile)) => harm' < g'.strikes
  <2>1. SUFFICES ASSUME "over" \notin counted', phase' = "armed" \/ bootTimer # NoProfile
                 PROVE  harm' < g'.strikes
    OBVIOUS
  <2>2. ~OnTrial /\ "over" \notin counted
    BY <1>e, <2>1
  <2>3. phase # "armed"
    BY <2>2 DEF OnTrial
  <2>4. bootTimer # NoProfile
    BY <1>c, <2>1, <2>3
  <2>5. g.armed \/ harm < g.strikes
    BY <1>a, <2>2, <2>4 DEF Paid
  <2>. QED BY <1>a, <1>e, <1>f, <1>g, <2>2, <2>4, <2>5 DEF Paid, Types
<1>j. g'.strikes <= blame'
  BY <1>e, <1>g
<1>. USE <1>a, <1>c, <1>e, <1>g, <1>h, <1>i, <1>j
<1>1. Types'
  BY DEF Types, Lives, Maybe, Marks, Codes, NoStart
<1>2. Synced'
  BY DEF Synced, Unsaved, Paid, Types
<1>3. Idle'
  BY DEF Idle
<1>4. Written'
  BY DEF Written, ExitIsRecorded, ExitCode, Ended, Codes, Synced, Idle
<1>5. Counted'
  BY DEF Counted, KeepsArm, StayUp, Types, Idle
<1>6. Owner'
  BY DEF Owner, Trial
<1>7. Trial'
  BY DEF Trial, Idle, Owner, NoStart
<1>8. FirstCrash'
  BY DEF FirstCrash, Trial, Idle
<1>9. Paid'
  BY DEF Paid, Trial, Idle, Owner, FirstCrash, Types
<1>10. Kept'
  BY DEF Kept, KeepsArm, ExitCode, Idle
<1>11. Owed'
  BY DEF Owed, Trial, Idle, Types
<1>. QED BY <1>1, <1>2, <1>3, <1>4, <1>5, <1>6, <1>7, <1>8, <1>9, <1>10, <1>11 DEF IInv

\* The watchdog gives up outside stay-up mode only, and after the survival check.
LEMMA WatchdogKeeps == ASSUME IInv, Watchdog PROVE IInv'
<1>. USE DEF IInv, durable, boot, conn, timers, ghosts
<1>t. /\ g.strikes \in Nat /\ g.strikes <= StrikesToSuppress
      /\ g.unstable \in Nat /\ g.unstable <= BootsToStayUp
  BY FieldTypes DEF Types
<1>. USE <1>t, HeadlessAssumption

<1>a. /\ life = "exec" /\ exit = "none" /\ bootTimer = NoProfile
      /\ UNCHANGED <<durable, g, suppressed, life, override, boot, start, retrying, bootTimer, returned,
                     giveUps, row>>
  BY DEF Watchdog, Serving, Terminating
<1>b. \/ /\ ~StayUp /\ exit' \in {"stuck", "gaveUp"}
         /\ UNCHANGED <<crashed, core, run, started, want, runTimer, harm, blame, counted>>
      \/ /\ core' = "down" /\ ~crashed' /\ run' = NoProfile /\ started' = NoProfile /\ want' = NoProfile
         /\ runTimer' = NoProfile /\ exit' = exit /\ Hurt(FALSE)
  BY DEF Watchdog
<1>c. /\ harm' = harm /\ blame' \in Nat /\ counted' \in SUBSET Marks /\ counted \subseteq counted'
      /\ "dispatched" \in counted' => "dispatched" \in counted
      /\ "over" \in counted' => "over" \in counted
      /\ "blame" \in counted' => "dispatched" \in counted'
      /\ g.strikes <= blame'
      /\ core' # "up" /\ bootId # NoProfile /\ "dispatched" \in counted => "blame" \in counted'
      /\ g.armed /\ "blame" \in counted' => g.strikes < blame'
  <2>1. CASE UNCHANGED <<core, harm, blame, counted>>
    BY <1>a, <2>1 DEF Types, Owed, Trial
  <2>2. CASE Hurt(FALSE)
    BY <2>2, HurtFacts
  <2>. QED BY <1>b, <2>1, <2>2
<1>d. \/ /\ ~StayUp /\ exit' \in {"stuck", "gaveUp"}
         /\ UNCHANGED <<crashed, core, run, started, want, runTimer>>
      \/ /\ core' = "down" /\ ~crashed' /\ run' = NoProfile /\ started' = NoProfile /\ want' = NoProfile
         /\ runTimer' = NoProfile /\ exit' = exit
  BY <1>b
<1>. USE <1>a, <1>c, <1>d
<1>1. Types'
  BY DEF Types, Lives, Maybe, Marks, Codes, NoStart
<1>2. Synced'
  BY DEF Synced, Unsaved, Paid, Types
<1>3. Idle'
  BY DEF Idle
<1>4. Written'
  BY DEF Written, ExitIsRecorded, ExitCode, Ended, Codes, Synced, Idle
<1>5. Counted'
  BY DEF Counted, KeepsArm, StayUp, Types, Idle
<1>6. Owner'
  BY DEF Owner, Trial
<1>7. Trial'
  BY DEF Trial, Idle, Owner, NoStart
<1>8. FirstCrash'
  BY DEF FirstCrash, Trial, Idle
<1>9. Paid'
  BY DEF Paid, Trial, Idle, Owner, FirstCrash, Types
<1>10. Kept'
  BY DEF Kept, KeepsArm, ExitCode, Idle
<1>11. Owed'
  BY DEF Owed, Trial, Idle, Types
<1>. QED BY <1>1, <1>2, <1>3, <1>4, <1>5, <1>6, <1>7, <1>8, <1>9, <1>10, <1>11 DEF IInv

(* The profile that passed its check loses its strikes and its row's history. *)
LEMMA NoteSurvivedFacts ==
    ASSUME IInv, NEW p \in Profiles, NoteSurvived(p)
    PROVE  /\ g' \in Records /\ disk' \in Records /\ g'.profile = g.profile
           /\ g'.open = g.open /\ g'.unstable = g.unstable /\ g'.exit = g.exit
           /\ disk'.open = g.open /\ disk'.unstable = g.unstable /\ disk'.exit = g.exit
           /\ g' = disk' \/ Unsaved'
           /\ g'.armed => g' = g /\ harm' = harm /\ blame' = blame
           /\ \/ g'.strikes = 0 /\ ~g'.armed /\ harm' = 0 /\ blame' = 0 /\ (bootId # NoProfile => p = bootId)
              \/ g' = g /\ harm' = harm /\ blame' = blame /\ (bootId # NoProfile => p # bootId)
           /\ counted' = IF p = bootId THEN counted \cup {"over"} ELSE counted
<1>. USE DEF IInv
<1>1. g \in Records /\ disk \in Records
  BY DEF Types
<1>2. counted' = IF p = bootId THEN counted \cup {"over"} ELSE counted
  BY DEF NoteSurvived
<1>3. p # NoProfile
  BY HeadlessAssumption
<1>4. CASE p = g.profile
  <2>1. p = row
    BY <1>3, <1>4 DEF Owner
  <2>2. g' = Survived(g) /\ disk' = g' /\ harm' = 0 /\ blame' = 0
    BY <1>4, <2>1 DEF NoteSurvived, Save
  <2>3. /\ g' \in Records /\ g'.profile = g.profile /\ g'.open = g.open /\ g'.unstable = g.unstable
        /\ g'.exit = g.exit /\ g'.armed = FALSE /\ g'.strikes = 0
    BY <1>1, <2>2, SurvivedFacts
  <2>4. bootId # NoProfile => p = bootId
    BY <1>4 DEF Owner
  <2>. QED BY <1>2, <2>2, <2>3, <2>4
<1>5. CASE p # g.profile
  <2>1. g' = g /\ disk' = disk
    BY <1>5 DEF NoteSurvived
  <2>2. CASE p = row
    <3>1. harm' = 0 /\ blame' = 0
      BY <2>2 DEF NoteSurvived
    <3>2. g.strikes = 0 /\ ~g.armed /\ harm = 0 /\ bootId = NoProfile
      BY <1>5, <2>2, <1>3 DEF Owner
    <3>3. g' = disk' \/ Unsaved'
      BY <2>1, <3>1, <3>2 DEF Synced, Unsaved
    <3>. QED BY <1>1, <1>2, <2>1, <3>1, <3>2, <3>3 DEF Synced
  <2>3. CASE p # row
    <3>1. harm' = harm /\ blame' = blame
      BY <2>3 DEF NoteSurvived
    <3>2. g' = disk' \/ Unsaved'
      BY <2>1, <3>1 DEF Synced, Unsaved
    <3>3. bootId # NoProfile => p # bootId
      BY <2>3 DEF Owner
    <3>. QED BY <1>1, <1>2, <2>1, <3>1, <3>2, <3>3 DEF Synced
  <2>. QED BY <2>2, <2>3
<1>. QED BY <1>4, <1>5

\* The survival check of the current generation.
LEMMA RunSurvivalKeeps == ASSUME IInv, RunSurvival PROVE IInv'
<1>. USE DEF IInv, durable, boot, conn, timers, ghosts
<1>t. /\ g.strikes \in Nat /\ g.strikes <= StrikesToSuppress
      /\ g.unstable \in Nat /\ g.unstable <= BootsToStayUp
  BY FieldTypes DEF Types
<1>. USE <1>t, HeadlessAssumption

<1>a. /\ Alive /\ runTimer' = NoProfile /\ NoteSurvived(runTimer)
      /\ runTimer \in Profiles
      /\ UNCHANGED <<remember, life, exit, override, boot, conn, stable, retrying, bootTimer, returned,
                     giveUps, row>>
  BY DEF RunSurvival, Types, Maybe
<1>b. /\ g' \in Records /\ disk' \in Records /\ g'.profile = g.profile
      /\ g'.open = g.open /\ g'.unstable = g.unstable /\ g'.exit = g.exit
      /\ disk'.open = g.open /\ disk'.unstable = g.unstable /\ disk'.exit = g.exit
      /\ g' = disk' \/ Unsaved'
      /\ g'.armed => g' = g /\ harm' = harm /\ blame' = blame
      /\ \/ g'.strikes = 0 /\ ~g'.armed /\ harm' = 0 /\ blame' = 0 /\ (bootId # NoProfile => runTimer = bootId)
         \/ g' = g /\ harm' = harm /\ blame' = blame /\ (bootId # NoProfile => runTimer # bootId)
      /\ counted' = IF runTimer = bootId THEN counted \cup {"over"} ELSE counted
  BY <1>a, NoteSurvivedFacts
<1>. USE <1>a, <1>b
<1>1. Types'
  BY DEF Types, Lives, Maybe, Marks, Codes, NoStart
<1>2. Synced'
  BY DEF Synced, Unsaved, Paid, Types
<1>3. Idle'
  BY DEF Idle
<1>4. Written'
  BY DEF Written, ExitIsRecorded, ExitCode, Ended, Codes, Synced, Idle
<1>5. Counted'
  BY DEF Counted, KeepsArm, StayUp, Types, Idle
<1>6. Owner'
  BY DEF Owner, Trial
<1>7. Trial'
  BY DEF Trial, Idle, Owner, NoStart
<1>8. FirstCrash'
  BY DEF FirstCrash, Trial, Idle
<1>9. Paid'
  BY DEF Paid, Trial, Idle, Owner, FirstCrash, Types
<1>10. Kept'
  BY DEF Kept, KeepsArm, ExitCode, Idle
<1>11. Owed'
  BY DEF Owed, Trial, Idle, Types
<1>. QED BY <1>1, <1>2, <1>3, <1>4, <1>5, <1>6, <1>7, <1>8, <1>9, <1>10, <1>11 DEF IInv

\* The survival check of the boot start; in a teardown there is nothing left to disarm.
LEMMA BootSurvivalKeeps == ASSUME IInv, BootSurvival PROVE IInv'
<1>. USE DEF IInv, durable, boot, conn, timers, ghosts
<1>t. /\ g.strikes \in Nat /\ g.strikes <= StrikesToSuppress
      /\ g.unstable \in Nat /\ g.unstable <= BootsToStayUp
  BY FieldTypes DEF Types
<1>. USE <1>t, HeadlessAssumption

<1>a. /\ Alive /\ bootTimer \in Profiles /\ bootTimer = bootId /\ bootTimer' = NoProfile
      /\ phase = "done"
      /\ UNCHANGED <<remember, life, exit, override, boot, conn, stable, retrying, runTimer, returned,
                     giveUps, row>>
  BY DEF BootSurvival, Types, Maybe, Trial
<1>b. /\ g' \in Records /\ disk' \in Records /\ g'.profile = g.profile
      /\ g'.open = g.open /\ g'.unstable = g.unstable /\ g'.exit = g.exit
      /\ disk'.open = g.open /\ disk'.unstable = g.unstable /\ disk'.exit = g.exit
      /\ g' = disk' \/ Unsaved'
      /\ ~g'.armed
      /\ \/ g'.strikes = 0 /\ harm' = 0 /\ blame' = 0
         \/ /\ g'.strikes = g.strikes /\ harm' = harm /\ blame' = blame
            /\ (life = "teardown" => g' = g) /\ (life = "quitting" => harm <= g.strikes)
      /\ counted' \in {counted, counted \cup {"over"}}
  <2>1. CASE g.armed /\ run = bootTimer /\ start = NoStart
    <3>1. NoteSurvived(bootTimer)
      BY <2>1 DEF BootSurvival
    <3>. QED BY <1>a, <3>1, NoteSurvivedFacts
  <2>2. CASE g.armed /\ ~(run = bootTimer /\ start = NoStart)
    <3>1. g' = Disarm(g) /\ disk' = g' /\ UNCHANGED <<harm, blame, counted>>
      BY <2>2 DEF BootSurvival, Save
    <3>2. life # "teardown"
      BY <1>a, <2>2, HeadlessAssumption DEF Kept, ExitCode, KeepsArm
    <3>3. /\ g' \in Records /\ g'.profile = g.profile /\ g'.open = g.open /\ g'.unstable = g.unstable
          /\ g'.exit = g.exit /\ g'.armed = FALSE /\ g'.strikes = g.strikes
      BY <3>1, DisarmFacts DEF Types
    <3>4. ~KeepsArm(exit)
      BY <1>a, <2>2, HeadlessAssumption DEF Kept
    <3>5. life = "quitting" => harm <= g.strikes
      BY <3>4 DEF Paid
    <3>. QED BY <3>1, <3>2, <3>3, <3>5
  <2>3. CASE ~g.armed
    <3>1. UNCHANGED <<g, disk, harm, blame, counted>>
      BY <2>3 DEF BootSurvival
    <3>3. harm <= g.strikes
      BY <2>3 DEF Paid
    <3>2. g' = disk' \/ Unsaved'
      BY <3>1 DEF Synced, Unsaved
    <3>. QED BY <2>3, <3>1, <3>2, <3>3 DEF Types, Synced
  <2>. QED BY <2>1, <2>2, <2>3
<1>. USE <1>a, <1>b
<1>1. Types'
  BY DEF Types, Lives, Maybe, Marks, Codes, NoStart
<1>2. Synced'
  BY DEF Synced, Unsaved, Paid, Types
<1>3. Idle'
  BY DEF Idle
<1>4. Written'
  BY DEF Written, ExitIsRecorded, ExitCode, Ended, Codes, Synced, Idle
<1>5. Counted'
  BY DEF Counted, KeepsArm, StayUp, Types, Idle
<1>6. Owner'
  BY DEF Owner, Trial
<1>7. Trial'
  BY DEF Trial, Idle, Owner, NoStart
<1>8. FirstCrash'
  BY DEF FirstCrash, Trial, Idle
<1>9. Paid'
  BY DEF Paid, Trial, Idle, Owner, FirstCrash, Types
<1>10. Kept'
  BY DEF Kept, KeepsArm, ExitCode, Idle
<1>11. Owed'
  BY DEF Owed, Trial, Idle, Types
<1>. QED BY <1>1, <1>2, <1>3, <1>4, <1>5, <1>6, <1>7, <1>8, <1>9, <1>10, <1>11 DEF IInv

\* A stable core ends the streak.
LEMMA CoreStableKeeps == ASSUME IInv, CoreStable PROVE IInv'
<1>. USE DEF IInv, durable, boot, conn, timers, ghosts
<1>t. /\ g.strikes \in Nat /\ g.strikes <= StrikesToSuppress
      /\ g.unstable \in Nat /\ g.unstable <= BootsToStayUp
  BY FieldTypes DEF Types
<1>. USE <1>t, HeadlessAssumption

<1>a. /\ life \in {"exec", "quitting"} /\ g' = MarkStable(g) /\ disk' = g' /\ giveUps' = 0
      /\ UNCHANGED <<remember, suppressed, life, exit, override, boot, conn, bootTimer, runTimer, returned,
                     harm, blame, counted, row>>
  BY DEF CoreStable, Serving, Save
<1>b. /\ g' \in Records /\ g'.open = FALSE /\ g'.unstable = 0 /\ g'.profile = g.profile
      /\ g'.strikes = g.strikes /\ g'.armed = g.armed /\ g'.exit = g.exit
  BY <1>a, MarkStableFacts DEF Types
<1>. USE <1>a, <1>b
<1>1. Types'
  BY DEF Types, Lives, Maybe, Marks, Codes, NoStart
<1>2. Synced'
  BY DEF Synced, Unsaved, Paid, Types
<1>3. Idle'
  BY DEF Idle
<1>4. Written'
  BY DEF Written, ExitIsRecorded, ExitCode, Ended, Codes, Synced, Idle
<1>5. Counted'
  BY DEF Counted, KeepsArm, StayUp, Types, Idle
<1>6. Owner'
  BY DEF Owner, Trial
<1>7. Trial'
  BY DEF Trial, Idle, Owner, NoStart
<1>8. FirstCrash'
  BY DEF FirstCrash, Trial, Idle
<1>9. Paid'
  BY DEF Paid, Trial, Idle, Owner, FirstCrash, Types
<1>10. Kept'
  BY DEF Kept, KeepsArm, ExitCode, Idle
<1>11. Owed'
  BY DEF Owed, Trial, Idle, Types
<1>. QED BY <1>1, <1>2, <1>3, <1>4, <1>5, <1>6, <1>7, <1>8, <1>9, <1>10, <1>11 DEF IInv

(* The stop that overtakes a restart is written down like any other exit. *)
LEMMA StopNoteFacts ==
    ASSUME NEW r \in Records
    PROVE  LET c == [Disarm(r) EXCEPT !.exit = "ok"]
           IN  /\ c \in Records /\ c.exit = "ok" /\ c.armed = FALSE /\ c.profile = r.profile
               /\ c.strikes = r.strikes /\ c.open = r.open /\ c.unstable = r.unstable
BY DisarmFacts DEF Records, Codes

\* An exit is asked for; only a stop that overtakes a written restart changes the record.
LEMMA AskExitKeeps == ASSUME IInv, NEW code \in {"ok", "fatal", "restart"}, AskExit(code) PROVE IInv'
<1>. USE DEF IInv, durable, boot, conn, timers, ghosts
<1>t. /\ g.strikes \in Nat /\ g.strikes <= StrikesToSuppress
      /\ g.unstable \in Nat /\ g.unstable <= BootsToStayUp
  BY FieldTypes DEF Types
<1>. USE <1>t, HeadlessAssumption

<1>a. /\ life = "starting" \/ life = "exec" \/ Exiting
      /\ UNCHANGED <<remember, suppressed, life, boot, conn, timers, returned, ghosts>>
  BY DEF AskExit, Serving
<1>b. \/ exit = "none" /\ ~Exiting /\ exit' = code /\ UNCHANGED <<override, g, disk>>
      \/ exit = "restart" /\ ~override /\ override' /\ exit' = exit /\ life \notin {"teardown", "after"}
         /\ UNCHANGED <<g, disk>>
      \/ exit = "restart" /\ ~override /\ override' /\ exit' = exit /\ life \in {"teardown", "after"}
         /\ g' = [Disarm(g) EXCEPT !.exit = "ok"] /\ disk' = g'
  BY DEF AskExit, Terminate, Save
<1>c. /\ g' \in Records /\ disk' \in Records /\ g'.profile = g.profile /\ g'.strikes = g.strikes
      /\ g'.open = g.open /\ g'.unstable = g.unstable
      /\ disk'.open = g.open /\ disk'.unstable = g.unstable
      /\ disk'.exit = g'.exit
      /\ \/ exit = "none" /\ ~Exiting /\ exit' = code /\ override' = override /\ g' = g /\ disk' = disk
         \/ exit = "restart" /\ override' /\ exit' = exit /\ life \notin {"teardown", "after"} /\ g' = g /\ disk' = disk
         \/ /\ exit = "restart" /\ override' /\ exit' = exit /\ life \in {"teardown", "after"}
            /\ ~g.armed /\ ~g'.armed /\ g'.exit = "ok" /\ disk' = g'
  <2>1. CASE g' = g /\ disk' = disk /\ (~override' \/ exit = "none" \/ life \notin {"teardown", "after"})
    BY <1>b, <2>1 DEF Types, Synced
  <2>2. CASE exit = "restart" /\ ~override /\ override' /\ exit' = exit /\ life \in {"teardown", "after"}
             /\ g' = [Disarm(g) EXCEPT !.exit = "ok"] /\ disk' = g'
    <3>1. /\ g' \in Records /\ g'.exit = "ok" /\ g'.armed = FALSE /\ g'.profile = g.profile
          /\ g'.strikes = g.strikes /\ g'.open = g.open /\ g'.unstable = g.unstable
      BY <2>2, StopNoteFacts DEF Types
    <3>2. ~g.armed
      BY <2>2 DEF Kept, ExitCode, KeepsArm
    <3>. QED BY <2>2, <3>1, <3>2
  <2>. QED BY <1>b, <2>1, <2>2
<1>. USE <1>a, <1>c
<1>. HIDE DEF AskExit
<1>1. Types'
  BY DEF Types, Lives, Maybe, Marks, Codes, NoStart
<1>2. Synced'
  BY DEF Synced, Unsaved, Paid, Types
<1>3. Idle'
  BY DEF Idle
<1>4. Written'
  BY DEF Written, ExitIsRecorded, ExitCode, Ended, Codes, Synced, Idle
<1>5. Counted'
  BY DEF Counted, KeepsArm, StayUp, Types, Idle
<1>6. Owner'
  BY DEF Owner, Trial
<1>7. Trial'
  BY DEF Trial, Idle, Owner, NoStart
<1>8. FirstCrash'
  BY DEF FirstCrash, Trial, Idle
<1>9. Paid'
  BY DEF Paid, Trial, Idle, Owner, FirstCrash, Types
<1>10. Kept'
  BY DEF Kept, KeepsArm, ExitCode, Idle
<1>11. Owed'
  BY DEF Owed, Trial, Idle, Types
<1>. QED BY <1>1, <1>2, <1>3, <1>4, <1>5, <1>6, <1>7, <1>8, <1>9, <1>10, <1>11 DEF IInv

\* An exit 70 or 71 leaves the record armed with the strike it owes, any other disarms it.
LEMMA RunTerminateKeeps == ASSUME IInv, runTerminate PROVE IInv'
<1>. USE DEF IInv, durable, boot, conn, timers, ghosts
<1>t. /\ g.strikes \in Nat /\ g.strikes <= StrikesToSuppress
      /\ g.unstable \in Nat /\ g.unstable <= BootsToStayUp
  BY FieldTypes DEF Types
<1>. USE <1>t, HeadlessAssumption

<1>a. /\ life = "exec" /\ exit # "none" /\ life' = "teardown"
      /\ ~request' /\ want' = NoProfile /\ retryId' = NoProfile /\ ~crashed'
      /\ UNCHANGED <<remember, suppressed, exit, override, phase, bootId, core, start, run, started,
                     bootTimer, runTimer, returned, row>>
  BY DEF runTerminate, NoneWaits
<1>b. ExitCode \in Codes /\ ExitCode' = ExitCode /\ (KeepsArm(ExitCode) => KeepsArm(exit) /\ ~override)
  BY <1>a DEF ExitCode, Codes, Types, KeepsArm
<1>c. /\ g' \in Records /\ disk' = g' /\ g'.exit = ExitCode /\ g'.armed = (g.armed /\ KeepsArm(ExitCode))
      /\ g'.profile = g.profile /\ g'.strikes = g.strikes /\ g'.open = g.open /\ g'.unstable = g.unstable
  <2>1. g' = NoteExit(g, ExitCode) /\ disk' = g'
    BY DEF runTerminate, Save
  <2>2. g \in Records
    BY DEF Types
  <2>. QED BY <1>b, <2>1, <2>2, NoteExitFacts
<1>d. /\ harm' \in Nat /\ blame' \in Nat /\ counted' \in SUBSET Marks
      /\ g.strikes <= blame' /\ (g'.armed => g.strikes < blame')
      /\ harm' <= g.strikes \/ (g'.armed /\ harm' <= g.strikes + 1)
      /\ "dispatched" \in counted' <=> "dispatched" \in counted
      /\ "blame" \in counted' => "dispatched" \in counted'
  <2>1. CASE KeepsArm(ExitCode)
    <3>1. Hurt(OnTrial) /\ OnTrial \in BOOLEAN
      BY <2>1 DEF runTerminate, OnTrial
    <3>2. /\ harm' \in Nat /\ harm' <= harm + 1 /\ (~OnTrial => harm' = harm)
          /\ blame' \in Nat /\ g.strikes <= blame'
          /\ counted' \in SUBSET Marks /\ counted \subseteq counted'
          /\ "dispatched" \in counted' => "dispatched" \in counted
          /\ "blame" \in counted' => "dispatched" \in counted'
          /\ bootId # NoProfile /\ "dispatched" \in counted => "blame" \in counted'
          /\ g.armed /\ "blame" \in counted' => g.strikes < blame'
      BY <3>1, HurtFacts
    <3>3. g'.armed => g.armed /\ bootId # NoProfile /\ "dispatched" \in counted
      BY <1>a, <1>c DEF Trial
    <3>4. g'.armed = g.armed
      BY <1>c, <2>1, FieldTypes DEF Types
    <3>5. OnTrial => g.armed \/ harm < g.strikes
      BY <1>a DEF OnTrial, Paid
    <3>6. harm' <= g.strikes \/ (g'.armed /\ harm' <= g.strikes + 1)
      BY <1>a, <3>2, <3>4, <3>5 DEF Paid, Types
    <3>. QED BY <3>2, <3>3, <3>6
  <2>2. CASE ~KeepsArm(ExitCode)
    <3>1. UNCHANGED <<harm, blame, counted>>
      BY <2>2 DEF runTerminate
    <3>. QED BY <1>a, <1>c, <2>2, <3>1 DEF Types, Owed, Paid, Trial
  <2>. QED BY <2>1, <2>2
<1>e. giveUps' = IF KeepsArm(ExitCode) /\ g.open THEN giveUps + 1 ELSE giveUps
  BY DEF runTerminate
<1>f. g.profile = NoProfile => ~g'.armed /\ harm' = 0
  <2>1. g'.armed => g.armed
    BY <1>c
  <2>. QED BY <1>d, <2>1 DEF Owner
<1>. USE <1>a, <1>b, <1>c, <1>d, <1>e, <1>f
<1>1. Types'
  BY DEF Types, Lives, Maybe, Marks, Codes, NoStart
<1>2. Synced'
  BY DEF Synced, Unsaved, Paid, Types
<1>3. Idle'
  BY DEF Idle
<1>4. Written'
  BY DEF Written, ExitIsRecorded, ExitCode, Ended, Codes, Synced, Idle
<1>5. Counted'
  BY DEF Counted, KeepsArm, StayUp, Types, Idle
<1>6. Owner'
  BY DEF Owner, Trial
<1>7. Trial'
  BY DEF Trial, Idle, Owner, NoStart
<1>8. FirstCrash'
  BY DEF FirstCrash, Trial, Idle
<1>9. Paid'
  BY DEF Paid, Trial, Idle, Owner, FirstCrash, Types
<1>10. Kept'
  BY DEF Kept, KeepsArm, ExitCode, Idle
<1>11. Owed'
  BY DEF Owed, Trial, Idle, Types
<1>. QED BY <1>1, <1>2, <1>3, <1>4, <1>5, <1>6, <1>7, <1>8, <1>9, <1>10, <1>11 DEF IInv

\* A stray quit writes nothing: an armed record keeps the strike it owes.
LEMMA StrayQuitKeeps == ASSUME IInv, StrayQuit PROVE IInv'
<1>. USE DEF IInv, durable, boot, conn, timers, ghosts
<1>t. /\ g.strikes \in Nat /\ g.strikes <= StrikesToSuppress
      /\ g.unstable \in Nat /\ g.unstable <= BootsToStayUp
  BY FieldTypes DEF Types
<1>. USE <1>t, HeadlessAssumption
<1>a. /\ life = "exec" /\ life' = "quitting" /\ retrying' = FALSE
      /\ ~request' /\ want' = NoProfile /\ retryId' = NoProfile /\ ~crashed'
      /\ UNCHANGED <<durable, g, suppressed, exit, override, phase, bootId, core, start, run, started,
                     stable, bootTimer, runTimer, returned, row>>
      /\ giveUps' = IF KeepsArm(ExitCode) /\ g.open THEN giveUps + 1 ELSE giveUps
  BY DEF StrayQuit, NoneWaits
<1>b. KeepsArm(ExitCode) <=> KeepsArm(exit)
  BY DEF ExitCode, KeepsArm, Written
<1>d. /\ harm' \in Nat /\ blame' \in Nat /\ counted' \in SUBSET Marks
      /\ g.strikes <= blame' /\ (g.armed => g.strikes < blame')
      /\ harm' <= g.strikes \/ (g.armed /\ harm' <= g.strikes + 1)
      /\ ~KeepsArm(exit) => harm' <= g.strikes
      /\ "dispatched" \in counted' <=> "dispatched" \in counted
      /\ "blame" \in counted' => "dispatched" \in counted'
  <2> DEFINE certain == KeepsArm(ExitCode) /\ OnTrial
  <2>1. Hurt(certain) /\ certain \in BOOLEAN
    BY DEF StrayQuit, OnTrial, KeepsArm
  <2>2. /\ harm' \in Nat /\ harm' <= harm + 1 /\ (~certain => harm' = harm)
        /\ blame' \in Nat /\ g.strikes <= blame'
        /\ counted' \in SUBSET Marks /\ counted \subseteq counted'
        /\ "dispatched" \in counted' => "dispatched" \in counted
        /\ "blame" \in counted' => "dispatched" \in counted'
        /\ bootId # NoProfile /\ "dispatched" \in counted => "blame" \in counted'
        /\ g.armed /\ "blame" \in counted' => g.strikes < blame'
    <3>. HIDE DEF certain
    <3>. QED BY <2>1, HurtFacts
  <2>3. g.armed => bootId # NoProfile /\ "dispatched" \in counted
    BY <1>a DEF Trial
  <2>4. OnTrial => g.armed \/ harm < g.strikes
    BY <1>a DEF OnTrial, Paid
  <2>5. harm <= g.strikes
    BY <1>a DEF Paid
  <2>6. harm' <= g.strikes \/ (g.armed /\ harm' <= g.strikes + 1)
    BY <2>2, <2>4, <2>5 DEF Types
  <2>7. ~KeepsArm(exit) => harm' <= g.strikes
    BY <1>b, <2>2, <2>5
  <2>. QED BY <2>2, <2>3, <2>6, <2>7
<1>f. g.profile = NoProfile => harm' = 0
  BY <1>d DEF Owner
<1>. USE <1>a, <1>b, <1>d, <1>f
<1>1. Types'
  BY DEF Types, Lives, Maybe, Marks, Codes, NoStart
<1>2. Synced'
  BY DEF Synced, Unsaved, Paid, Types
<1>3. Idle'
  BY DEF Idle
<1>4. Written'
  BY DEF Written, ExitIsRecorded, ExitCode, Ended, Codes, Synced, Idle
<1>5. Counted'
  BY DEF Counted, KeepsArm, StayUp, Types, Idle
<1>6. Owner'
  BY DEF Owner, Trial
<1>7. Trial'
  BY DEF Trial, Idle, Owner, NoStart
<1>8. FirstCrash'
  BY DEF FirstCrash, Trial, Idle
<1>9. Paid'
  BY DEF Paid, Trial, Idle, Owner, FirstCrash, Types
<1>10. Kept'
  BY DEF Kept, KeepsArm, ExitCode, Idle
<1>11. Owed'
  BY DEF Owed, Trial, Idle, Types
<1>. QED BY <1>1, <1>2, <1>3, <1>4, <1>5, <1>6, <1>7, <1>8, <1>9, <1>10, <1>11 DEF IInv

\* The refused restart writes the exit that is already there, or the one a stray quit left out.
LEMMA ExecRefusedKeeps == ASSUME IInv, ExecRefused PROVE IInv'
<1>. USE DEF IInv, durable, boot, conn, timers, ghosts
<1>t. /\ g.strikes \in Nat /\ g.strikes <= StrikesToSuppress
      /\ g.unstable \in Nat /\ g.unstable <= BootsToStayUp
  BY FieldTypes DEF Types
<1>. USE <1>t, HeadlessAssumption

<1>a. /\ life \in {"after", "quit"} /\ exit = "restart" /\ ~override
      /\ UNCHANGED <<remember, suppressed, life, exit, override, boot, conn, timers, returned, ghosts>>
      /\ g' = NoteExit(g, "restart") /\ disk' = g'
  BY DEF ExecRefused, Restarts, Save
<1>b. "restart" \in Codes /\ ~KeepsArm("restart")
  BY DEF Codes, KeepsArm
<1>c. /\ g' \in Records /\ g'.exit = "restart" /\ ~g'.armed /\ g'.profile = g.profile
      /\ g'.strikes = g.strikes /\ g'.open = g.open /\ g'.unstable = g.unstable
  BY <1>a, <1>b, NoteExitFacts DEF Types
<1>d. (life = "after" => ~g.armed) /\ harm <= g.strikes
  BY <1>a, <1>b DEF Kept, ExitCode, KeepsArm, Paid, Types
<1>. USE <1>a, <1>c, <1>d
<1>1. Types'
  BY DEF Types, Lives, Maybe, Marks, Codes, NoStart
<1>2. Synced'
  BY DEF Synced, Unsaved, Paid, Types
<1>3. Idle'
  BY DEF Idle
<1>4. Written'
  BY DEF Written, ExitIsRecorded, ExitCode, Ended, Codes, Synced, Idle
<1>5. Counted'
  BY DEF Counted, KeepsArm, StayUp, Types, Idle
<1>6. Owner'
  BY DEF Owner, Trial
<1>7. Trial'
  BY DEF Trial, Idle, Owner, NoStart
<1>8. FirstCrash'
  BY DEF FirstCrash, Trial, Idle
<1>9. Paid'
  BY DEF Paid, Trial, Idle, Owner, FirstCrash, Types
<1>10. Kept'
  BY DEF Kept, KeepsArm, ExitCode, Idle
<1>11. Owed'
  BY DEF Owed, Trial, Idle, Types
<1>. QED BY <1>1, <1>2, <1>3, <1>4, <1>5, <1>6, <1>7, <1>8, <1>9, <1>10, <1>11 DEF IInv

\* However the process ends it leaves what is on disk: an armed record owes the strike the histories counted.
LEMMA GoneKeeps ==
    ASSUME IInv, Gone, life # "off", UNCHANGED <<durable, giveUps, row>>, ExitIsRecorded',
           harm' \in Nat, blame' \in Nat, g.strikes <= blame', g.armed => g.strikes < blame',
           harm' <= g.strikes \/ (g.armed /\ harm' <= g.strikes + 1)
    PROVE  IInv'
<1>. USE DEF IInv, durable, boot, conn, timers, ghosts
<1>t. /\ g.strikes \in Nat /\ g.strikes <= StrikesToSuppress
      /\ g.unstable \in Nat /\ g.unstable <= BootsToStayUp
  BY FieldTypes DEF Types
<1>. USE <1>t, HeadlessAssumption
<1>g. /\ g'.open = g.open /\ g'.unstable = g.unstable /\ g'.exit = g.exit /\ g'.strikes \in Nat
      /\ g'.armed => g.armed /\ g' = g
      /\ g' = g \/ (g'.profile = NoProfile /\ g'.strikes = 0 /\ ~g'.armed /\ g.strikes = 0 /\ ~g.armed /\ harm = 0)
  BY FieldTypes DEF Gone, Synced, Unsaved, Types
<1>i. g.profile = NoProfile \/ g' # g => harm' = 0
  BY <1>g DEF Owner
<1>. USE <1>g, <1>i DEF Gone, Silent
<1>1. Types'
  BY DEF Types, Lives, Maybe, Marks, Codes, NoStart
<1>2. Synced'
  BY DEF Synced, Unsaved, Paid, Types
<1>3. Idle'
  BY DEF Idle
<1>4. Written'
  BY DEF Written
<1>5. Counted'
  BY DEF Counted, KeepsArm, StayUp, Types, Idle
<1>6. Owner'
  BY DEF Owner, Trial
<1>7. Trial'
  BY DEF Trial, Idle, Owner, NoStart
<1>8. FirstCrash'
  BY DEF FirstCrash, Trial, Idle
<1>9. Paid'
  BY DEF Paid, Trial, Idle, Owner, FirstCrash, Types
<1>10. Kept'
  BY DEF Kept, KeepsArm, ExitCode, Idle
<1>11. Owed'
  BY DEF Owed, Trial, Idle, Types
<1>. QED BY <1>1, <1>2, <1>3, <1>4, <1>5, <1>6, <1>7, <1>8, <1>9, <1>10, <1>11 DEF IInv

\* A process that ends by itself changes no history: what it owes is already counted.
LEMMA StandingFacts ==
    ASSUME IInv, life # "exec", UNCHANGED <<harm, blame>>
    PROVE  /\ harm' \in Nat /\ blame' \in Nat /\ g.strikes <= blame' /\ (g.armed => g.strikes < blame')
           /\ harm' <= g.strikes \/ (g.armed /\ harm' <= g.strikes + 1)
BY DEF IInv, Types, Owed, Paid

\* The process ends with the code last_exit names, unless a stray quit ended it.
LEMMA ProcessEndsKeeps == ASSUME IInv, ProcessEnds PROVE IInv'
<1>1. /\ life \in {"after", "quit"} /\ Gone /\ UNCHANGED <<durable, harm, blame, giveUps, row>>
      /\ returned' = Ended(IF life = "after" THEN "decided" ELSE "quit", IF exit = "none" THEN "ok" ELSE ExitCode)
  BY DEF ProcessEnds
<1>2. CASE life = "after"
  <2>1. returned'.way = "decided" /\ returned'.code = ExitCode
    BY <1>1, <1>2 DEF Ended, IInv, Written
  <2>2. disk'.exit = ExitCode
    BY <1>1, <1>2 DEF IInv, Written, Synced, durable
  <2>3. ExitIsRecorded'
    BY <2>1, <2>2 DEF ExitIsRecorded
  <2>. QED BY <1>1, <2>3, StandingFacts, GoneKeeps
<1>3. CASE life = "quit"
  <2>1. returned'.way = "quit"
    BY <1>1, <1>3 DEF Ended
  <2>2. disk'.exit \in {"none", "restart"}
    BY <1>1, <1>3 DEF IInv, Written, Synced, durable
  <2>3. ExitIsRecorded'
    BY <2>1, <2>2 DEF ExitIsRecorded
  <2>. QED BY <1>1, <2>3, StandingFacts, GoneKeeps
<1>. QED BY <1>1, <1>2, <1>3

\* The successor finds the restart, unless a stray quit began it.
LEMMA StartsAgainKeeps == ASSUME IInv, StartsAgain PROVE IInv'
<1>1. /\ life \in {"after", "quit"} /\ exit = "restart" /\ ~override
      /\ Gone /\ UNCHANGED <<durable, harm, blame, giveUps, row>>
  BY DEF StartsAgain, Restarts
<1>2. returned'.way = IF life = "after" THEN "again" ELSE "quit"
  BY DEF StartsAgain, Ended
<1>3. disk'.exit = g.exit
  BY <1>1 DEF IInv, Synced, durable
<1>4. life = "after" => g.exit = "restart"
  BY <1>1 DEF IInv, Written, ExitCode
<1>5. life = "quit" => g.exit \in {"none", "restart"}
  BY DEF IInv, Written
<1>6. ExitIsRecorded'
  BY <1>1, <1>2, <1>3, <1>4, <1>5 DEF ExitIsRecorded
<1>. QED BY <1>1, <1>6, StandingFacts, GoneKeeps

\* A process that returns before its loop runs has consumed the last exit and recorded none.
LEMMA EndsEarlyKeeps == ASSUME IInv, EndsEarly PROVE IInv'
<1>1. /\ life \in {"loaded", "starting"} /\ Gone /\ UNCHANGED <<durable, harm, blame, giveUps, row>>
  BY DEF EndsEarly
<1>2. returned'.way = "early"
  BY DEF EndsEarly, Ended
<1>3. disk'.exit = "none"
  BY <1>1 DEF IInv, Written, Synced, durable
<1>4. ExitIsRecorded'
  BY <1>2, <1>3 DEF ExitIsRecorded
<1>. QED BY <1>1, <1>4, StandingFacts, GoneKeeps

\* A kill leaves the exit that was decided, if one was.
LEMMA KilledKeeps == ASSUME IInv, Killed PROVE IInv'
<1>t. /\ g.strikes \in Nat /\ g.strikes <= StrikesToSuppress
  BY FieldTypes DEF IInv, Types
<1>a. /\ life # "off" /\ Gone /\ UNCHANGED <<durable, giveUps, row>>
      /\ life \in Lives /\ disk'.exit = g.exit
  BY DEF Killed, IInv, Types, Synced, durable
<1>h. /\ harm' \in Nat /\ blame' \in Nat
      /\ g.strikes <= blame' /\ (g.armed => g.strikes < blame')
      /\ harm' <= g.strikes \/ (g.armed /\ harm' <= g.strikes + 1)
  <2>1. CASE life = "exec"
    <3>1. Harm(OnTrial) /\ OnTrial \in BOOLEAN
      BY <2>1 DEF Killed, OnTrial
    <3>2. /\ harm' \in Nat /\ harm' <= harm + 1 /\ (~OnTrial => harm' = harm)
          /\ blame' \in Nat /\ g.strikes <= blame'
          /\ (Dispatched /\ "blame" \notin counted => g.strikes < blame')
          /\ (~(Dispatched /\ "blame" \notin counted) => blame' = blame)
      BY <3>1, HarmFacts DEF IInv, Owed
    <3>3. g.armed => Dispatched
      BY <2>1 DEF IInv, Trial, Dispatched
    <3>4. OnTrial => g.armed \/ harm < g.strikes
      BY <2>1 DEF OnTrial, IInv, Paid
    <3>5. harm' <= g.strikes \/ (g.armed /\ harm' <= g.strikes + 1)
      BY <1>t, <2>1, <3>2, <3>4 DEF IInv, Paid, Types
    <3>6. g.armed => g.strikes < blame'
      BY <2>1, <3>2, <3>3 DEF IInv, Owed
    <3>. QED BY <3>2, <3>5, <3>6
  <2>2. CASE life # "exec"
    <3>1. UNCHANGED <<harm, blame>>
      BY <2>2 DEF Killed
    <3>. QED BY <2>2, <3>1, StandingFacts
  <2>. QED BY <2>1, <2>2
<1>e. ExitIsRecorded'
  <2>1. CASE life \in {"teardown", "after"}
    <3>1. returned'.way = "decided" /\ returned'.code = ExitCode
      BY <2>1 DEF Killed, Ended
    <3>. QED BY <1>a, <2>1, <3>1 DEF ExitIsRecorded, IInv, Written
  <2>2. CASE life \in {"quitting", "quit"}
    <3>1. returned'.way = "quit"
      BY <2>2 DEF Killed, Ended
    <3>. QED BY <1>a, <2>2, <3>1 DEF ExitIsRecorded, IInv, Written
  <2>3. CASE life \in {"loaded", "settled", "starting", "exec"}
    <3>1. returned'.way = "killed"
      BY <2>3 DEF Killed, Ended
    <3>. QED BY <1>a, <2>3, <3>1 DEF ExitIsRecorded, IInv, Written
  <2>. QED BY <1>a, <2>1, <2>2, <2>3 DEF Lives
<1>. QED BY <1>a, <1>h, <1>e, GoneKeeps

\* A first boot satisfies the invariant.
LEMMA InitLemma == Init => IInv
<1>. SUFFICES ASSUME Init PROVE IInv
  OBVIOUS
<1>1. Fresh \in Records
  BY HeadlessAssumption DEF Fresh, Records, Maybe, Codes
<1>2. /\ Fresh.profile = NoProfile /\ Fresh.strikes = 0 /\ Fresh.armed = FALSE
      /\ Fresh.unstable = 0 /\ Fresh.exit = "none"
  BY DEF Fresh
<1>. USE <1>1, <1>2, HeadlessAssumption DEF Init
<1>3. Types
  BY DEF Types, Lives, Maybe, Codes, Marks, NoStart
<1>4. Synced /\ Idle /\ Written
  BY DEF Synced, Idle, Written, ExitIsRecorded, Ended, Codes
<1>5. Counted /\ Owner /\ Kept
  BY DEF Counted, Owner, Kept, KeepsArm
<1>6. Trial /\ FirstCrash
  BY DEF Trial, FirstCrash
<1>7. Paid /\ Owed
  BY DEF Paid, Owed
<1>. QED BY <1>3, <1>4, <1>5, <1>6, <1>7 DEF IInv

\* So does a step that changes nothing.
LEMMA StutterLemma == ASSUME IInv, UNCHANGED vars PROVE IInv'
<1>. USE DEF IInv, vars, durable, boot, conn, timers, ghosts
<1>1. Types'
  BY DEF Types
<1>2. Synced' /\ Idle' /\ Written'
  BY DEF Synced, Unsaved, Idle, Written, ExitIsRecorded, ExitCode
<1>3. Counted' /\ Owner' /\ Trial' /\ FirstCrash'
  BY DEF Counted, Owner, Trial, FirstCrash
<1>4. Paid' /\ Kept' /\ Owed'
  BY DEF Paid, Kept, Owed, ExitCode
<1>. QED BY <1>1, <1>2, <1>3, <1>4 DEF IInv

\* Every action keeps the invariant.
LEMMA NextLemma == IInv /\ [Next]_vars => IInv'
<1>. SUFFICES ASSUME IInv, [Next]_vars PROVE IInv'
  OBVIOUS
<1>1. CASE Load \/ settlePrevious \/ decide \/ ExecRuns
  BY <1>1, LoadKeeps, settlePreviousKeeps, DecideKeeps, ExecRunsKeeps
<1>2. CASE CoreConnects \/ CoreStarted \/ StopRun \/ CancelResume \/ Started \/ StartFailed
  BY <1>2, CoreConnectsKeeps, CoreStartedKeeps, StopRunKeeps, CancelResumeKeeps, StartedKeeps, StartFailedKeeps
<1>3. CASE CoreDies \/ CoreRetry \/ Watchdog
  BY <1>3, CoreDiesKeeps, CoreRetryKeeps, WatchdogKeeps
<1>4. CASE BootSurvival \/ RunSurvival \/ CoreStable
  BY <1>4, BootSurvivalKeeps, RunSurvivalKeeps, CoreStableKeeps
<1>5. CASE \/ runTerminate \/ StrayQuit \/ TeardownStops \/ TeardownDone \/ ExecRefused
           \/ ProcessEnds \/ StartsAgain \/ EndsEarly \/ Killed
  BY <1>5, RunTerminateKeeps, StrayQuitKeeps, TeardownStopsKeeps, TeardownDoneKeeps, ExecRefusedKeeps,
     ProcessEndsKeeps, StartsAgainKeeps, EndsEarlyKeeps, KilledKeeps
<1>6. CASE \E p \in Profiles : ApiStart(p)
  BY <1>6, ApiStartKeeps
<1>7. CASE \E b, f \in BOOLEAN : CoreExited(b, f)
  BY <1>7, CoreExitedKeeps
<1>8. CASE \E c \in {"ok", "fatal", "restart"} : AskExit(c)
  BY <1>8, AskExitKeeps
<1>9. CASE UNCHANGED vars
  BY <1>9, StutterLemma
<1>. QED BY <1>1, <1>2, <1>3, <1>4, <1>5, <1>6, <1>7, <1>8, <1>9 DEF Next

(* Every state of every run satisfies the inductive invariant. *)
THEOREM Invariance == Spec => []IInv
BY InitLemma, NextLemma, PTL DEF Spec

(* However its boots end - a core that dies, a kill between any two steps,  *)
(* exits 70 and 71 - no profile is resumed by HeadlessRuntime after         *)
(* kStrikesToSuppress of them in a row that it brought down for certain.    *)
THEOREM NeverACrashLoop == Spec => []NoCrashLoop
<1>1. IInv => NoCrashLoop
  BY FieldTypes, HeadlessAssumption DEF IInv, Types, Paid, NoCrashLoop
<1>. QED BY Invariance, <1>1, PTL

(* ResumeGuard never holds more strikes against a profile than boots that   *)
(* dispatched it and may have failed because of it.                        *)
THEOREM StrikesAlwaysEarned == Spec => []StrikesAreEarned
<1>1. IInv => StrikesAreEarned
  BY DEF IInv, Owed, StrikesAreEarned
<1>. QED BY Invariance, <1>1, PTL

(* At most kUnstableBootsToStayUp boots in a row exit 70 or 71 without a    *)
(* stable core: from then on the program stays reachable.                  *)
THEOREM GiveUpsAlwaysBounded == Spec => []GiveUpsAreBounded
<1>1. IInv => GiveUpsAreBounded
  BY DEF IInv, Counted, GiveUpsAreBounded
<1>. QED BY Invariance, <1>1, PTL

(* last_exit names the exit that was decided and that RunHeadless() returns, *)
(* also when a stop overtook the restart that was written down; it names the *)
(* restart after a restart in place, and no exit after a kill, an early      *)
(* return or a stray quit (whose refused restart it may name).               *)
THEOREM ExitAlwaysRecorded == Spec => []ExitIsRecorded
<1>1. IInv => ExitIsRecorded
  BY DEF IInv, Written
<1>. QED BY Invariance, <1>1, PTL
=============================================================================
