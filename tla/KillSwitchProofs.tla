-------------------------- MODULE KillSwitchProofs --------------------------
(***************************************************************************)
(* Theorems about KillSwitch for any set of guard slots, any set of        *)
(* configurations and any bound.  The argument is the invariant IndInv of  *)
(* that module; the lemmas follow the member functions of Sys::KillSwitch, *)
(* and StepLemma has one step per action.  What a guard has reported is    *)
(* compared with what it does by Truthful, on which ArmedAlwaysEnforced    *)
(* and OnlyReadyReplaces rest.                                             *)
(***************************************************************************)
EXTENDS KillSwitch, TLAPS

Fields == KillSwitchFields

\* A free slot, once there is one, is what freshSlot names.
LEMMA FreshSlot ==
    ASSUME SlotLeft PROVE freshSlot \in FreeSlots /\ freshSlot \in Guards
BY DEF SlotLeft, freshSlot, FreeSlots

\* settle() only runs waiters, and leaves none without a reason to wait.
LEMMA SettleLemma ==
    ASSUME NEW k \in Fields
    PROVE  LET r == settle(k) IN
           /\ r \in Fields
           /\ r.state_ = k.state_ /\ r.failureCode_ = k.failureCode_
           /\ r.identityUnsupported_ = k.identityUnsupported_ /\ r.shutdown_ = k.shutdown_
           /\ r.active_ = k.active_ /\ r.pending_ = k.pending_ /\ r.closing = k.closing
           /\ "settled" \in r.waiters => k.state_ = "Arming"
           /\ "idle" \in r.waiters => k.pending_ # NoGuard
BY DEF settle, Fields, KillSwitchFields, WaiterKinds

\* setState() changes the state and forgets the failure.
LEMMA SetStateLemma ==
    ASSUME NEW k \in Fields, NEW s \in States
    PROVE  LET r == setState(k, s) IN
           /\ r \in Fields
           /\ r.state_ = s
           /\ r.identityUnsupported_ = k.identityUnsupported_ /\ r.shutdown_ = k.shutdown_
           /\ r.active_ = k.active_ /\ r.pending_ = k.pending_ /\ r.closing = k.closing
           /\ r.waiters = k.waiters
BY DEF setState, Fields, KillSwitchFields

\* fail() and failIdentity() end in Failed, with the waiters served.
LEMMA FailLemma ==
    ASSUME NEW k \in Fields, NEW code \in Codes
    PROVE  LET r == fail(k, code) IN
           /\ r \in Fields
           /\ r.state_ = "Failed"
           /\ r.identityUnsupported_ = k.identityUnsupported_ /\ r.shutdown_ = k.shutdown_
           /\ r.active_ = k.active_ /\ r.pending_ = k.pending_ /\ r.closing = k.closing
           /\ "settled" \notin r.waiters
           /\ "idle" \in r.waiters => k.pending_ # NoGuard
<1> DEFINE q == [k EXCEPT !.state_ = "Failed", !.failureCode_ = code]
<1>1. /\ q \in Fields
      /\ q.state_ = "Failed"
      /\ q.identityUnsupported_ = k.identityUnsupported_ /\ q.shutdown_ = k.shutdown_
      /\ q.active_ = k.active_ /\ q.pending_ = k.pending_ /\ q.closing = k.closing
  BY DEF Fields, KillSwitchFields, States
<1>2. fail(k, code) = settle(q)
  BY DEF fail
<1> QED BY <1>1, <1>2, SettleLemma

LEMMA FailIdentityLemma ==
    ASSUME NEW k \in Fields
    PROVE  failIdentity(k) = fail(k, "unsupported")
BY DEF failIdentity, fail

\* closeGuard on the active guard, which is then forgotten.
LEMMA CloseActiveLemma ==
    ASSUME NEW k \in Fields
    PROVE  LET r == closeActive(k) IN
           /\ r \in Fields
           /\ r.state_ = k.state_ /\ r.waiters = k.waiters
           /\ r.identityUnsupported_ = k.identityUnsupported_ /\ r.shutdown_ = k.shutdown_
           /\ r.active_ = NoGuard /\ r.pending_ = k.pending_
           /\ r.closing = k.closing \cup ({k.active_} \ {NoGuard})
BY GuardsAssumption DEF closeActive, closeGuard, Fields, KillSwitchFields

\* The same for the pending guard.
LEMMA ClosePendingLemma ==
    ASSUME NEW k \in Fields
    PROVE  LET r == closePending(k) IN
           /\ r \in Fields
           /\ r.state_ = k.state_ /\ r.waiters = k.waiters
           /\ r.identityUnsupported_ = k.identityUnsupported_ /\ r.shutdown_ = k.shutdown_
           /\ r.active_ = k.active_ /\ r.pending_ = NoGuard
           /\ r.closing = k.closing \cup ({k.pending_} \ {NoGuard})
BY GuardsAssumption DEF closePending, closeGuard, Fields, KillSwitchFields

\* spawn() replaces the pending guard by one in a free slot.
LEMMA SpawnLemma ==
    ASSUME NEW k \in Fields, NEW c \in Configs, SlotLeft
    PROVE  LET r == spawn(k, c) IN
           /\ r \in Fields
           /\ r.state_ = IF k.active_ = NoGuard /\ ~k.identityUnsupported_ THEN "Arming" ELSE k.state_
           /\ r.identityUnsupported_ = k.identityUnsupported_ /\ r.shutdown_ = k.shutdown_
           /\ r.active_ = k.active_ /\ r.pending_ = freshSlot /\ r.waiters = k.waiters
           /\ r.closing = k.closing \cup ({k.pending_} \ {NoGuard})
<1> DEFINE q == [closePending(k) EXCEPT !.pending_ = freshSlot, !.config[freshSlot] = c]
<1>1. /\ q \in Fields
      /\ q.state_ = k.state_
      /\ q.identityUnsupported_ = k.identityUnsupported_ /\ q.shutdown_ = k.shutdown_
      /\ q.active_ = k.active_ /\ q.pending_ = freshSlot /\ q.waiters = k.waiters
      /\ q.closing = k.closing \cup ({k.pending_} \ {NoGuard})
  BY ClosePendingLemma, FreshSlot DEF Fields, KillSwitchFields
<1>2. "Arming" \in States
  BY DEF States
<1>3. spawn(k, c) = IF k.active_ = NoGuard /\ ~k.identityUnsupported_ THEN setState(q, "Arming") ELSE q
  BY DEF spawn
<1> HIDE DEF q
<1> QED BY <1>1, <1>2, <1>3, SetStateLemma

\* turnOff() leaves the switch off, with no guard and no waiter.
LEMMA TurnOffLemma ==
    ASSUME NEW k \in Fields
    PROVE  LET r == turnOff(k) IN
           /\ r \in Fields
           /\ r.state_ = "Disabled" /\ r.waiters = {}
           /\ ~r.identityUnsupported_ /\ r.shutdown_ = k.shutdown_
           /\ r.active_ = NoGuard /\ r.pending_ = NoGuard
           /\ r.closing = k.closing \cup ({k.active_, k.pending_} \ {NoGuard})
<1> DEFINE k1 == [k EXCEPT !.identityUnsupported_ = FALSE]
           k2 == closeActive(closePending(k1))
           k3 == setState(k2, "Disabled")
<1>1. /\ k1 \in Fields /\ ~k1.identityUnsupported_ /\ k1.shutdown_ = k.shutdown_
      /\ k1.active_ = k.active_ /\ k1.pending_ = k.pending_ /\ k1.closing = k.closing
  BY DEF Fields, KillSwitchFields
<1>2. /\ k2 \in Fields /\ ~k2.identityUnsupported_ /\ k2.shutdown_ = k.shutdown_
      /\ k2.active_ = NoGuard /\ k2.pending_ = NoGuard
      /\ k2.closing = k.closing \cup ({k.active_, k.pending_} \ {NoGuard})
  <2>1. closePending(k1) \in Fields
    BY <1>1, ClosePendingLemma
  <2> QED BY <1>1, <2>1, ClosePendingLemma, CloseActiveLemma
<1>3. /\ k3 \in Fields /\ ~k3.identityUnsupported_ /\ k3.shutdown_ = k.shutdown_
      /\ k3.active_ = NoGuard /\ k3.pending_ = NoGuard /\ k3.state_ = "Disabled"
      /\ k3.closing = k2.closing
  BY <1>2, SetStateLemma DEF States
<1>4. turnOff(k) = settle(k3)
  BY DEF turnOff
<1>5. turnOff(k).waiters \subseteq WaiterKinds
  BY <1>3, <1>4, SettleLemma DEF Fields, KillSwitchFields
<1> HIDE DEF k1, k2, k3
<1>6. turnOff(k).waiters = {}
  BY <1>3, <1>4, <1>5, SettleLemma DEF WaiterKinds
<1> QED BY <1>2, <1>3, <1>4, <1>6, SettleLemma

\* What holds of the fields between two handlers.
Sound(k) == k \in Fields /\ Coherent(k) /\ Refusing(k) /\ Slots(k)

\* apply() keeps the fields coherent, ends Disabled only when the setting is off or
\* after shutdown(), and gives a new pending guard a free slot.
LEMMA ApplyLemma ==
    ASSUME NEW k \in Fields, NEW on \in BOOLEAN, NEW c \in Configs, SlotLeft,
           Slots(k), Coherent(k), k.pending_ \notin FreeSlots,
           ~k.shutdown_ /\ k.identityUnsupported_ /\ on => k.state_ # "Disabled"
    PROVE  LET r == apply(k, on, c) IN
           /\ ~k.shutdown_ => Sound(r)
           /\ k.shutdown_ => r = k
           /\ r.pending_ \in {k.pending_, NoGuard} \cup FreeSlots
           /\ r.shutdown_ = k.shutdown_
           /\ on /\ ~k.shutdown_ => r.state_ # "Disabled"
<1> DEFINE r == apply(k, on, c)
<1>1. CASE k.shutdown_
  BY <1>1 DEF apply
<1>2. CASE ~k.shutdown_ /\ ~on
  <2>1. r = turnOff(k)
    BY <1>2 DEF apply
  <2>2. /\ r \in Fields
        /\ r.state_ = "Disabled" /\ r.waiters = {}
        /\ ~r.identityUnsupported_ /\ r.shutdown_ = k.shutdown_
        /\ r.active_ = NoGuard /\ r.pending_ = NoGuard
        /\ r.closing = k.closing \cup ({k.active_, k.pending_} \ {NoGuard})
    BY <2>1, TurnOffLemma
  <2> HIDE DEF r
  <2>3. Coherent(r) /\ Refusing(r)
    BY <1>2, <2>2 DEF Coherent, Refusing
  <2>4. Slots(r)
    BY <1>2, <2>2 DEF Slots
  <2> QED BY <1>2, <2>2, <2>3, <2>4 DEF Sound, r
<1>3. CASE ~k.shutdown_ /\ on /\ overridden_
  <2> DEFINE q == closeActive(closePending(k))
  <2>1. closePending(k) \in Fields
    BY ClosePendingLemma
  <2>2. /\ q \in Fields /\ q.shutdown_ = k.shutdown_
        /\ q.active_ = NoGuard /\ q.pending_ = NoGuard
        /\ q.closing = k.closing \cup ({k.active_, k.pending_} \ {NoGuard})
    BY <2>1, ClosePendingLemma, CloseActiveLemma
  <2>3. r = fail(q, "overridden")
    BY <1>3 DEF apply, refuseOverridden
  <2> HIDE DEF q
  <2>4. /\ r \in Fields /\ r.state_ = "Failed" /\ r.shutdown_ = k.shutdown_
        /\ r.active_ = NoGuard /\ r.pending_ = NoGuard /\ r.closing = q.closing
        /\ "settled" \notin r.waiters /\ "idle" \notin r.waiters
    BY <2>2, <2>3, FailLemma DEF Codes
  <2> HIDE DEF r
  <2>5. Coherent(r) /\ Refusing(r)
    BY <1>3, <2>4 DEF Coherent, Refusing
  <2>6. Slots(r)
    BY <1>3, <2>2, <2>4 DEF Slots
  <2> QED BY <1>3, <2>4, <2>5, <2>6 DEF Sound, r
<1>4. CASE ~k.shutdown_ /\ on /\ ~overridden_
  <2> DEFINE q == IF k.identityUnsupported_ /\ k.state_ = "Armed" THEN failIdentity(k) ELSE k
  <2>1. /\ q \in Fields /\ q.shutdown_ = k.shutdown_ /\ q.identityUnsupported_ = k.identityUnsupported_
        /\ q.active_ = k.active_ /\ q.pending_ = k.pending_ /\ q.closing = k.closing
        /\ q.state_ = IF k.identityUnsupported_ /\ k.state_ = "Armed" THEN "Failed" ELSE k.state_
        /\ "settled" \in q.waiters => q.state_ = "Arming"
        /\ "idle" \in q.waiters => q.pending_ # NoGuard
    <3>1. CASE k.identityUnsupported_ /\ k.state_ = "Armed"
      <4>1. q = fail(k, "unsupported") /\ "unsupported" \in Codes
        BY <3>1, FailIdentityLemma DEF Codes
      <4> HIDE DEF q
      <4> QED BY <3>1, <4>1, FailLemma
    <3>2. CASE ~(k.identityUnsupported_ /\ k.state_ = "Armed")
      BY <3>2 DEF Coherent
    <3> QED BY <3>1, <3>2
  <2> HIDE DEF q
  <2>2. Coherent(q) /\ Slots(q)
    BY <1>4, <2>1 DEF Coherent, Slots
  <2>3. Refusing(q)
    BY <1>4, <2>1 DEF Refusing, Fields, KillSwitchFields, States
  <2>4. q.state_ = "Disabled" => q.active_ = NoGuard /\ q.pending_ = NoGuard /\ ~q.identityUnsupported_
    BY <1>4, <2>1, <2>2 DEF Coherent
  <2>5. CASE q.pending_ # NoGuard /\ q.config[q.pending_] = c
    <3>1. r = q
      BY <1>4, <2>5 DEF apply, q
    <3> QED BY <1>4, <2>1, <2>2, <2>3, <2>4, <2>5, <3>1 DEF Sound
  <2>6. CASE /\ ~(q.pending_ # NoGuard /\ q.config[q.pending_] = c)
             /\ q.active_ # NoGuard /\ q.config[q.active_] = c
    <3>1. CASE q.pending_ = NoGuard
      <4>1. r = q
        BY <1>4, <2>6, <3>1 DEF apply, q
      <4> QED BY <1>4, <2>1, <2>2, <2>3, <2>4, <2>6, <4>1 DEF Sound
    <3>2. CASE q.pending_ # NoGuard
      <4>1. r = settle(closePending(q))
        BY <1>4, <2>6, <3>2 DEF apply, q
      <4>2. closePending(q) \in Fields
        BY <2>1, ClosePendingLemma
      <4>3. /\ r \in Fields /\ r.state_ = q.state_ /\ r.shutdown_ = q.shutdown_
            /\ r.identityUnsupported_ = q.identityUnsupported_
            /\ r.active_ = q.active_ /\ r.pending_ = NoGuard
            /\ r.closing = q.closing \cup {q.pending_}
            /\ "settled" \in r.waiters => r.state_ = "Arming"
            /\ "idle" \notin r.waiters
        BY <2>1, <3>2, <4>1, <4>2, ClosePendingLemma, SettleLemma
      <4> HIDE DEF r
      <4>4. Coherent(r) /\ Refusing(r)
        BY <1>4, <2>1, <2>2, <2>3, <2>6, <4>3 DEF Coherent, Refusing
      <4>5. Slots(r)
        BY <2>1, <2>2, <2>6, <4>3 DEF Slots
      <4> QED BY <1>4, <2>1, <2>4, <2>6, <4>3, <4>4, <4>5 DEF Sound, r
    <3> QED BY <3>1, <3>2
  <2>7. CASE /\ ~(q.pending_ # NoGuard /\ q.config[q.pending_] = c)
             /\ ~(q.active_ # NoGuard /\ q.config[q.active_] = c)
    <3>1. r = spawn(q, c)
      BY <1>4, <2>7 DEF apply, q
    <3>2. freshSlot \in FreeSlots /\ freshSlot \in Guards /\ freshSlot # NoGuard
      BY FreshSlot, GuardsAssumption
    <3>3. /\ r \in Fields
          /\ r.state_ = IF q.active_ = NoGuard /\ ~q.identityUnsupported_ THEN "Arming" ELSE q.state_
          /\ r.identityUnsupported_ = q.identityUnsupported_ /\ r.shutdown_ = q.shutdown_
          /\ r.active_ = q.active_ /\ r.pending_ = freshSlot /\ r.waiters = q.waiters
          /\ r.closing = q.closing \cup ({q.pending_} \ {NoGuard})
      BY <2>1, <3>1, SpawnLemma
    <3> HIDE DEF r
    <3>4. Coherent(r)
      BY <1>4, <2>1, <2>2, <2>4, <3>2, <3>3 DEF Coherent
    <3>5. Refusing(r)
      BY <1>4, <2>1, <2>3, <3>3 DEF Refusing
    <3>6. Slots(r)
      BY <2>1, <2>2, <3>2, <3>3, GuardsAssumption DEF Slots
    <3> QED BY <1>4, <2>1, <2>4, <3>2, <3>3, <3>4, <3>5, <3>6 DEF Sound, r
  <2> QED BY <2>5, <2>6, <2>7
<1> QED BY <1>1, <1>2, <1>3, <1>4

\* A guard that failed or left is in the closing set and in no role afterwards, whatever
\* the reaction: another attempt, the kept guard, Failed, or Disabled if the setting is off.
LEMMA LoseLemma ==
    ASSUME NEW k \in Fields, NEW g \in Guards, NEW code \in Codes,
           Sound(k), k.pending_ \notin FreeSlots, g \notin FreeSlots,
           g = k.active_ => SlotLeft,
           kill_switch \in BOOLEAN, cfg \in Configs
    PROVE  LET r == lose(k, g, code) IN
           /\ Sound(r)
           /\ g \in r.closing /\ g \notin {r.active_, r.pending_}
           /\ r.pending_ \in {k.pending_, NoGuard} \cup FreeSlots
           /\ r.shutdown_ = k.shutdown_
           /\ ~k.shutdown_ /\ kill_switch /\ k.state_ # "Disabled" => r.state_ # "Disabled"
<1> DEFINE r == lose(k, g, code)
<1> USE GuardsAssumption
<1>1. CASE g \in k.closing
  BY <1>1 DEF lose, Sound, Slots
<1>2. CASE g \notin k.closing
  <2> DEFINE q == [closeGuard(k, g) EXCEPT !.active_ = IF @ = g THEN NoGuard ELSE @,
                                           !.pending_ = IF @ = g THEN NoGuard ELSE @]
  <2>1. /\ q \in Fields /\ q.state_ = k.state_ /\ q.shutdown_ = k.shutdown_ /\ q.waiters = k.waiters
        /\ q.identityUnsupported_ = k.identityUnsupported_
        /\ q.active_ = IF k.active_ = g THEN NoGuard ELSE k.active_
        /\ q.pending_ = IF k.pending_ = g THEN NoGuard ELSE k.pending_
        /\ q.closing = k.closing \cup {g}
    BY DEF closeGuard, Fields, KillSwitchFields
  <2>2. r = IF g = k.active_ THEN protectionLost(q, code)
            ELSE IF g = k.pending_ THEN armFailed(q, code) ELSE q
    BY <1>2 DEF lose
  <2> HIDE DEF q
  <2>3. g \in {k.active_, k.pending_} /\ ~k.shutdown_
    BY <1>2 DEF Sound, Slots, Coherent
  <2>4. k.active_ # k.pending_ /\ Slots(q)
    BY <2>1, <2>3 DEF Sound, Slots, Coherent
  <2>5. /\ "settled" \in k.waiters => k.state_ = "Arming"
        /\ "idle" \in k.waiters => k.pending_ # NoGuard
        /\ k.state_ # "Disabled"
    BY <2>3 DEF Sound, Coherent
  <2>6. CASE g = k.pending_
    <3>1. r = armFailed(q, code)
      BY <2>2, <2>4, <2>6
    <3>2. CASE q.active_ # NoGuard
      <4> DEFINE p == [q EXCEPT !.retry = @ \/ Recoverable(code)]
      <4>1. /\ p \in Fields /\ p.state_ = q.state_ /\ p.shutdown_ = q.shutdown_ /\ p.waiters = q.waiters
            /\ p.identityUnsupported_ = q.identityUnsupported_
            /\ p.active_ = q.active_ /\ p.pending_ = q.pending_ /\ p.closing = q.closing
        BY <2>1 DEF Fields, KillSwitchFields, Recoverable
      <4>2. r = settle(p)
        BY <3>1, <3>2 DEF armFailed
      <4> HIDE DEF p
      <4>3. /\ r \in Fields /\ r.state_ = k.state_ /\ r.shutdown_ = k.shutdown_
            /\ r.identityUnsupported_ = k.identityUnsupported_
            /\ r.active_ = k.active_ /\ r.pending_ = NoGuard /\ r.closing = q.closing
            /\ "settled" \in r.waiters => k.state_ = "Arming"
            /\ "idle" \notin r.waiters
        BY <2>1, <2>4, <2>6, <4>1, <4>2, SettleLemma
      <4> HIDE DEF r
      <4>4. Coherent(r) /\ Refusing(r)
        BY <2>1, <2>3, <3>2, <4>3 DEF Sound, Coherent, Refusing
      <4>5. Slots(r)
        BY <2>1, <2>4, <2>6, <4>3 DEF Slots
      <4> QED BY <2>1, <2>4, <2>5, <2>6, <4>3, <4>4, <4>5 DEF Sound, r
    <3>3. CASE q.active_ = NoGuard
      <4>1. r = fail(q, code)
        BY <3>1, <3>3 DEF armFailed
      <4>2. /\ r \in Fields /\ r.state_ = "Failed" /\ r.shutdown_ = k.shutdown_
            /\ r.active_ = NoGuard /\ r.pending_ = NoGuard /\ r.closing = q.closing
            /\ "settled" \notin r.waiters /\ "idle" \notin r.waiters
        BY <2>1, <2>6, <3>3, <4>1, FailLemma
      <4> HIDE DEF r
      <4>3. Coherent(r) /\ Refusing(r)
        BY <2>3, <4>2 DEF Coherent, Refusing
      <4>4. Slots(r)
        BY <2>1, <2>4, <2>6, <3>3, <4>2 DEF Slots
      <4> QED BY <2>1, <4>2, <4>3, <4>4 DEF Sound, r
    <3> QED BY <3>2, <3>3
  <2>7. CASE g = k.active_
    <3>1. r = protectionLost(q, code) /\ q.active_ = NoGuard /\ q.pending_ = k.pending_
      BY <2>1, <2>2, <2>4, <2>7
    <3>2. k.state_ # "Arming" /\ "settled" \notin k.waiters /\ SlotLeft
      BY <2>3, <2>7 DEF Sound, Coherent
    <3>3. k.identityUnsupported_ => k.state_ = "Failed"
      BY <2>3, <3>2 DEF Sound, Refusing
    <3>4. CASE ~kill_switch
      <4>1. r = turnOff(q)
        BY <2>1, <2>3, <3>1, <3>4 DEF protectionLost, apply
      <4>2. /\ r \in Fields
            /\ r.state_ = "Disabled" /\ r.waiters = {}
            /\ ~r.identityUnsupported_ /\ r.shutdown_ = k.shutdown_
            /\ r.active_ = NoGuard /\ r.pending_ = NoGuard
            /\ r.closing = k.closing \cup {g} \cup ({k.pending_} \ {NoGuard})
        BY <2>1, <3>1, <4>1, TurnOffLemma
      <4> HIDE DEF r
      <4>3. Coherent(r) /\ Refusing(r)
        BY <2>3, <4>2 DEF Coherent, Refusing
      <4>4. Slots(r)
        BY <2>1, <2>4, <3>1, <4>2 DEF Slots
      <4> QED BY <3>4, <4>2, <4>3, <4>4 DEF Sound, r
    <3>5. CASE kill_switch /\ q.pending_ # NoGuard
      <4> DEFINE p == IF q.identityUnsupported_ THEN q ELSE setState(q, "Arming")
      <4>1. /\ p \in Fields /\ p.shutdown_ = k.shutdown_ /\ p.identityUnsupported_ = k.identityUnsupported_
            /\ p.state_ = IF k.identityUnsupported_ THEN k.state_ ELSE "Arming"
            /\ p.active_ = NoGuard /\ p.pending_ = k.pending_ /\ p.closing = q.closing
        <5>1. "Arming" \in States
          BY DEF States
        <5> QED BY <2>1, <3>1, <5>1, SetStateLemma
      <4>2. r = settle(p)
        BY <2>1, <2>3, <3>1, <3>5 DEF protectionLost
      <4> HIDE DEF p
      <4>3. /\ r \in Fields /\ r.shutdown_ = k.shutdown_ /\ r.identityUnsupported_ = k.identityUnsupported_
            /\ r.state_ = IF k.identityUnsupported_ THEN "Failed" ELSE "Arming"
            /\ r.active_ = NoGuard /\ r.pending_ = k.pending_ /\ r.closing = q.closing
            /\ "settled" \in r.waiters => r.state_ = "Arming"
        BY <3>3, <4>1, <4>2, SettleLemma
      <4> HIDE DEF r
      <4>4. Coherent(r) /\ Refusing(r)
        BY <2>3, <3>1, <3>5, <4>3 DEF Coherent, Refusing
      <4>5. Slots(r)
        BY <2>1, <2>4, <3>1, <4>3 DEF Slots
      <4> QED BY <2>1, <2>4, <2>7, <4>3, <4>4, <4>5 DEF Sound, r
    <3>6. CASE kill_switch /\ q.pending_ = NoGuard /\ Recoverable(code) /\ ~q.respawned
      <4> DEFINE p == [q EXCEPT !.respawned = TRUE]
      <4>1. /\ p \in Fields /\ p.state_ = k.state_ /\ p.shutdown_ = k.shutdown_ /\ p.waiters = k.waiters
            /\ p.identityUnsupported_ = k.identityUnsupported_
            /\ p.active_ = NoGuard /\ p.pending_ = NoGuard /\ p.closing = q.closing
        BY <2>1, <3>1, <3>6 DEF Fields, KillSwitchFields
      <4>2. r = spawn(p, cfg)
        BY <2>1, <2>3, <3>1, <3>6 DEF protectionLost
      <4> HIDE DEF p
      <4>3. /\ r \in Fields /\ r.shutdown_ = k.shutdown_ /\ r.identityUnsupported_ = k.identityUnsupported_
            /\ r.state_ = IF k.identityUnsupported_ THEN "Failed" ELSE "Arming"
            /\ r.active_ = NoGuard /\ r.pending_ = freshSlot /\ r.closing = q.closing
            /\ r.waiters = k.waiters
        <5>1. /\ r \in Fields
              /\ r.state_ = IF p.active_ = NoGuard /\ ~p.identityUnsupported_ THEN "Arming" ELSE p.state_
              /\ r.identityUnsupported_ = p.identityUnsupported_ /\ r.shutdown_ = p.shutdown_
              /\ r.active_ = p.active_ /\ r.pending_ = freshSlot /\ r.waiters = p.waiters
              /\ r.closing = p.closing \cup ({p.pending_} \ {NoGuard})
          BY <3>2, <4>1, <4>2, SpawnLemma
        <5> HIDE DEF r
        <5> QED BY <3>3, <4>1, <5>1
      <4>4. freshSlot \in FreeSlots /\ freshSlot \in Guards /\ freshSlot # NoGuard
        BY <3>2, FreshSlot
      <4> HIDE DEF r
      <4>5. Coherent(r) /\ Refusing(r)
        BY <2>3, <3>2, <4>3, <4>4 DEF Coherent, Refusing
      <4>6. Slots(r)
        BY <2>1, <2>4, <3>1, <3>6, <4>3, <4>4 DEF Slots
      <4> QED BY <2>1, <4>3, <4>4, <4>5, <4>6 DEF Sound, r
    <3>7. CASE kill_switch /\ q.pending_ = NoGuard /\ ~(Recoverable(code) /\ ~q.respawned)
      <4>1. r = fail(q, code)
        BY <2>1, <2>3, <3>1, <3>7 DEF protectionLost
      <4>2. /\ r \in Fields /\ r.state_ = "Failed" /\ r.shutdown_ = k.shutdown_
            /\ r.active_ = NoGuard /\ r.pending_ = NoGuard /\ r.closing = q.closing
            /\ "settled" \notin r.waiters /\ "idle" \notin r.waiters
        BY <2>1, <3>1, <3>7, <4>1, FailLemma
      <4> HIDE DEF r
      <4>3. Coherent(r) /\ Refusing(r)
        BY <2>3, <4>2 DEF Coherent, Refusing
      <4>4. Slots(r)
        BY <2>1, <2>4, <3>1, <3>7, <4>2 DEF Slots
      <4> QED BY <2>1, <4>2, <4>3, <4>4 DEF Sound, r
    <3> QED BY <3>4, <3>5, <3>6, <3>7
  <2> QED BY <2>3, <2>6, <2>7
<1> QED BY <1>1, <1>2

\* onReady() makes the pending guard the active one and lets the previous one go.
LEMMA OnReadyLemma ==
    ASSUME NEW k \in Fields, NEW g \in Guards, Sound(k), k.pending_ \notin FreeSlots
    PROVE  LET r == onReady(k, g) IN
           /\ Sound(r)
           /\ r.pending_ \in {k.pending_, NoGuard}
           /\ r.shutdown_ = k.shutdown_
           /\ k.state_ # "Disabled" => r.state_ # "Disabled"
<1> DEFINE r == onReady(k, g)
           q == [closeActive(k) EXCEPT !.active_ = g, !.pending_ = NoGuard]
<1> USE GuardsAssumption
<1>1. CASE g # k.pending_
  BY <1>1 DEF onReady
<1>2. CASE g = k.pending_
  <2>1. ~k.shutdown_
    BY <1>2 DEF Sound, Coherent
  <2>2. /\ q \in Fields /\ q.shutdown_ = k.shutdown_ /\ q.identityUnsupported_ = k.identityUnsupported_
        /\ q.active_ = g /\ q.pending_ = NoGuard
        /\ q.closing = k.closing \cup ({k.active_} \ {NoGuard})
    BY CloseActiveLemma DEF Fields, KillSwitchFields
  <2>3. r = IF k.identityUnsupported_ THEN failIdentity(q) ELSE settle(setState(q, "Armed"))
    BY <1>2 DEF onReady
  <2> HIDE DEF q
  <2>4. /\ r \in Fields /\ r.shutdown_ = k.shutdown_ /\ r.identityUnsupported_ = k.identityUnsupported_
        /\ r.active_ = g /\ r.pending_ = NoGuard /\ r.closing = q.closing
        /\ r.state_ = IF k.identityUnsupported_ THEN "Failed" ELSE "Armed"
        /\ "settled" \notin r.waiters /\ "idle" \notin r.waiters
    <3>1. CASE k.identityUnsupported_
      <4>1. r = fail(q, "unsupported") /\ "unsupported" \in Codes
        BY <2>2, <2>3, <3>1, FailIdentityLemma DEF Codes
      <4> HIDE DEF r
      <4> QED BY <2>2, <3>1, <4>1, FailLemma
    <3>2. CASE ~k.identityUnsupported_
      <4>1. r = settle(setState(q, "Armed")) /\ "Armed" \in States
        BY <2>3, <3>2 DEF States
      <4>2. setState(q, "Armed") \in Fields
        BY <2>2, <4>1, SetStateLemma
      <4> HIDE DEF r
      <4> QED BY <2>2, <3>2, <4>1, <4>2, SetStateLemma, SettleLemma
    <3> QED BY <3>1, <3>2
  <2> HIDE DEF r
  <2>5. Coherent(r) /\ Refusing(r)
    BY <2>1, <2>4 DEF Coherent, Refusing
  <2>6. Slots(r)
    BY <1>2, <2>2, <2>4 DEF Sound, Slots
  <2> QED BY <2>4, <2>5, <2>6 DEF Sound, r
<1> QED BY <1>1, <1>2

\* A handler that ends in sound fields, and gave at most a free slot to a new guard.
LEMMA FinishLemma ==
    ASSUME proc \in [Guards -> ProcStates], ks.pending_ \notin FreeSlots,
           NEW r, Sound(r), r.pending_ \in {ks.pending_, NoGuard} \cup FreeSlots,
           Finish(r, proc)
    PROVE  /\ ks' = r /\ proc' \in [Guards -> ProcStates]
           /\ ks' \in Fields /\ Coherent(ks') /\ Refusing(ks') /\ Slots(ks)'
           /\ ks'.pending_ \notin FreeSlots'
<1> USE GuardsAssumption
<1>1. ks' = r /\ r \in Fields
  BY DEF Finish, Sound
<1>2. CASE r.pending_ \notin FreeSlots
  <2>1. proc' = proc /\ FreeSlots' = FreeSlots
    BY <1>2 DEF Finish, FreeSlots
  <2> QED BY <1>1, <1>2, <2>1 DEF Sound, Slots
<1>3. CASE r.pending_ \in FreeSlots
  <2>1. r.pending_ \in Guards
    BY <1>3 DEF FreeSlots
  <2>2. proc' = [proc EXCEPT ![r.pending_] = "launching"]
    BY <1>3 DEF Finish
  <2>3. proc' \in [Guards -> ProcStates] /\ FreeSlots' = FreeSlots \ {r.pending_}
    BY <2>1, <2>2 DEF FreeSlots, ProcStates
  <2> QED BY <1>1, <2>1, <2>3 DEF Sound, Slots
<1> QED BY <1>2, <1>3

\* The same for a handler that also deletes the guard g, which it has let go.
LEMMA FinishDeletedLemma ==
    ASSUME proc \in [Guards -> ProcStates], ks.pending_ \notin FreeSlots,
           NEW r, Sound(r), r.pending_ \in {ks.pending_, NoGuard} \cup FreeSlots,
           NEW g \in Guards, g \in r.closing, g \notin {r.active_, r.pending_}, g \notin FreeSlots,
           Finish(deleteLater(r, g), [proc EXCEPT ![g] = "free"])
    PROVE  /\ ks' = deleteLater(r, g) /\ proc' \in [Guards -> ProcStates]
           /\ ks' \in Fields /\ Coherent(ks') /\ Refusing(ks') /\ Slots(ks)'
           /\ ks'.pending_ \notin FreeSlots'
           /\ ks'.state_ = r.state_ /\ ks'.shutdown_ = r.shutdown_
<1> USE GuardsAssumption
<1> DEFINE d == deleteLater(r, g)
<1>1. /\ ks' = d /\ d \in Fields
      /\ d.state_ = r.state_ /\ d.shutdown_ = r.shutdown_ /\ d.waiters = r.waiters
      /\ d.identityUnsupported_ = r.identityUnsupported_
      /\ d.active_ = r.active_ /\ d.pending_ = r.pending_ /\ d.closing = r.closing \ {g}
  BY DEF Finish, Sound, deleteLater, Fields, KillSwitchFields
<1>2. proc' = IF d.pending_ \in FreeSlots
              THEN [[proc EXCEPT ![g] = "free"] EXCEPT ![d.pending_] = "launching"]
              ELSE [proc EXCEPT ![g] = "free"]
  BY DEF Finish
<1> HIDE DEF d
<1>3. Coherent(ks') /\ Refusing(ks')
  BY <1>1 DEF Sound, Coherent, Refusing
<1>4. /\ proc' \in [Guards -> ProcStates]
      /\ FreeSlots' = (FreeSlots \cup {g}) \ {d.pending_}
  <2>1. d.pending_ # g
    BY <1>1
  <2>2. CASE d.pending_ \notin FreeSlots
    BY <1>2, <2>1, <2>2 DEF FreeSlots, ProcStates
  <2>3. CASE d.pending_ \in FreeSlots
    <3>1. d.pending_ \in Guards
      BY <2>3 DEF FreeSlots
    <3> QED BY <1>2, <2>1, <2>3, <3>1 DEF FreeSlots, ProcStates
  <2> QED BY <2>2, <2>3
<1>5. Slots(ks)'
  BY <1>1, <1>4 DEF Sound, Slots
<1>6. ks'.pending_ \notin FreeSlots'
  BY <1>1, <1>4
<1> QED BY <1>1, <1>3, <1>4, <1>5, <1>6 DEF d

-----------------------------------------------------------------------------
\* The invariant holds at the start.
LEMMA InitLemma == Init => IndInv /\ OutputEnds
<1> SUFFICES ASSUME Init PROVE IndInv /\ OutputEnds
  OBVIOUS
<1>1. NewKillSwitch \in Fields
  BY DEF NewKillSwitch, Fields, KillSwitchFields, States, WaiterKinds
<1>2. /\ events \in 0..MaxEvents
      /\ out \in [Guards -> Seq(Lines)] /\ proc \in [Guards -> ProcStates]
  BY BoundAssumption DEF Init, ProcStates
<1>a. TypeOK
  BY <1>1, <1>2, Zenon DEF Init, TypeOK, Fields
<1>3. ks = NewKillSwitch /\ FreeSlots = Guards
  BY DEF Init, FreeSlots
<1>4. Coherent(ks) /\ Refusing(ks) /\ Slots(ks) /\ ks.pending_ \notin FreeSlots
  BY <1>3, GuardsAssumption DEF NewKillSwitch, Coherent, Refusing, Slots
<1>b. OutputEnds
  <2>1. ASSUME NEW g \in Guards
        PROVE  out[g] = <<>> /\ DOMAIN out[g] = {}
    BY DEF Init
  <2> QED BY <2>1, Zenon DEF OutputEnds
<1> QED BY <1>a, <1>b, <1>4 DEF IndInv, Init, Running

\* An event from outside stays within the bound.
LEMMA EventLemma ==
    ASSUME TypeOK, Event PROVE events' \in 0..MaxEvents
BY BoundAssumption DEF TypeOK, Event

\* A step that leaves the fields alone and frees and takes no slot keeps IndInv, as long
\* as it does not unmake an outstanding apply().
LEMMA FrameLemma ==
    ASSUME IndInv, TypeOK', ks' = ks, gui' = gui, FreeSlots' = FreeSlots,
           kill_switch' /\ ~applyQueued' => kill_switch /\ ~applyQueued
    PROVE  IndInv'
BY DEF IndInv, Coherent, Refusing, Slots, Running, Up

\* What IndInv says of the fields while the GUI runs.
LEMMA UpLemma ==
    ASSUME IndInv, Up
    PROVE  Sound(ks) /\ ks \in Fields /\ ks.pending_ \notin FreeSlots
BY DEF IndInv, TypeOK, Sound, Fields

\* The handlers that run apply() on the fields k, which differ from ks at most in the
\* identity and retry flags, with the settings on and c as they are after the step.
LEMMA ApplyStep ==
    ASSUME IndInv, Up, SlotLeft, NEW on \in BOOLEAN, NEW c \in Configs,
           NEW k \in Fields, Coherent(k), Slots(k),
           k.pending_ = ks.pending_, k.shutdown_ = ks.shutdown_,
           ~k.shutdown_ /\ k.identityUnsupported_ /\ on => k.state_ # "Disabled",
           k.shutdown_ => Sound(k),
           Finish(apply(k, on, c), proc)
    PROVE  /\ proc' \in [Guards -> ProcStates]
           /\ ks' \in Fields /\ Coherent(ks') /\ Refusing(ks') /\ Slots(ks)'
           /\ ks'.pending_ \notin FreeSlots'
           /\ on /\ ~ks'.shutdown_ => ks'.state_ # "Disabled"
<1> DEFINE r == apply(k, on, c)
<1>1. ks.pending_ \notin FreeSlots /\ proc \in [Guards -> ProcStates]
  BY DEF IndInv, TypeOK
<1>2. /\ Sound(r)
      /\ r.pending_ \in {ks.pending_, NoGuard} \cup FreeSlots
      /\ r.shutdown_ = k.shutdown_
      /\ on /\ ~k.shutdown_ => r.state_ # "Disabled"
  BY <1>1, ApplyLemma
<1> HIDE DEF r
<1> QED BY <1>1, <1>2, FinishLemma DEF r

\* What a guard prints before its exit is not its exit.
LEMMA LineLemma ==
    /\ Ready # Exit
    /\ \A c : ErrorLine(c) # Exit /\ FailLine(c) # Exit
    /\ {Ready, Exit} \subseteq Lines
    /\ \A c \in GuardCodes : {ErrorLine(c), FailLine(c)} \subseteq Lines
<1>1. Ready.verb # Exit.verb
  BY DEF Ready, Exit
<1>2. \A c : ErrorLine(c).verb # Exit.verb /\ FailLine(c).verb # Exit.verb
  BY DEF ErrorLine, FailLine, Exit
<1>3. \A c \in GuardCodes : {ErrorLine(c), FailLine(c)} \subseteq Lines
  BY DEF Lines, ErrorLine, FailLine
<1> QED BY <1>1, <1>2, <1>3 DEF Lines

\* The guard g lives, prints lines of which at most the last is its exit, and moves to st.
Reports(g, lines, st) ==
    /\ lines \in Seq(Lines) /\ st \in ProcStates \ {"free", "launching"}
    /\ proc[g] \in Live
    /\ \A i \in DOMAIN lines : lines[i] = Exit => i = Len(lines) /\ st = "exited"
    /\ Report(g, lines, st)

\* Every step of a guard process is such a report.
LEMMA GuardStepLemma ==
    ASSUME GuardStep PROVE \E g \in Guards : \E lines, st : Reports(g, lines, st)
<1>1. PICK g \in Guards :
          \/ ReadConfigFails(g) \/ ArmSucceeds(g) \/ RulesRemoved(g) \/ FatalEvent(g) \/ FatalExit(g)
          \/ DisarmAndExit(g) \/ Die(g) \/ stopHard(g)
          \/ \E code \in GuardCodes : ArmFails(g, code)
  BY DEF GuardStep
<1> DEFINE Ending(lines, st) ==
      \A i \in DOMAIN lines : lines[i] = Exit => i = Len(lines) /\ st = "exited"
<1>2. ASSUME NEW l \in Lines, l # Exit, NEW st
      PROVE  /\ <<l>> \in Seq(Lines) /\ Ending(<<l>>, st)
             /\ <<l, Exit>> \in Seq(Lines) /\ Ending(<<l, Exit>>, "exited")
  BY <1>2, LineLemma
<1>3. <<Exit>> \in Seq(Lines) /\ Ending(<<Exit>>, "exited")
  BY LineLemma
<1>4. \A st : <<>> \in Seq(Lines) /\ Ending(<<>>, st)
  OBVIOUS
<1> HIDE DEF Ending
<1>5. "privilege" \in GuardCodes /\ "internal" \in GuardCodes
  BY DEF GuardCodes
<1>6. ReadConfigFails(g) => Reports(g, <<ErrorLine("privilege"), Exit>>, "exited")
  BY <1>2, <1>5, LineLemma DEF ReadConfigFails, ProcStates, Live, Reports, Ending
<1>7. ArmSucceeds(g) => Reports(g, <<Ready>>, "enforcing")
  BY <1>2, LineLemma DEF ArmSucceeds, ProcStates, Live, Reports, Ending
<1>8. ASSUME NEW code \in GuardCodes, ArmFails(g, code)
      PROVE  Reports(g, <<ErrorLine(code), Exit>>, "exited")
  BY <1>2, <1>8, LineLemma DEF ArmFails, ProcStates, Live, Reports, Ending
<1>9. RulesRemoved(g) => Reports(g, <<>>, "breached")
  BY <1>4 DEF RulesRemoved, ProcStates, Live, Reports, Ending
<1>10. FatalEvent(g) => Reports(g, <<FailLine("internal")>>, "failing")
  BY <1>2, <1>5, LineLemma DEF FatalEvent, ProcStates, Live, Reports, Ending
<1>11. FatalExit(g) \/ DisarmAndExit(g) \/ Die(g) \/ stopHard(g) => Reports(g, <<Exit>>, "exited")
  BY <1>3 DEF FatalExit, DisarmAndExit, Die, stopHard, Live, ProcStates, Reports, Ending
<1> QED BY <1>1, <1>6, <1>7, <1>8, <1>9, <1>10, <1>11

\* Every step keeps the invariant.
LEMMA StepLemma == IndInv /\ OutputEnds /\ [Next]_vars => IndInv'
<1> SUFFICES ASSUME IndInv, OutputEnds, [Next]_vars PROVE IndInv'
  OBVIOUS
<1> USE DEF Fields
<1>t. TypeOK
  BY DEF IndInv
<1>s. UNCHANGED vars => IndInv'
  BY DEF vars, settings, queued, IndInv, TypeOK, Coherent, Refusing, Slots, FreeSlots, Running, Up
<1>1. ASSUME NEW on \in BOOLEAN, NEW c \in Configs, ChangeSettings(on, c) PROVE IndInv'
  <2>1. Up /\ SlotLeft
    BY <1>1 DEF ChangeSettings, Change
  <2>2. Sound(ks) /\ Finish(apply(ks, on, c), proc)
    BY <1>1, <2>1, UpLemma DEF ChangeSettings
  <2>3. /\ proc' \in [Guards -> ProcStates]
        /\ ks' \in Fields /\ Coherent(ks') /\ Refusing(ks') /\ Slots(ks)'
        /\ ks'.pending_ \notin FreeSlots'
        /\ on /\ ~ks'.shutdown_ => ks'.state_ # "Disabled"
    BY <2>1, <2>2, ApplyStep DEF Sound, Refusing
  <2>4. TypeOK'
    <3>1. events' \in 0..MaxEvents
      BY <1>1, <1>t, EventLemma DEF ChangeSettings, Change
    <3> QED BY <1>1, <1>t, <2>3, <3>1, Zenon DEF TypeOK, ChangeSettings, Change, queued
  <2> QED BY <1>1, <2>3, <2>4 DEF IndInv, Running, ChangeSettings, Change
<1>2. ASSUME NEW on \in BOOLEAN, NEW c \in Configs, AcceptDialog(on, c) PROVE IndInv'
  <2>1. TypeOK'
    <3>1. events' \in 0..MaxEvents
      BY <1>2, <1>t, EventLemma DEF AcceptDialog, Change
    <3> QED BY <1>2, <1>t, <3>1, Zenon DEF TypeOK, AcceptDialog, Change
  <2>2. ks' = ks /\ gui' = gui /\ FreeSlots' = FreeSlots /\ applyQueued'
    BY <1>2 DEF AcceptDialog, FreeSlots
  <2> QED BY <2>1, <2>2, FrameLemma
<1>3. ASSUME RunQueuedApply PROVE IndInv'
  <2>1. Up /\ SlotLeft /\ kill_switch \in BOOLEAN /\ cfg \in Configs
    BY <1>3, <1>t DEF RunQueuedApply, TypeOK
  <2>2. Sound(ks) /\ Finish(apply(ks, kill_switch, cfg), proc)
    BY <1>3, <2>1, UpLemma DEF RunQueuedApply
  <2>3. /\ proc' \in [Guards -> ProcStates]
        /\ ks' \in Fields /\ Coherent(ks') /\ Refusing(ks') /\ Slots(ks)'
        /\ ks'.pending_ \notin FreeSlots'
        /\ kill_switch /\ ~ks'.shutdown_ => ks'.state_ # "Disabled"
    BY <2>1, <2>2, ApplyStep DEF Sound, Refusing
  <2>4. TypeOK'
    BY <1>3, <1>t, <2>3 DEF TypeOK, RunQueuedApply, settings
  <2> QED BY <1>3, <2>3, <2>4 DEF IndInv, Running, RunQueuedApply, settings
<1>4. ASSUME NEW c \in Configs, SetApiPort(c) PROVE IndInv'
  <2>1. TypeOK'
    <3>1. events' \in 0..MaxEvents
      BY <1>4, <1>t, EventLemma DEF SetApiPort, Change
    <3> QED BY <1>4, <1>t, <3>1, Zenon DEF TypeOK, SetApiPort, Change
  <2>2. /\ ks' = ks /\ gui' = gui /\ FreeSlots' = FreeSlots
        /\ kill_switch' = kill_switch /\ applyQueued' = applyQueued
    BY <1>4 DEF SetApiPort, Change, FreeSlots
  <2> QED BY <2>1, <2>2, FrameLemma
<1>5. ASSUME RunQueuedPort PROVE IndInv'
  <2>1. Up /\ SlotLeft /\ kill_switch \in BOOLEAN /\ cfg \in Configs
    BY <1>5, <1>t DEF RunQueuedPort, TypeOK
  <2>2. Sound(ks) /\ proc \in [Guards -> ProcStates] /\ ks.pending_ \notin FreeSlots
    BY <2>1, <1>t, UpLemma DEF TypeOK
  <2>3. CASE Finish(apply(ks, kill_switch, cfg), proc)
    <3>1. /\ proc' \in [Guards -> ProcStates]
          /\ ks' \in Fields /\ Coherent(ks') /\ Refusing(ks') /\ Slots(ks)'
          /\ ks'.pending_ \notin FreeSlots'
          /\ kill_switch /\ ~ks'.shutdown_ => ks'.state_ # "Disabled"
      BY <2>1, <2>2, <2>3, ApplyStep DEF Sound, Refusing
    <3>2. TypeOK'
      BY <1>5, <1>t, <3>1, Zenon DEF TypeOK, RunQueuedPort, settings
    <3> QED BY <1>5, <3>1, <3>2 DEF IndInv, Running, RunQueuedPort, settings
  <2>4. CASE UNCHANGED <<ks, proc>>
    <3>1. TypeOK'
      BY <1>5, <1>t, <2>4, Zenon DEF TypeOK, RunQueuedPort, settings
    <3>2. /\ ks' = ks /\ gui' = gui /\ FreeSlots' = FreeSlots
          /\ kill_switch' = kill_switch /\ applyQueued' = applyQueued
      BY <1>5, <2>4 DEF RunQueuedPort, settings, FreeSlots
    <3> QED BY <3>1, <3>2, FrameLemma
  <2> QED BY <1>5, <2>3, <2>4 DEF RunQueuedPort
<1>6. ASSUME Retry PROVE IndInv'
  <2>1. Up /\ SlotLeft /\ kill_switch \in BOOLEAN /\ cfg \in Configs
    BY <1>6, <1>t DEF Retry, TypeOK
  <2>2. Sound(ks) /\ Finish(apply(ks, kill_switch, cfg), proc)
    BY <1>6, <2>1, UpLemma DEF Retry
  <2>3. /\ proc' \in [Guards -> ProcStates]
        /\ ks' \in Fields /\ Coherent(ks') /\ Refusing(ks') /\ Slots(ks)'
        /\ ks'.pending_ \notin FreeSlots'
        /\ kill_switch /\ ~ks'.shutdown_ => ks'.state_ # "Disabled"
    BY <2>1, <2>2, ApplyStep DEF Sound, Refusing
  <2>4. TypeOK'
    <3>1. events' \in 0..MaxEvents
      BY <1>6, <1>t, EventLemma DEF Retry
    <3> QED BY <1>6, <1>t, <2>3, <3>1, Zenon DEF TypeOK, Retry, settings, queued
  <2> QED BY <1>6, <2>3, <2>4 DEF IndInv, Running, Retry, settings, queued
<1>7. ASSUME RetryTimeout PROVE IndInv'
  <2> DEFINE k == [ks EXCEPT !.retry = FALSE]
  <2>1. Up /\ SlotLeft /\ kill_switch \in BOOLEAN /\ cfg \in Configs
    BY <1>7, <1>t DEF RetryTimeout, TypeOK
  <2>2. Sound(ks) /\ proc \in [Guards -> ProcStates] /\ ks.pending_ \notin FreeSlots
    BY <2>1, <1>t, UpLemma DEF TypeOK
  <2>3. /\ k \in Fields /\ k.state_ = ks.state_ /\ k.shutdown_ = ks.shutdown_ /\ k.waiters = ks.waiters
        /\ k.identityUnsupported_ = ks.identityUnsupported_
        /\ k.active_ = ks.active_ /\ k.pending_ = ks.pending_ /\ k.closing = ks.closing
    BY <2>2 DEF Sound, Fields, KillSwitchFields
  <2>4. \/ Finish(k, proc)
        \/ Finish(apply(k, kill_switch, cfg), proc)
    BY <1>7 DEF RetryTimeout
  <2> HIDE DEF k
  <2>5. Sound(k)
    BY <2>2, <2>3 DEF Sound, Coherent, Refusing, Slots
  <2>6. /\ proc' \in [Guards -> ProcStates]
        /\ ks' \in Fields /\ Coherent(ks') /\ Refusing(ks') /\ Slots(ks)'
        /\ ks'.pending_ \notin FreeSlots'
        /\ \/ kill_switch /\ ~ks'.shutdown_ => ks'.state_ # "Disabled"
           \/ ks'.state_ = ks.state_ /\ ks'.shutdown_ = ks.shutdown_
    <3>1. CASE Finish(k, proc)
      BY <2>2, <2>3, <2>5, <3>1, FinishLemma
    <3>2. CASE Finish(apply(k, kill_switch, cfg), proc)
      BY <2>1, <2>3, <2>5, <3>2, ApplyStep DEF Sound, Refusing
    <3> QED BY <2>4, <3>1, <3>2
  <2>7. TypeOK'
    BY <1>7, <1>t, <2>6, Zenon DEF TypeOK, RetryTimeout, settings, queued
  <2> QED BY <1>7, <2>6, <2>7 DEF IndInv, Running, Up, RetryTimeout, settings, queued
<1>8. ASSUME RespawnIntervalExpired PROVE IndInv'
  <2>1. /\ ks' \in Fields /\ ks'.state_ = ks.state_ /\ ks'.shutdown_ = ks.shutdown_ /\ ks'.waiters = ks.waiters
        /\ ks'.identityUnsupported_ = ks.identityUnsupported_
        /\ ks'.active_ = ks.active_ /\ ks'.pending_ = ks.pending_ /\ ks'.closing = ks.closing
    BY <1>8, <1>t DEF RespawnIntervalExpired, TypeOK, Fields, KillSwitchFields
  <2>2. TypeOK'
    BY <1>8, <1>t, <2>1, Zenon DEF TypeOK, RespawnIntervalExpired, settings, queued
  <2>3. FreeSlots' = FreeSlots
    BY <1>8 DEF RespawnIntervalExpired, FreeSlots
  <2> QED BY <1>8, <2>1, <2>2, <2>3
          DEF IndInv, Running, Up, RespawnIntervalExpired, settings, queued, Coherent, Refusing, Slots
<1>9. ASSUME noteIdentityUnsupported PROVE IndInv'
  <2> DEFINE k == [ks EXCEPT !.identityUnsupported_ = TRUE]
  <2>1. Up /\ SlotLeft /\ kill_switch \in BOOLEAN /\ cfg \in Configs /\ ~applyQueued
    BY <1>9, <1>t DEF noteIdentityUnsupported, TypeOK
  <2>2. Sound(ks) /\ Finish(apply(k, kill_switch, cfg), proc)
    BY <1>9, <2>1, UpLemma DEF noteIdentityUnsupported
  <2>3. /\ k \in Fields /\ k.state_ = ks.state_ /\ k.shutdown_ = ks.shutdown_ /\ k.waiters = ks.waiters
        /\ k.active_ = ks.active_ /\ k.pending_ = ks.pending_ /\ k.closing = ks.closing
    BY <2>2 DEF Sound, Fields, KillSwitchFields
  <2> HIDE DEF k
  <2>4. Coherent(k) /\ Slots(k) /\ (k.shutdown_ => Sound(k))
    BY <2>2, <2>3 DEF Sound, Coherent, Slots, Refusing
  <2>5. ~k.shutdown_ /\ kill_switch => k.state_ # "Disabled"
    BY <2>1, <2>3 DEF IndInv, Running
  <2>6. /\ proc' \in [Guards -> ProcStates]
        /\ ks' \in Fields /\ Coherent(ks') /\ Refusing(ks') /\ Slots(ks)'
        /\ ks'.pending_ \notin FreeSlots'
        /\ kill_switch /\ ~ks'.shutdown_ => ks'.state_ # "Disabled"
    BY <2>1, <2>2, <2>3, <2>4, <2>5, ApplyStep
  <2>7. TypeOK'
    <3>1. events' \in 0..MaxEvents
      BY <1>9, <1>t, EventLemma DEF noteIdentityUnsupported
    <3> QED BY <1>9, <1>t, <2>6, <3>1, Zenon DEF TypeOK, noteIdentityUnsupported, settings, queued
  <2> QED BY <1>9, <2>6, <2>7 DEF IndInv, Running, noteIdentityUnsupported, settings, queued
<1>10. ASSUME whenSettled PROVE IndInv'
  <2>1. /\ ks' \in Fields /\ ks'.state_ = ks.state_ /\ ks'.shutdown_ = ks.shutdown_
        /\ ks'.waiters = ks.waiters \cup {"settled"} /\ ks.state_ = "Arming"
        /\ ks'.identityUnsupported_ = ks.identityUnsupported_
        /\ ks'.active_ = ks.active_ /\ ks'.pending_ = ks.pending_ /\ ks'.closing = ks.closing
    BY <1>10, <1>t DEF whenSettled, TypeOK, Fields, KillSwitchFields, WaiterKinds
  <2>2. TypeOK'
    BY <1>10, <1>t, <2>1, Zenon DEF TypeOK, whenSettled, settings, queued
  <2>3. FreeSlots' = FreeSlots
    BY <1>10 DEF whenSettled, FreeSlots
  <2> QED BY <1>10, <2>1, <2>2, <2>3
          DEF IndInv, Running, Up, whenSettled, settings, queued, Coherent, Refusing, Slots
<1>11. ASSUME NEW c \in Configs, permitExtraCore(c) PROVE IndInv'
  <2> DEFINE k == apply(ks, kill_switch, c)
             r == [k EXCEPT !.waiters = IF k.pending_ # NoGuard THEN @ \cup {"idle"} ELSE @]
  <2>1. Up /\ SlotLeft /\ kill_switch \in BOOLEAN /\ Finish(r, proc)
    BY <1>11, <1>t DEF permitExtraCore, Change, TypeOK
  <2>2. Sound(ks) /\ proc \in [Guards -> ProcStates] /\ ks.pending_ \notin FreeSlots
    BY <2>1, <1>t, UpLemma DEF TypeOK
  <2>3. /\ Sound(k)
        /\ k.pending_ \in {ks.pending_, NoGuard} \cup FreeSlots
        /\ kill_switch /\ ~k.shutdown_ => k.state_ # "Disabled"
    <3>1. ~ks.shutdown_ /\ ks.identityUnsupported_ /\ kill_switch => ks.state_ # "Disabled"
      BY <2>2 DEF Sound, Refusing
    <3>2. ks \in Fields /\ Coherent(ks) /\ Slots(ks)
      BY <2>2 DEF Sound
    <3> QED BY <2>1, <2>2, <3>1, <3>2, ApplyLemma
  <2> HIDE DEF k
  <2>4. /\ r \in Fields /\ r.state_ = k.state_ /\ r.shutdown_ = k.shutdown_
        /\ r.identityUnsupported_ = k.identityUnsupported_
        /\ r.active_ = k.active_ /\ r.pending_ = k.pending_ /\ r.closing = k.closing
        /\ "settled" \in r.waiters => "settled" \in k.waiters
        /\ "idle" \in r.waiters => "idle" \in k.waiters \/ k.pending_ # NoGuard
    <3>1. k \in Fields
      BY <2>3 DEF Sound
    <3> QED BY <3>1 DEF Fields, KillSwitchFields, WaiterKinds
  <2> HIDE DEF r
  <2>5. Sound(r)
    BY <2>3, <2>4 DEF Sound, Coherent, Refusing, Slots
  <2>6. /\ ks' = r /\ proc' \in [Guards -> ProcStates]
        /\ ks' \in Fields /\ Coherent(ks') /\ Refusing(ks') /\ Slots(ks)'
        /\ ks'.pending_ \notin FreeSlots'
    BY <2>1, <2>2, <2>3, <2>4, <2>5, FinishLemma
  <2>7. TypeOK'
    <3>1. events' \in 0..MaxEvents
      BY <1>11, <1>t, EventLemma DEF permitExtraCore, Change
    <3> QED BY <1>11, <1>t, <2>6, <3>1, Zenon DEF TypeOK, permitExtraCore, Change, queued
  <2> QED BY <1>11, <2>3, <2>4, <2>6, <2>7 DEF IndInv, Running, permitExtraCore, Change, queued
<1>12. ASSUME NEW g \in Guards, Started(g) PROVE IndInv'
  <2>1. proc' \in [Guards -> ProcStates] /\ FreeSlots' = FreeSlots
    BY <1>12, <1>t DEF Started, TypeOK, FreeSlots, ProcStates
  <2>2. TypeOK'
    BY <1>12, <1>t, <2>1, Zenon DEF TypeOK, Started, settings, queued
  <2>3. ks' = ks /\ gui' = gui /\ kill_switch' = kill_switch /\ applyQueued' = applyQueued
    BY <1>12 DEF Started, settings, queued
  <2> QED BY <2>1, <2>2, <2>3, FrameLemma
<1>13. ASSUME NEW g \in Guards, onStartFailed(g) PROVE IndInv'
  <2> DEFINE r == lose(ks, g, "internal")
  <2>1. /\ Up /\ g \notin FreeSlots /\ kill_switch \in BOOLEAN /\ cfg \in Configs
        /\ Finish(deleteLater(r, g), [proc EXCEPT ![g] = "free"])
    BY <1>13, <1>t DEF onStartFailed, FreeSlots, TypeOK
  <2>2. Sound(ks) /\ ks \in Fields /\ proc \in [Guards -> ProcStates] /\ ks.pending_ \notin FreeSlots
    BY <2>1, <1>t, UpLemma DEF TypeOK
  <2>3. g = ks.active_ => SlotLeft
    BY <1>13 DEF onStartFailed
  <2>4. "internal" \in Codes
    BY DEF Codes
  <2>5. /\ Sound(r)
        /\ g \in r.closing /\ g \notin {r.active_, r.pending_}
        /\ r.pending_ \in {ks.pending_, NoGuard} \cup FreeSlots
        /\ r.shutdown_ = ks.shutdown_
        /\ ~ks.shutdown_ /\ kill_switch /\ ks.state_ # "Disabled" => r.state_ # "Disabled"
    BY <2>1, <2>2, <2>3, <2>4, LoseLemma
  <2> HIDE DEF r
  <2>6. /\ proc' \in [Guards -> ProcStates]
        /\ ks' \in Fields /\ Coherent(ks') /\ Refusing(ks') /\ Slots(ks)'
        /\ ks'.pending_ \notin FreeSlots'
        /\ ks'.state_ = r.state_ /\ ks'.shutdown_ = r.shutdown_
    BY <2>1, <2>2, <2>5, FinishDeletedLemma
  <2>7. TypeOK'
    <3>1. events' \in 0..MaxEvents
      BY <1>13, <1>t, EventLemma DEF onStartFailed
    <3> QED BY <1>13, <1>t, <2>6, <3>1, Zenon DEF TypeOK, onStartFailed, settings, queued
  <2> QED BY <1>13, <2>5, <2>6, <2>7 DEF IndInv, Running, Up, onStartFailed, settings, queued
<1>14. ASSUME NEW g \in Guards, onOutput(g) PROVE IndInv'
  <2> DEFINE line == Head(out[g])
             r == handleLine(ks, g, line)
  <2>1. /\ Up /\ kill_switch \in BOOLEAN /\ cfg \in Configs
        /\ g = ks.active_ => SlotLeft
        /\ out[g] \in Seq(Lines) /\ out[g] # <<>>
        /\ \/ line = Exit /\ Finish(deleteLater(r, g), [proc EXCEPT ![g] = "free"])
           \/ line # Exit /\ Finish(r, proc)
    BY <1>14, <1>t DEF onOutput, TypeOK
  <2>2. Sound(ks) /\ ks \in Fields /\ proc \in [Guards -> ProcStates] /\ ks.pending_ \notin FreeSlots
    BY <2>1, <1>t, UpLemma DEF TypeOK
  <2>3. g \notin FreeSlots
    BY <2>1 DEF OutputEnds, FreeSlots
  <2>4. line \in Lines
    BY <2>1
  <2>5. \/ line.verb = "READY" /\ line # Exit
        \/ line.verb # "READY" /\ line.code \in Codes
    <3>1. CASE line = Ready
      <4> HIDE DEF line
        <4> QED BY <3>1, LineLemma DEF Ready
    <3>2. CASE line = Exit
      BY <3>2 DEF Exit, Codes
    <3>3. CASE line \in [verb : {"ERROR", "FAIL"}, code : GuardCodes]
      BY <3>3 DEF GuardCodes, Codes
    <3> HIDE DEF line
    <3> QED BY <2>4, <3>1, <3>2, <3>3 DEF Lines
  <2>6. out' \in [Guards -> Seq(Lines)]
    <3>1. Tail(out[g]) \in Seq(Lines)
      BY <2>1
    <3> QED BY <1>14, <1>t, <3>1 DEF onOutput, TypeOK
  <2> HIDE DEF line
  <2>7. /\ Sound(r)
        /\ r.pending_ \in {ks.pending_, NoGuard} \cup FreeSlots
        /\ r.shutdown_ = ks.shutdown_
        /\ ~ks.shutdown_ /\ kill_switch /\ ks.state_ # "Disabled" => r.state_ # "Disabled"
        /\ line = Exit => g \in r.closing /\ g \notin {r.active_, r.pending_}
    <3>1. CASE line.verb = "READY" /\ line # Exit
      <4>1. r = onReady(ks, g)
        BY <3>1 DEF handleLine
      <4> HIDE DEF r
      <4> QED BY <2>2, <3>1, <4>1, OnReadyLemma
    <3>2. CASE line.verb # "READY" /\ line.code \in Codes
      <4>1. r = lose(ks, g, line.code)
        BY <3>2 DEF handleLine
      <4> HIDE DEF r
      <4> QED BY <2>1, <2>2, <2>3, <3>2, <4>1, LoseLemma
    <3> QED BY <2>5, <3>1, <3>2
  <2> HIDE DEF r
  <2>8. /\ proc' \in [Guards -> ProcStates]
        /\ ks' \in Fields /\ Coherent(ks') /\ Refusing(ks') /\ Slots(ks)'
        /\ ks'.pending_ \notin FreeSlots'
        /\ ks'.state_ = r.state_ /\ ks'.shutdown_ = r.shutdown_
    <3>1. CASE line = Exit /\ Finish(deleteLater(r, g), [proc EXCEPT ![g] = "free"])
      BY <2>2, <2>3, <2>7, <3>1, FinishDeletedLemma
    <3>2. CASE line # Exit /\ Finish(r, proc)
      BY <2>2, <2>7, <3>2, FinishLemma
    <3> QED BY <2>1, <3>1, <3>2
  <2>9. TypeOK'
    BY <1>14, <1>t, <2>6, <2>8, Zenon DEF TypeOK, onOutput, settings, queued
  <2> QED BY <1>14, <2>7, <2>8, <2>9 DEF IndInv, Running, Up, onOutput, settings, queued
<1>15. ASSUME NEW g \in Guards, onReadyTimeout(g) PROVE IndInv'
  <2> DEFINE r == lose(ks, g, "internal")
  <2>1. /\ Up /\ kill_switch \in BOOLEAN /\ cfg \in Configs /\ g = ks.pending_ /\ Finish(r, proc)
    BY <1>15, <1>t DEF onReadyTimeout, TypeOK
  <2>2. Sound(ks) /\ proc \in [Guards -> ProcStates] /\ ks.pending_ \notin FreeSlots
    BY <2>1, <1>t, UpLemma DEF TypeOK
  <2>3. g # ks.active_ /\ g \notin FreeSlots /\ "internal" \in Codes /\ ks \in Fields
    BY <2>1, <2>2, GuardsAssumption DEF Sound, Slots, Codes
  <2>4. /\ Sound(r)
        /\ r.pending_ \in {ks.pending_, NoGuard} \cup FreeSlots
        /\ r.shutdown_ = ks.shutdown_
        /\ ~ks.shutdown_ /\ kill_switch /\ ks.state_ # "Disabled" => r.state_ # "Disabled"
    BY <2>1, <2>2, <2>3, LoseLemma
  <2> HIDE DEF r
  <2>5. /\ ks' = r /\ proc' \in [Guards -> ProcStates]
        /\ ks' \in Fields /\ Coherent(ks') /\ Refusing(ks') /\ Slots(ks)'
        /\ ks'.pending_ \notin FreeSlots'
    BY <2>1, <2>2, <2>4, FinishLemma
  <2>6. TypeOK'
    BY <1>15, <1>t, <2>5, Zenon DEF TypeOK, onReadyTimeout, settings, queued
  <2> QED BY <1>15, <2>4, <2>5, <2>6 DEF IndInv, Running, Up, onReadyTimeout, settings, queued
<1>16. ASSUME BeginExit PROVE IndInv'
  <2>1. TypeOK'
    BY <1>16, <1>t, Zenon DEF TypeOK, BeginExit, queued
  <2>2. /\ ks' = ks /\ gui' = gui /\ FreeSlots' = FreeSlots
        /\ kill_switch' = kill_switch /\ applyQueued' = applyQueued
    BY <1>16 DEF BeginExit, queued, FreeSlots
  <2> QED BY <2>1, <2>2, FrameLemma
<1>17. ASSUME shutdown PROVE IndInv'
  <2>1. /\ ks' \in Fields /\ ks'.state_ = ks.state_ /\ ks'.shutdown_ /\ ks'.waiters = {}
        /\ ks'.active_ = NoGuard /\ ks'.pending_ = NoGuard
        /\ ks'.closing = ks.closing \cup {g \in Guards : proc[g] # "free"}
    BY <1>17, <1>t DEF shutdown, TypeOK, Fields, KillSwitchFields
  <2>2. TypeOK'
    BY <1>17, <1>t, <2>1, Zenon DEF TypeOK, shutdown, settings, queued
  <2>3. FreeSlots' = FreeSlots /\ Up
    BY <1>17 DEF shutdown, FreeSlots
  <2>4. Coherent(ks') /\ Refusing(ks') /\ ks'.pending_ \notin FreeSlots'
    BY <2>1, <2>3, GuardsAssumption DEF Coherent, Refusing, FreeSlots
  <2>5. Slots(ks)'
    <3>1. ks.closing \cap FreeSlots = {}
      BY <2>3 DEF IndInv, Slots
    <3> QED BY <2>1, <2>3, <3>1 DEF Slots, FreeSlots
  <2> QED BY <2>1, <2>2, <2>4, <2>5 DEF IndInv, Running
<1>18. ASSUME GuiGone PROVE IndInv'
  <2>1. NewKillSwitch \in Fields
    BY DEF NewKillSwitch, Fields, KillSwitchFields, States, WaiterKinds
  <2>2. TypeOK'
    BY <1>18, <1>t, <2>1, Zenon DEF TypeOK, GuiGone, settings
  <2>3. Coherent(ks') /\ Refusing(ks') /\ ks'.pending_ \notin FreeSlots'
    BY <1>18, GuardsAssumption DEF GuiGone, NewKillSwitch, Coherent, Refusing, FreeSlots
  <2> QED BY <1>18, <2>2, <2>3 DEF IndInv, Running, Up, GuiGone
<1>19. ASSUME GuardStep PROVE IndInv'
  <2>1. events' \in 0..MaxEvents
    <3>1. Event \/ NoEvent
      BY <1>19 DEF GuardStep, ReadConfigFails, ArmSucceeds, ArmFails, RulesRemoved, FatalEvent, FatalExit,
                   DisarmAndExit, Die, stopHard
    <3>2. NoEvent => events' \in 0..MaxEvents
      BY <1>t DEF NoEvent, TypeOK
    <3> QED BY <1>t, <3>1, <3>2, EventLemma
  <2>2. PICK g \in Guards : \E lines, st : Reports(g, lines, st)
    BY <1>19, GuardStepLemma
  <2>3. PICK lines, st : Reports(g, lines, st)
    BY <2>2
  <2>4. proc' \in [Guards -> ProcStates] /\ FreeSlots' = FreeSlots
    BY <1>t, <2>3 DEF Reports, Report, TypeOK, FreeSlots, Live
  <2>5. out' \in [Guards -> Seq(Lines)]
    <3>1. out[g] \in Seq(Lines) /\ lines \in Seq(Lines)
      BY <1>t, <2>3 DEF TypeOK, Reports
    <3>2. out[g] \o lines \in Seq(Lines)
      BY <3>1
    <3> QED BY <1>t, <2>3, <3>2 DEF Reports, Report, TypeOK
  <2>6. TypeOK'
    BY <1>t, <2>1, <2>3, <2>4, <2>5, Zenon DEF TypeOK, Reports, Report, settings, queued
  <2>7. ks' = ks /\ gui' = gui /\ kill_switch' = kill_switch /\ applyQueued' = applyQueued
    BY <2>3 DEF Reports, Report, settings, queued
  <2> QED BY <2>4, <2>6, <2>7, FrameLemma
<1> QED
  BY <1>s, <1>1, <1>2, <1>3, <1>4, <1>5, <1>6, <1>7, <1>8, <1>9, <1>10, <1>11, <1>12, <1>13, <1>14,
     <1>15, <1>16, <1>17, <1>18, <1>19 DEF Next, UserStep, UiStep

-----------------------------------------------------------------------------
\* A handler that ends with Finish starts at most one guard, in a slot that was free.
LEMMA LaunchLemma ==
    ASSUME NEW procs \in [Guards -> ProcStates], NEW k, Finish(k, procs), NEW g \in Guards
    PROVE  proc'[g] = procs[g] \/ (proc[g] = "free" /\ proc'[g] = "launching")
<1> DEFINE p == k.pending_
<1>1. CASE p \notin FreeSlots
  BY <1>1 DEF Finish
<1>2. CASE p \in FreeSlots
  <2>1. p \in Guards /\ proc[p] = "free" /\ proc' = [procs EXCEPT ![p] = "launching"]
    BY <1>2 DEF Finish, FreeSlots
  <2> HIDE DEF p
  <2> QED BY <2>1
<1> QED BY <1>1, <1>2

\* A step keeps OutputEnds if it reads and writes no output, and moves a guard without
\* output to another such state or onwards, and an exited guard not at all.
LEMMA SilentLemma ==
    ASSUME OutputEnds, out' = out,
           \A g \in Guards :
             /\ proc'[g] \in {"free", "launching"} => proc[g] \in {"free", "launching"}
             /\ proc[g] = "exited" => proc'[g] = "exited"
    PROVE  OutputEnds'
<1>1. ASSUME NEW g \in Guards
      PROVE  /\ proc'[g] \in {"free", "launching"} => out'[g] = <<>>
             /\ \A i \in DOMAIN out'[g] : out'[g][i] = Exit => i = Len(out'[g]) /\ proc'[g] = "exited"
  <2>1. proc[g] \in {"free", "launching"} => out[g] = <<>>
    BY DEF OutputEnds
  <2>2. \A i \in DOMAIN out[g] : out[g][i] = Exit => i = Len(out[g]) /\ proc[g] = "exited"
    BY DEF OutputEnds
  <2> QED BY <2>1, <2>2
<1> QED BY <1>1, Zenon DEF OutputEnds

\* Every step keeps OutputEnds.
LEMMA OutputLemma == IndInv /\ OutputEnds /\ [Next]_vars => OutputEnds'
<1> SUFFICES ASSUME IndInv, OutputEnds, [Next]_vars PROVE OutputEnds'
  OBVIOUS
<1>t. TypeOK
  BY DEF IndInv
<1>1. ASSUME UNCHANGED <<proc, out>> PROVE OutputEnds'
  BY <1>1, SilentLemma
<1>2. ASSUME NEW k, Finish(k, proc), UNCHANGED out PROVE OutputEnds'
  <2>1. \A g \in Guards : proc'[g] = proc[g] \/ (proc[g] = "free" /\ proc'[g] = "launching")
    BY <1>t, <1>2, LaunchLemma DEF TypeOK
  <2> QED BY <1>2, <2>1, SilentLemma
<1>3. ASSUME NEW g \in Guards, Started(g) PROVE OutputEnds'
  BY <1>t, <1>3, SilentLemma DEF Started, TypeOK
<1>4. ASSUME NEW g \in Guards, onStartFailed(g) PROVE OutputEnds'
  <2>1. PICK k : Finish(k, [proc EXCEPT ![g] = "free"])
    BY <1>4 DEF onStartFailed
  <2>2. \A h \in Guards :
          \/ proc'[h] = proc[h]
          \/ proc[h] \in {"free", "launching"} /\ proc'[h] \in {"free", "launching"}
    BY <1>t, <1>4, <2>1, LaunchLemma DEF onStartFailed, TypeOK, ProcStates
  <2>3. out' = out
    BY <1>4 DEF onStartFailed
  <2> QED BY <2>2, <2>3, SilentLemma
<1>5. ASSUME NEW g \in Guards, onOutput(g) PROVE OutputEnds'
  <2>1. /\ out \in [Guards -> Seq(Lines)] /\ out[g] # <<>> /\ out[g] \in Seq(Lines)
        /\ out' = [out EXCEPT ![g] = Tail(@)]
        /\ proc[g] \notin {"free", "launching"} /\ proc \in [Guards -> ProcStates]
    BY <1>t, <1>5 DEF onOutput, TypeOK, OutputEnds
  <2>2. PICK k : IF Head(out[g]) = Exit THEN Finish(k, [proc EXCEPT ![g] = "free"]) ELSE Finish(k, proc)
    BY <1>5 DEF onOutput
  <2>3. ASSUME NEW h \in Guards, h # g
        PROVE  /\ out'[h] = out[h]
               /\ proc'[h] = proc[h] \/ (proc[h] = "free" /\ proc'[h] = "launching")
    BY <2>1, <2>2, <2>3, LaunchLemma DEF ProcStates
  <2>4. /\ out'[g] = Tail(out[g])
        /\ IF Head(out[g]) = Exit THEN proc'[g] = "free" ELSE proc'[g] = proc[g]
    BY <2>1, <2>2, LaunchLemma DEF ProcStates
  <2>5. /\ Len(out[g]) \in Nat \ {0} /\ DOMAIN out[g] = 1..Len(out[g])
        /\ Len(Tail(out[g])) = Len(out[g]) - 1 /\ DOMAIN Tail(out[g]) = 1..(Len(out[g]) - 1)
        /\ \A i \in 1..(Len(out[g]) - 1) : Tail(out[g])[i] = out[g][i + 1]
    BY <2>1
  <2>6. \A i \in 1..Len(out[g]) : out[g][i] = Exit => i = Len(out[g]) /\ proc[g] = "exited"
    BY <2>5 DEF OutputEnds
  <2>7. Head(out[g]) = Exit => Len(out[g]) = 1 /\ Tail(out[g]) = <<>>
    <3>1. Head(out[g]) = out[g][1] /\ 1 \in 1..Len(out[g])
      BY <2>1, <2>5
    <3>2. Head(out[g]) = Exit => Len(out[g]) = 1
      BY <2>6, <3>1
    <3>3. Len(out[g]) = 1 => Tail(out[g]) = <<>>
      BY <2>1
    <3> QED BY <3>2, <3>3
  <2>8. proc'[g] \in {"free", "launching"} => out'[g] = <<>>
    BY <2>1, <2>4, <2>7
  <2>9. ASSUME NEW i \in DOMAIN out'[g], out'[g][i] = Exit
        PROVE  i = Len(out'[g]) /\ proc'[g] = "exited"
    <3>1. i \in 1..(Len(out[g]) - 1) /\ out[g][i + 1] = Exit
      BY <2>4, <2>5, <2>9
    <3>2. Head(out[g]) # Exit
      BY <2>5, <2>7, <3>1
    <3>3. i + 1 \in 1..Len(out[g])
      BY <2>5, <3>1
    <3>4. i + 1 = Len(out[g]) /\ proc[g] = "exited"
      BY <2>6, <3>1, <3>3
    <3> QED BY <2>4, <2>5, <3>1, <3>2, <3>4
  <2>10. ASSUME NEW h \in Guards, h # g
         PROVE  /\ proc'[h] \in {"free", "launching"} => out'[h] = <<>>
                /\ \A i \in DOMAIN out'[h] : out'[h][i] = Exit => i = Len(out'[h]) /\ proc'[h] = "exited"
    BY <2>3, <2>10 DEF OutputEnds
  <2> QED BY <2>8, <2>9, <2>10, Zenon DEF OutputEnds
<1>6. ASSUME GuardStep PROVE OutputEnds'
  <2>1. PICK g \in Guards : \E lines, st : Reports(g, lines, st)
    BY <1>6, GuardStepLemma
  <2>2. PICK lines, st : Reports(g, lines, st)
    BY <2>1
  <2>3. /\ out[g] \in Seq(Lines) /\ lines \in Seq(Lines)
        /\ proc[g] # "exited" /\ st \notin {"free", "launching"}
        /\ out'[g] = out[g] \o lines /\ proc'[g] = st
        /\ \A i \in DOMAIN lines : lines[i] = Exit => i = Len(lines) /\ st = "exited"
        /\ \A h \in Guards \ {g} : out'[h] = out[h] /\ proc'[h] = proc[h]
    BY <1>t, <2>2 DEF Reports, Report, TypeOK, Live
  <2>4. ASSUME NEW i \in DOMAIN out'[g], out'[g][i] = Exit
        PROVE  i = Len(out'[g]) /\ proc'[g] = "exited"
    <3> DEFINE n == Len(out[g])
               m == Len(lines)
    <3>1. /\ n \in Nat /\ m \in Nat /\ Len(out'[g]) = n + m /\ i \in 1..(n + m)
          /\ DOMAIN lines = 1..m /\ DOMAIN out[g] = 1..n
          /\ i <= n => (out'[g])[i] = (out[g])[i]
          /\ i > n => (out'[g])[i] = lines[i - n]
      BY <2>3
    <3> HIDE DEF n, m
    <3>2. i > n
      <4>1. i <= n => i \in DOMAIN out[g] /\ out[g][i] = Exit
        BY <2>4, <3>1
      <4> QED BY <2>3, <3>1, <4>1 DEF OutputEnds
    <3>3. i - n \in 1..m /\ lines[i - n] = Exit
      BY <2>4, <3>1, <3>2
    <3>4. i - n = m /\ st = "exited"
      BY <2>3, <3>1, <3>3 DEF m
    <3> QED BY <2>3, <3>1, <3>4
  <2>5. ASSUME NEW h \in Guards, h # g
        PROVE  /\ proc'[h] \in {"free", "launching"} => out'[h] = <<>>
               /\ \A i \in DOMAIN out'[h] : out'[h][i] = Exit => i = Len(out'[h]) /\ proc'[h] = "exited"
    BY <2>3, <2>5 DEF OutputEnds
  <2> QED BY <2>3, <2>4, <2>5, Zenon DEF OutputEnds
<1>7. ASSUME UserStep \/ RunQueuedApply \/ RunQueuedPort \/ RetryTimeout \/ RespawnIntervalExpired
             \/ \E g \in Guards : onReadyTimeout(g)
      PROVE  UNCHANGED out /\ (UNCHANGED proc \/ \E k : Finish(k, proc))
  BY <1>7 DEF UserStep, ChangeSettings, AcceptDialog, SetApiPort, permitExtraCore, Retry, whenSettled,
              noteIdentityUnsupported, BeginExit, shutdown, GuiGone, RunQueuedApply, RunQueuedPort,
              RetryTimeout, RespawnIntervalExpired, onReadyTimeout
<1>8. UNCHANGED vars => OutputEnds'
  BY <1>1 DEF vars
<1> QED BY <1>1, <1>2, <1>3, <1>4, <1>5, <1>6, <1>7, <1>8 DEF Next, UiStep

-----------------------------------------------------------------------------
(* What a guard has reported, against what it is doing.                    *)

\* A guard whose rules are not installed yet has reported nothing.
Unreported == {"free", "launching", "starved", "configured"}
Silent == \A g \in Guards : proc[g] \in Unreported => out[g] = <<>>

\* READY is the first line of a guard's output.  Until it is read the rules are
\* installed, or their loss is reported behind it.
ReadyFirst ==
    \A g \in Guards : \A i \in DOMAIN out[g] :
        out[g][i].verb = "READY" => i = 1 /\ EnforcedOrReporting(g)

\* The guard the GUI counts on has its rules installed, or has reported their loss.
ActiveBacked == ks.active_ # NoGuard => EnforcedOrReporting(ks.active_)

\* A GUI that is gone counts on none.
Retired == Up \/ ks.active_ = NoGuard

Truthful == Silent /\ ReadyFirst /\ ActiveBacked


\* apply() makes no guard the active one, and with the setting on it lets go of
\* none but the pending one.
LEMMA ApplyKeepsActive ==
    ASSUME NEW k \in Fields, NEW on \in BOOLEAN, NEW c \in Configs, SlotLeft
    PROVE  LET r == apply(k, on, c) IN
           /\ r \in Fields /\ r.active_ \in {k.active_, NoGuard}
           /\ on /\ ~overridden_ => r.active_ = k.active_ /\ r.closing \subseteq k.closing \cup {k.pending_}
<1> DEFINE r == apply(k, on, c)
<1>1. CASE k.shutdown_
  BY <1>1 DEF apply
<1>2. CASE ~k.shutdown_ /\ ~on
  <2>1. r = turnOff(k)
    BY <1>2 DEF apply
  <2> QED BY <1>2, <2>1, TurnOffLemma
<1>3. CASE ~k.shutdown_ /\ on /\ overridden_
  <2> DEFINE q == closeActive(closePending(k))
  <2>1. q \in Fields /\ q.active_ = NoGuard
    BY ClosePendingLemma, CloseActiveLemma
  <2>2. r = fail(q, "overridden") /\ "overridden" \in Codes
    BY <1>3 DEF apply, refuseOverridden, Codes
  <2> HIDE DEF q
  <2> QED BY <1>3, <2>1, <2>2, FailLemma
<1>4. CASE ~k.shutdown_ /\ on /\ ~overridden_
  <2> DEFINE q == IF k.identityUnsupported_ /\ k.state_ = "Armed" THEN failIdentity(k) ELSE k
  <2>1. q \in Fields /\ q.active_ = k.active_ /\ q.pending_ = k.pending_ /\ q.closing = k.closing
    <3>1. CASE k.identityUnsupported_ /\ k.state_ = "Armed"
      <4>1. q = fail(k, "unsupported") /\ "unsupported" \in Codes
        BY <3>1, FailIdentityLemma DEF Codes
      <4> HIDE DEF q
      <4> QED BY <4>1, FailLemma
    <3>2. CASE ~(k.identityUnsupported_ /\ k.state_ = "Armed")
      BY <3>2
    <3> QED BY <3>1, <3>2
  <2>2. r = q \/ r = settle(closePending(q)) \/ r = spawn(q, c)
    BY <1>4 DEF apply
  <2> HIDE DEF q, r
  <2>3. ASSUME r = q
        PROVE  r \in Fields /\ r.active_ = k.active_ /\ r.closing \subseteq k.closing \cup {k.pending_}
    BY <2>1, <2>3
  <2>4. ASSUME r = settle(closePending(q))
        PROVE  r \in Fields /\ r.active_ = k.active_ /\ r.closing \subseteq k.closing \cup {k.pending_}
    <3>1. /\ closePending(q) \in Fields /\ closePending(q).active_ = k.active_
          /\ closePending(q).closing \subseteq k.closing \cup {k.pending_}
      BY <2>1, ClosePendingLemma
    <3> QED BY <2>4, <3>1, SettleLemma
  <2>5. ASSUME r = spawn(q, c)
        PROVE  r \in Fields /\ r.active_ = k.active_ /\ r.closing \subseteq k.closing \cup {k.pending_}
    BY <2>1, <2>5, SpawnLemma
  <2> QED BY <1>4, <2>2, <2>3, <2>4, <2>5 DEF r
<1> QED BY <1>1, <1>2, <1>3, <1>4

\* The loss of a guard makes no other guard the active one, and lets go of none
\* but the one that was lost unless that was the active one.
LEMMA LoseKeepsActive ==
    ASSUME NEW k \in Fields, NEW g \in Guards, NEW code \in Codes, k.active_ \notin k.closing,
           g = k.active_ => SlotLeft, cfg \in Configs
    PROVE  LET r == lose(k, g, code) IN
           /\ r.active_ \in {k.active_, NoGuard}
           /\ g # k.active_ => r.active_ = k.active_ /\ r.closing \subseteq k.closing \cup {g}
<1> DEFINE r == lose(k, g, code)
           q == [closeGuard(k, g) EXCEPT !.active_ = IF @ = g THEN NoGuard ELSE @,
                                         !.pending_ = IF @ = g THEN NoGuard ELSE @]
<1>1. CASE g \in k.closing
  BY <1>1 DEF lose
<1>2. CASE g \notin k.closing
  <2>1. /\ q \in Fields /\ q.active_ = IF k.active_ = g THEN NoGuard ELSE k.active_
        /\ q.closing = k.closing \cup {g}
    BY GuardsAssumption DEF closeGuard, Fields, KillSwitchFields
  <2>2. r = IF g = k.active_ THEN protectionLost(q, code)
            ELSE IF g = k.pending_ THEN armFailed(q, code) ELSE q
    BY <1>2 DEF lose
  <2> HIDE DEF q
  <2>3. CASE g # k.active_ /\ g # k.pending_
    BY <2>1, <2>2, <2>3
  <2>4. CASE g # k.active_ /\ g = k.pending_
    <3>1. r = armFailed(q, code)
      BY <2>2, <2>4
    <3>2. armFailed(q, code).active_ = q.active_ /\ armFailed(q, code).closing = q.closing
      <4>1. CASE q.active_ # NoGuard
        <5> DEFINE p == [q EXCEPT !.retry = @ \/ Recoverable(code)]
        <5>1. p \in Fields /\ p.active_ = q.active_ /\ p.closing = q.closing
          BY <2>1 DEF Fields, KillSwitchFields
        <5>2. armFailed(q, code) = settle(p)
          BY <4>1 DEF armFailed
        <5> HIDE DEF p
        <5> QED BY <5>1, <5>2, SettleLemma
      <4>2. CASE q.active_ = NoGuard
        <5>1. armFailed(q, code) = fail(q, code)
          BY <4>2 DEF armFailed
        <5> QED BY <2>1, <5>1, FailLemma
      <4> QED BY <4>1, <4>2
    <3> QED BY <2>1, <2>4, <3>1, <3>2
  <2>5. CASE g = k.active_
    <3>1. r = protectionLost(q, code) /\ q.active_ = NoGuard /\ SlotLeft
      BY <2>1, <2>2, <2>5
    <3> DEFINE p == [q EXCEPT !.respawned = TRUE]
    <3>2. p \in Fields /\ p.active_ = NoGuard
      BY <2>1, <3>1 DEF Fields, KillSwitchFields
    <3>3. \/ r = q \/ r = apply(q, FALSE, cfg) \/ r = settle(q) \/ r = settle(setState(q, "Arming"))
          \/ r = spawn(p, cfg) \/ r = fail(q, code)
      BY <3>1 DEF protectionLost
    <3> HIDE DEF r, p
    <3>4. r = apply(q, FALSE, cfg) => r.active_ = NoGuard
      BY <2>1, <3>1, ApplyKeepsActive
    <3>5. r = settle(q) \/ r = settle(setState(q, "Arming")) => r.active_ = NoGuard
      <4>1. setState(q, "Arming") \in Fields /\ setState(q, "Arming").active_ = NoGuard
        BY <2>1, <3>1, SetStateLemma DEF States
      <4> QED BY <2>1, <3>1, <4>1, SettleLemma
    <3>6. r = spawn(p, cfg) => r.active_ = NoGuard
      BY <3>1, <3>2, SpawnLemma
    <3>7. r = fail(q, code) => r.active_ = NoGuard
      BY <2>1, <3>1, FailLemma
    <3>8. r.active_ = NoGuard
      BY <3>1, <3>3, <3>4, <3>5, <3>6, <3>7
    <3> QED BY <2>5, <3>8 DEF r
  <2> QED BY <2>3, <2>4, <2>5
<1> QED BY <1>1, <1>2

\* READY makes the pending guard the active one, in place of the one it replaces.
LEMMA OnReadyActive ==
    ASSUME NEW k \in Fields, NEW g \in Guards
    PROVE  LET r == onReady(k, g) IN
           IF g = k.pending_ THEN r.active_ = g ELSE r = k
<1>1. CASE g # k.pending_
  BY <1>1 DEF onReady
<1>2. CASE g = k.pending_
  <2> DEFINE q == [closeActive(k) EXCEPT !.active_ = g, !.pending_ = NoGuard]
  <2>1. q \in Fields /\ q.active_ = g
    <3>1. closeActive(k) \in Fields
      BY CloseActiveLemma
    <3> QED BY <3>1 DEF Fields, KillSwitchFields
  <2>2. onReady(k, g) = IF k.identityUnsupported_ THEN failIdentity(q) ELSE settle(setState(q, "Armed"))
    BY <1>2 DEF onReady
  <2> HIDE DEF q
  <2>3. failIdentity(q).active_ = g
    <3>1. failIdentity(q) = fail(q, "unsupported") /\ "unsupported" \in Codes
      BY <2>1, FailIdentityLemma DEF Codes
    <3> QED BY <2>1, <3>1, FailLemma
  <2>4. settle(setState(q, "Armed")).active_ = g
    <3>1. setState(q, "Armed") \in Fields /\ setState(q, "Armed").active_ = g
      BY <2>1, SetStateLemma DEF States
    <3> QED BY <3>1, SettleLemma
  <2> QED BY <1>2, <2>2, <2>3, <2>4
<1> QED BY <1>1, <1>2


-----------------------------------------------------------------------------
\* A guard the GUI counts on and still trusts is let go.
LetGo(g) == /\ g = ks.active_ /\ g \in ks'.closing
            /\ kill_switch' /\ ~overridden_ /\ ~ks'.shutdown_

\* The handlers that run apply() on fields k with the active guard of ks.
LEMMA ApplyRoles ==
    ASSUME IndInv, Up, SlotLeft, NEW on \in BOOLEAN, NEW c \in Configs, NEW k \in Fields,
           k.active_ = ks.active_, k.pending_ = ks.pending_, k.closing = ks.closing,
           kill_switch' = on,
           \/ Finish(apply(k, on, c), proc)
           \/ \E w : Finish([apply(k, on, c) EXCEPT !.waiters = w], proc)
    PROVE  ks'.active_ \in {ks.active_, NoGuard} /\ \A g \in Guards : ~LetGo(g)
<1> DEFINE r == apply(k, on, c)
<1>1. /\ r \in Fields /\ r.active_ \in {k.active_, NoGuard}
      /\ on /\ ~overridden_ => r.active_ = k.active_ /\ r.closing \subseteq k.closing \cup {k.pending_}
  BY ApplyKeepsActive
<1> HIDE DEF r
<1>2. ks'.active_ = r.active_ /\ ks'.closing = r.closing
  BY <1>1 DEF Finish, r, Fields, KillSwitchFields
<1>3. ASSUME NEW g \in Guards, g = ks.active_ PROVE g \notin ks.closing \cup {ks.pending_}
  BY <1>3, UpLemma, GuardsAssumption DEF Sound, Slots
<1> QED BY <1>1, <1>2, <1>3 DEF LetGo

\* What the user and the queued calls do: no guard becomes the active one, and
\* with the setting on the active one is kept.
LEMMA HandlerRoles ==
    ASSUME IndInv, UserStep \/ RunQueuedApply \/ RunQueuedPort \/ RetryTimeout \/ RespawnIntervalExpired
    PROVE  ks'.active_ \in {ks.active_, NoGuard} /\ \A g \in Guards : ~LetGo(g)
<1> USE DEF Fields
<1>t. TypeOK /\ ks \in Fields /\ kill_switch \in BOOLEAN /\ cfg \in Configs
  BY DEF IndInv, TypeOK
<1>q. ASSUME Up, ks'.active_ = ks.active_, ks'.closing = ks.closing
      PROVE  ks'.active_ \in {ks.active_, NoGuard} /\ \A g \in Guards : ~LetGo(g)
  BY <1>q, UpLemma, GuardsAssumption DEF Sound, Slots, LetGo
<1>1. ASSUME NEW on \in BOOLEAN, NEW c \in Configs, ChangeSettings(on, c)
      PROVE  ks'.active_ \in {ks.active_, NoGuard} /\ \A g \in Guards : ~LetGo(g)
  BY <1>t, <1>1, ApplyRoles DEF ChangeSettings, Change
<1>2. ASSUME NEW on \in BOOLEAN, NEW c \in Configs, AcceptDialog(on, c) \/ SetApiPort(c)
      PROVE  ks'.active_ \in {ks.active_, NoGuard} /\ \A g \in Guards : ~LetGo(g)
  BY <1>q, <1>2 DEF AcceptDialog, SetApiPort, Change
<1>3. ASSUME RunQueuedApply \/ Retry
      PROVE  ks'.active_ \in {ks.active_, NoGuard} /\ \A g \in Guards : ~LetGo(g)
  BY <1>t, <1>3, ApplyRoles DEF RunQueuedApply, Retry, settings
<1>4. ASSUME RunQueuedPort
      PROVE  ks'.active_ \in {ks.active_, NoGuard} /\ \A g \in Guards : ~LetGo(g)
  <2>1. CASE Finish(apply(ks, kill_switch, cfg), proc)
    BY <1>t, <1>4, <2>1, ApplyRoles DEF RunQueuedPort, settings
  <2>2. CASE UNCHANGED <<ks, proc>>
    BY <1>q, <1>4, <2>2 DEF RunQueuedPort
  <2> QED BY <1>4, <2>1, <2>2 DEF RunQueuedPort
<1>5. ASSUME RetryTimeout
      PROVE  ks'.active_ \in {ks.active_, NoGuard} /\ \A g \in Guards : ~LetGo(g)
  <2> DEFINE k == [ks EXCEPT !.retry = FALSE]
  <2>1. k \in Fields /\ k.active_ = ks.active_ /\ k.pending_ = ks.pending_ /\ k.closing = ks.closing
    BY <1>t DEF KillSwitchFields
  <2>2. Up /\ SlotLeft /\ kill_switch' = kill_switch
        /\ (Finish(k, proc) \/ Finish(apply(k, kill_switch, cfg), proc))
    BY <1>5 DEF RetryTimeout, settings
  <2> HIDE DEF k
  <2>3. CASE Finish(k, proc)
    BY <1>q, <2>1, <2>2, <2>3 DEF Finish
  <2>4. CASE Finish(apply(k, kill_switch, cfg), proc)
    BY <1>t, <2>1, <2>2, <2>4, ApplyRoles
  <2> QED BY <2>2, <2>3, <2>4
<1>6. ASSUME noteIdentityUnsupported
      PROVE  ks'.active_ \in {ks.active_, NoGuard} /\ \A g \in Guards : ~LetGo(g)
  <2> DEFINE k == [ks EXCEPT !.identityUnsupported_ = TRUE]
  <2>1. k \in Fields /\ k.active_ = ks.active_ /\ k.pending_ = ks.pending_ /\ k.closing = ks.closing
    BY <1>t DEF KillSwitchFields
  <2>2. Up /\ SlotLeft /\ kill_switch' = kill_switch /\ Finish(apply(k, kill_switch, cfg), proc)
    BY <1>6 DEF noteIdentityUnsupported, settings
  <2> HIDE DEF k
  <2> QED BY <1>t, <2>1, <2>2, ApplyRoles
<1>7. ASSUME NEW c \in Configs, permitExtraCore(c)
      PROVE  ks'.active_ \in {ks.active_, NoGuard} /\ \A g \in Guards : ~LetGo(g)
  <2>1. Up /\ SlotLeft /\ kill_switch' = kill_switch
        /\ \E w : Finish([apply(ks, kill_switch, c) EXCEPT !.waiters = w], proc)
    BY <1>7 DEF permitExtraCore, Change
  <2> QED BY <1>t, <2>1, ApplyRoles
<1>8. ASSUME whenSettled \/ BeginExit \/ RespawnIntervalExpired
      PROVE  ks'.active_ \in {ks.active_, NoGuard} /\ \A g \in Guards : ~LetGo(g)
  <2>1. Up /\ ks'.active_ = ks.active_ /\ ks'.closing = ks.closing
    BY <1>t, <1>8 DEF whenSettled, BeginExit, RespawnIntervalExpired, KillSwitchFields
  <2> QED BY <1>q, <2>1
<1>9. ASSUME shutdown \/ GuiGone
      PROVE  ks'.active_ \in {ks.active_, NoGuard} /\ \A g \in Guards : ~LetGo(g)
  <2>1. ASSUME shutdown PROVE ks'.active_ = NoGuard /\ ks'.shutdown_
    BY <1>t, <2>1 DEF shutdown, KillSwitchFields
  <2>2. ASSUME GuiGone PROVE ks'.active_ = NoGuard /\ ks'.closing = {}
    BY <2>2 DEF GuiGone, NewKillSwitch
  <2> QED BY <1>9, <2>1, <2>2 DEF LetGo
<1> QED BY <1>1, <1>2, <1>3, <1>4, <1>5, <1>6, <1>7, <1>8, <1>9 DEF UserStep

\* A step that reads and writes no output keeps the reports truthful if it moves
\* guards only between states without a report and makes no guard the active one.
LEMMA SilentTruth ==
    ASSUME Truthful, out' = out, ks'.active_ \in {ks.active_, NoGuard}, ks.active_ \in Guards \cup {NoGuard},
           \A g \in Guards : proc'[g] = proc[g] \/ (proc[g] \in Unreported /\ proc'[g] \in Unreported)
    PROVE  Truthful'
<1>1. ASSUME NEW g \in Guards, EnforcedOrReporting(g) PROVE EnforcedOrReporting(g)'
  BY <1>1 DEF EnforcedOrReporting, Enforced, LossUnread, Unreported
<1>2. Silent'
  BY DEF Truthful, Silent
<1>3. ReadyFirst'
  BY <1>1 DEF Truthful, ReadyFirst
<1>4. ActiveBacked'
  <2>1. CASE ks'.active_ = NoGuard
    BY <2>1 DEF ActiveBacked
  <2>2. CASE ks'.active_ # NoGuard
    <3>1. PICK g \in Guards : g = ks.active_ /\ g = ks'.active_ /\ EnforcedOrReporting(g)
      BY <2>2 DEF Truthful, ActiveBacked
    <3>2. EnforcedOrReporting(g)'
      BY <1>1, <3>1
    <3> QED BY <3>1, <3>2 DEF ActiveBacked, EnforcedOrReporting, Enforced, LossUnread
  <2> QED BY <2>1, <2>2
<1> QED BY <1>2, <1>3, <1>4 DEF Truthful


\* The GUI counts on a guard only while it runs.
LEMMA RetiredLemma == Retired /\ [Next]_vars => Retired'
<1> SUFFICES ASSUME Retired, [Next]_vars PROVE Retired'
  OBVIOUS
<1>1. CASE GuiGone
  BY <1>1 DEF GuiGone, NewKillSwitch, Retired
<1>2. CASE UserStep /\ ~GuiGone
  <2>1. Up /\ gui' = gui
    BY <1>2 DEF UserStep, ChangeSettings, AcceptDialog, SetApiPort, permitExtraCore, Retry, whenSettled,
                noteIdentityUnsupported, BeginExit, shutdown, Change
  <2> QED BY <2>1 DEF Retired, Up
<1>3. CASE UiStep
  <2>1. Up /\ gui' = gui
    BY <1>3 DEF UiStep, RunQueuedApply, RunQueuedPort, RetryTimeout, RespawnIntervalExpired, Started,
                onStartFailed, onOutput, onReadyTimeout
  <2> QED BY <2>1 DEF Retired, Up
<1>4. CASE GuardStep \/ UNCHANGED vars
  <2>1. UNCHANGED <<ks, gui>>
    BY <1>4 DEF GuardStep, ReadConfigFails, ArmSucceeds, ArmFails, RulesRemoved, FatalEvent, FatalExit,
                DisarmAndExit, Die, stopHard, Report, vars
  <2> QED BY <2>1 DEF Retired, Up
<1> QED BY <1>1, <1>2, <1>3, <1>4 DEF Next

\* Every guard whose rules are installed and that is let go has a replacement.
Replaced ==
    \A g \in Guards : LetGo(g) /\ Enforced(g) /\ ~LossUnread(g) =>
        \E h \in Guards \ {g} : h = ks'.active_ /\ EnforcedOrReporting(h)'

\* The active guard is kept by a handler that closes at most one other guard.
LEMMA KeptLemma ==
    ASSUME IndInv, Retired, NEW g \in Guards, NEW d \in Guards \cup {NoGuard},
           ks'.closing \subseteq ks.closing \cup {d}, d # ks.active_ \/ d = NoGuard
    PROVE  ~LetGo(g)
<1>1. CASE Up
  BY <1>1, UpLemma, GuardsAssumption DEF Sound, Slots, LetGo
<1>2. CASE ~Up
  BY <1>2, GuardsAssumption DEF Retired, LetGo
<1> QED BY <1>1, <1>2

\* What a step of a guard adds to its output: READY when its rules are installed
\* and nothing is reported yet, nothing when they are removed, and the loss when
\* it fails or ends.
LEMMA ReportKinds ==
    ASSUME GuardStep
    PROVE  \E g \in Guards : \E lines, st :
             /\ Report(g, lines, st) /\ lines \in Seq(Lines)
             /\ \/ proc[g] = "configured" /\ st = "enforcing" /\ lines = <<Ready>>
                \/ proc[g] = "enforcing" /\ st = "breached" /\ lines = <<>>
                \/ /\ st \in {"failing", "exited"} /\ Len(lines) > 0
                   /\ \A i \in DOMAIN lines : lines[i].verb # "READY"
<1>1. PICK g \in Guards :
          \/ ReadConfigFails(g) \/ ArmSucceeds(g) \/ RulesRemoved(g) \/ FatalEvent(g) \/ FatalExit(g)
          \/ DisarmAndExit(g) \/ Die(g) \/ stopHard(g)
          \/ \E code \in GuardCodes : ArmFails(g, code)
  BY DEF GuardStep
<1>2. /\ Ready \in Lines /\ Exit \in Lines /\ Exit.verb # "READY"
      /\ \A code \in GuardCodes : /\ ErrorLine(code) \in Lines /\ ErrorLine(code).verb # "READY"
                                  /\ FailLine(code) \in Lines /\ FailLine(code).verb # "READY"
  BY DEF Ready, Exit, Lines, ErrorLine, FailLine
<1>3. "privilege" \in GuardCodes /\ "internal" \in GuardCodes
  BY DEF GuardCodes
<1>4. ASSUME NEW l \in Lines, l.verb # "READY"
      PROVE  /\ <<l>> \in Seq(Lines) /\ Len(<<l>>) > 0 /\ \A i \in DOMAIN <<l>> : <<l>>[i].verb # "READY"
             /\ <<l, Exit>> \in Seq(Lines) /\ Len(<<l, Exit>>) > 0
             /\ \A i \in DOMAIN <<l, Exit>> : <<l, Exit>>[i].verb # "READY"
  BY <1>2, <1>4
<1>5. ASSUME ArmSucceeds(g) PROVE Report(g, <<Ready>>, "enforcing") /\ proc[g] = "configured" /\ <<Ready>> \in Seq(Lines)
  BY <1>2, <1>5 DEF ArmSucceeds
<1>6. ASSUME RulesRemoved(g) PROVE Report(g, <<>>, "breached") /\ proc[g] = "enforcing" /\ <<>> \in Seq(Lines)
  BY <1>6 DEF RulesRemoved
<1>7. ASSUME FatalExit(g) \/ DisarmAndExit(g) \/ Die(g) \/ stopHard(g) PROVE Report(g, <<Exit>>, "exited")
  BY <1>7 DEF FatalExit, DisarmAndExit, Die, stopHard
<1>8. ASSUME FatalEvent(g) PROVE Report(g, <<FailLine("internal")>>, "failing")
  BY <1>8 DEF FatalEvent
<1>9. ASSUME ReadConfigFails(g) \/ \E code \in GuardCodes : ArmFails(g, code)
      PROVE  \E code \in GuardCodes : Report(g, <<ErrorLine(code), Exit>>, "exited")
  BY <1>3, <1>9 DEF ReadConfigFails, ArmFails
<1>10. CASE ArmSucceeds(g)
  BY <1>5, <1>10
<1>11. CASE RulesRemoved(g)
  BY <1>6, <1>11
<1>12. CASE FatalExit(g) \/ DisarmAndExit(g) \/ Die(g) \/ stopHard(g)
  BY <1>2, <1>4, <1>7, <1>12
<1>13. CASE FatalEvent(g)
  BY <1>2, <1>3, <1>4, <1>8, <1>13
<1>14. CASE ReadConfigFails(g) \/ \E code \in GuardCodes : ArmFails(g, code)
  <2>1. PICK code \in GuardCodes : Report(g, <<ErrorLine(code), Exit>>, "exited")
    BY <1>9, <1>14
  <2> QED BY <1>2, <1>4, <2>1
<1> QED BY <1>1, <1>10, <1>11, <1>12, <1>13, <1>14

\* A guard's own steps keep its reports truthful.
LEMMA GuardTruth ==
    ASSUME IndInv, Truthful, GuardStep
    PROVE  Truthful'
<1>t. out \in [Guards -> Seq(Lines)] /\ proc \in [Guards -> ProcStates] /\ ks.active_ \in Guards \cup {NoGuard}
  BY DEF IndInv, TypeOK, KillSwitchFields
<1>1. PICK g \in Guards : \E lines, st :
             /\ Report(g, lines, st) /\ lines \in Seq(Lines)
             /\ \/ proc[g] = "configured" /\ st = "enforcing" /\ lines = <<Ready>>
                \/ proc[g] = "enforcing" /\ st = "breached" /\ lines = <<>>
                \/ /\ st \in {"failing", "exited"} /\ Len(lines) > 0
                   /\ \A i \in DOMAIN lines : lines[i].verb # "READY"
  BY ReportKinds
<1>2. PICK lines, st :
             /\ Report(g, lines, st) /\ lines \in Seq(Lines)
             /\ \/ proc[g] = "configured" /\ st = "enforcing" /\ lines = <<Ready>>
                \/ proc[g] = "enforcing" /\ st = "breached" /\ lines = <<>>
                \/ /\ st \in {"failing", "exited"} /\ Len(lines) > 0
                   /\ \A i \in DOMAIN lines : lines[i].verb # "READY"
  BY <1>1
<1>3. /\ proc'[g] = st /\ out'[g] = out[g] \o lines /\ ks' = ks
      /\ \A h \in Guards : h # g => proc'[h] = proc[h] /\ out'[h] = out[h]
  BY <1>t, <1>2 DEF Report
<1>4. PICK s \in Seq(Lines) : s = out[g]
  BY <1>t
<1>5. st \notin Unreported
  BY <1>2 DEF Unreported
<1>6. /\ EnforcedOrReporting(g)'
      /\ \A i \in DOMAIN out'[g] : out'[g][i].verb = "READY" => i = 1
  <2>0. \A i \in DOMAIN s : s[i].verb = "READY" => i = 1
    BY <1>4 DEF Truthful, ReadyFirst
  <2>1. CASE proc[g] = "configured" /\ st = "enforcing" /\ lines = <<Ready>>
    <3>1. s = <<>>
      BY <1>4, <2>1 DEF Truthful, Silent, Unreported
    <3>2. out'[g] = <<Ready>>
      BY <1>3, <1>4, <2>1, <3>1
    <3>3. \A i \in DOMAIN out'[g] : i = 1
      BY <3>2
    <3> QED BY <1>3, <2>1, <3>3 DEF EnforcedOrReporting, Enforced
  <2>2. CASE proc[g] = "enforcing" /\ st = "breached" /\ lines = <<>>
    <3>1. out'[g] = s
      BY <1>3, <1>4, <2>2
    <3> QED BY <1>3, <2>0, <2>2, <3>1 DEF EnforcedOrReporting
  <2>3. CASE Len(lines) > 0 /\ \A i \in DOMAIN lines : lines[i].verb # "READY"
    <3>0. s \o lines \in Seq(Lines) /\ out'[g] = s \o lines
      BY <1>2, <1>3, <1>4
    <3>1. PICK u \in Seq(Lines) : u = out'[g] /\ u = s \o lines
      BY <3>0
    <3>2. /\ Len(s) \in Nat /\ Len(lines) \in Nat /\ Len(u) = Len(s) + Len(lines)
          /\ DOMAIN s = 1..Len(s) /\ DOMAIN lines = 1..Len(lines) /\ DOMAIN u = 1..(Len(s) + Len(lines))
          /\ \A i \in 1..(Len(s) + Len(lines)) : u[i] = IF i <= Len(s) THEN s[i] ELSE lines[i - Len(s)]
      BY <1>2, <3>1
    <3>3. \A i \in DOMAIN u : \/ i \in DOMAIN s /\ u[i] = s[i]
                              \/ i - Len(s) \in DOMAIN lines /\ u[i] = lines[i - Len(s)]
      BY <3>2
    <3>4. \A i \in DOMAIN u : u[i].verb = "READY" => i = 1
      BY <2>0, <2>3, <3>3
    <3>5. Len(u) \in DOMAIN u /\ Len(u) - Len(s) \in DOMAIN lines /\ u[Len(u)] = lines[Len(u) - Len(s)]
      BY <2>3, <3>2
    <3>6. u[Len(u)].verb # "READY"
      BY <2>3, <3>5
    <3>7. LossUnread(g)'
      BY <3>1, <3>5, <3>6 DEF LossUnread
    <3> QED BY <3>1, <3>4, <3>7 DEF EnforcedOrReporting
  <2> QED BY <1>2, <2>1, <2>2, <2>3
<1>7. ASSUME NEW h \in Guards, h # g, EnforcedOrReporting(h) PROVE EnforcedOrReporting(h)'
  BY <1>3, <1>7 DEF EnforcedOrReporting, Enforced, LossUnread
<1>8. Silent'
  BY <1>3, <1>5 DEF Truthful, Silent
<1>9. ReadyFirst'
  <2>1. ASSUME NEW h \in Guards, NEW i \in DOMAIN out'[h], out'[h][i].verb = "READY"
        PROVE  i = 1 /\ EnforcedOrReporting(h)'
    <3>1. CASE h = g
      BY <1>6, <2>1, <3>1
    <3>2. CASE h # g
      BY <1>3, <1>7, <2>1, <3>2 DEF Truthful, ReadyFirst
    <3> QED BY <3>1, <3>2
  <2> QED BY <2>1 DEF ReadyFirst
<1>10. ActiveBacked'
  <2>1. CASE ks.active_ = NoGuard
    BY <1>3, <2>1 DEF ActiveBacked
  <2>2. CASE ks.active_ # NoGuard
    <3>1. PICK h \in Guards : h = ks.active_ /\ h = ks'.active_ /\ EnforcedOrReporting(h)
      BY <1>t, <1>3, <2>2 DEF Truthful, ActiveBacked
    <3>2. EnforcedOrReporting(h)'
      BY <1>6, <1>7, <3>1
    <3> QED BY <3>1, <3>2 DEF ActiveBacked, EnforcedOrReporting, Enforced, LossUnread
  <2> QED BY <2>1, <2>2
<1> QED BY <1>8, <1>9, <1>10 DEF Truthful


\* Reading the first line of a guard's output keeps the reports truthful: READY may make
\* its guard the active one, and any other line ends the GUI's trust in it.
LEMMA ReadTruth ==
    ASSUME Truthful, ks.active_ \in Guards \cup {NoGuard},
           NEW g \in Guards, NEW s \in Seq(Lines), s = out[g], s # <<>>, out'[g] = Tail(s),
           \A h \in Guards : h # g =>
             out'[h] = out[h] /\ (proc'[h] = proc[h] \/ (proc[h] = "free" /\ proc'[h] = "launching")),
           proc'[g] = proc[g] \/ (proc'[g] = "free" /\ Tail(s) = <<>>),
           \/ s[1].verb = "READY" /\ proc'[g] = proc[g] /\ ks'.active_ \in {ks.active_, g}
           \/ s[1].verb # "READY" /\ ks'.active_ \in {ks.active_, NoGuard} \ {g}
    PROVE  Truthful'
<1>1. /\ Len(s) \in Nat \ {0} /\ DOMAIN s = 1..Len(s) /\ DOMAIN Tail(s) = 1..(Len(s) - 1)
      /\ \A i \in 1..(Len(s) - 1) : Tail(s)[i] = s[i + 1]
  OBVIOUS
<1>2. \A i \in DOMAIN s : s[i].verb = "READY" => i = 1
  BY DEF Truthful, ReadyFirst
<1>3. \A i \in DOMAIN Tail(s) : Tail(s)[i].verb # "READY"
  <2>1. \A i \in 1..(Len(s) - 1) : i + 1 \in DOMAIN s /\ i + 1 # 1
    BY <1>1
  <2> QED BY <1>1, <1>2, <2>1
<1>4. ASSUME NEW h \in Guards, h # g, EnforcedOrReporting(h) PROVE EnforcedOrReporting(h)'
  BY <1>4 DEF EnforcedOrReporting, Enforced, LossUnread
<1>5. ASSUME s[1].verb = "READY" PROVE EnforcedOrReporting(g)'
  <2>1. EnforcedOrReporting(g) /\ proc'[g] = proc[g]
    BY <1>1, <1>5 DEF Truthful, ReadyFirst
  <2>2. CASE Enforced(g) \/ proc[g] = "breached"
    BY <2>1, <2>2 DEF EnforcedOrReporting, Enforced
  <2>3. CASE LossUnread(g)
    <3>1. PICK i \in DOMAIN s : s[i].verb # "READY"
      BY <2>3 DEF LossUnread
    <3>2. i # 1
      BY <1>5, <3>1
    <3>3. i - 1 \in DOMAIN Tail(s) /\ Tail(s)[i - 1] = s[i]
      BY <1>1, <3>2
    <3>4. LossUnread(g)'
      BY <3>1, <3>3 DEF LossUnread
    <3> QED BY <3>4 DEF EnforcedOrReporting
  <2> QED BY <2>1, <2>2, <2>3 DEF EnforcedOrReporting
<1>6. Silent'
  <2>1. proc[g] \notin Unreported
    BY DEF Truthful, Silent
  <2>2. ASSUME NEW h \in Guards, proc'[h] \in Unreported PROVE out'[h] = <<>>
    <3>1. CASE h = g
      BY <2>1, <2>2, <3>1
    <3>2. CASE h # g
      BY <2>2, <3>2 DEF Truthful, Silent, Unreported
    <3> QED BY <3>1, <3>2
  <2> QED BY <2>2 DEF Silent
<1>7. ReadyFirst'
  <2>1. ASSUME NEW h \in Guards, NEW i \in DOMAIN out'[h], out'[h][i].verb = "READY"
        PROVE  i = 1 /\ EnforcedOrReporting(h)'
    <3>1. h # g
      BY <1>3, <2>1
    <3> QED BY <1>4, <2>1, <3>1 DEF Truthful, ReadyFirst
  <2> QED BY <2>1 DEF ReadyFirst
<1>8. ActiveBacked'
  <2>1. CASE ks'.active_ = NoGuard
    BY <2>1 DEF ActiveBacked
  <2>2. CASE ks'.active_ = g /\ s[1].verb = "READY"
    BY <1>5, <2>2 DEF ActiveBacked, EnforcedOrReporting, Enforced, LossUnread
  <2>3. CASE ks'.active_ \notin {NoGuard, g}
    <3>1. PICK h \in Guards : h = ks.active_ /\ h = ks'.active_ /\ h # g /\ EnforcedOrReporting(h)
      BY <2>3 DEF Truthful, ActiveBacked
    <3>2. EnforcedOrReporting(h)'
      BY <1>4, <3>1
    <3> QED BY <3>1, <3>2 DEF ActiveBacked, EnforcedOrReporting, Enforced, LossUnread
  <2> QED BY <2>1, <2>2, <2>3
<1> QED BY <1>6, <1>7, <1>8 DEF Truthful

\* The handler of a guard's output.
LEMMA OutputTruth ==
    ASSUME IndInv, OutputEnds, Truthful, Retired, NEW g \in Guards, onOutput(g)
    PROVE  Truthful' /\ Replaced
<1> USE DEF Fields
<1>t. /\ TypeOK /\ proc \in [Guards -> ProcStates] /\ out \in [Guards -> Seq(Lines)]
      /\ Up /\ kill_switch \in BOOLEAN /\ cfg \in Configs /\ (g = ks.active_ => SlotLeft)
  BY DEF IndInv, TypeOK, onOutput
<1>u. /\ Sound(ks) /\ ks \in Fields /\ ks.pending_ \notin FreeSlots
      /\ ks.active_ \notin ks.closing /\ (ks.active_ = NoGuard \/ ks.active_ # ks.pending_)
      /\ ks.active_ \in Guards \cup {NoGuard}
  BY <1>t, UpLemma, GuardsAssumption DEF Sound, Slots, KillSwitchFields
<1>1. PICK s \in Seq(Lines) : s = out[g]
  BY <1>t
<1>2. s # <<>> /\ out' = [out EXCEPT ![g] = Tail(s)]
  BY <1>1 DEF onOutput
<1>3. PICK line \in Lines : line = Head(s) /\ line = s[1] /\ 1 \in DOMAIN s
  BY <1>2
<1>4. g \notin FreeSlots
  BY <1>1, <1>2 DEF OutputEnds, FreeSlots
<1>5. \/ line = Exit /\ Finish(deleteLater(handleLine(ks, g, line), g), [proc EXCEPT ![g] = "free"])
      \/ line # Exit /\ Finish(handleLine(ks, g, line), proc)
  BY <1>1, <1>3 DEF onOutput
<1>6. line = Exit => Tail(s) = <<>>
  <2>1. line = Exit => Len(s) = 1
    BY <1>1, <1>3 DEF OutputEnds
  <2>2. Len(s) = 1 => Tail(s) = <<>>
    <3>1. Tail(s) \in Seq(Lines) /\ Len(Tail(s)) = Len(s) - 1
      BY <1>2
    <3>2. \A u \in Seq(Lines) : Len(u) = 0 => u = <<>>
      OBVIOUS
    <3>3. Len(s) = 1 => Len(Tail(s)) = 0
      BY <3>1
    <3> QED BY <3>1, <3>2, <3>3, Zenon
  <2> QED BY <2>1, <2>2
<1>7. /\ out'[g] = Tail(s)
      /\ \A h \in Guards : h # g =>
           out'[h] = out[h] /\ (proc'[h] = proc[h] \/ (proc[h] = "free" /\ proc'[h] = "launching"))
      /\ proc'[g] = proc[g] \/ (line = Exit /\ proc'[g] = "free")
  <2>1. PICK k : IF line = Exit THEN Finish(k, [proc EXCEPT ![g] = "free"]) ELSE Finish(k, proc)
    BY <1>5
  <2>2. proc[g] # "free"
    BY <1>4 DEF FreeSlots
  <2> QED BY <1>t, <1>2, <2>1, <2>2, LaunchLemma DEF ProcStates
<1>8. \/ line.verb = "READY" /\ line # Exit
      \/ line.verb # "READY" /\ line.code \in Codes
  <2>1. CASE line = Ready
    BY <2>1, LineLemma DEF Ready
  <2>2. CASE line = Exit
    BY <2>2 DEF Exit, Codes
  <2>3. CASE line \in [verb : {"ERROR", "FAIL"}, code : GuardCodes]
    BY <2>3 DEF GuardCodes, Codes
  <2> QED BY <1>3, <2>1, <2>2, <2>3 DEF Lines
<1>9. CASE line.verb = "READY" /\ line # Exit
  <2>1. ks' = onReady(ks, g) /\ proc'[g] = proc[g]
    BY <1>5, <1>7, <1>9 DEF handleLine, Finish
  <2>2. IF g = ks.pending_ THEN ks'.active_ = g ELSE ks' = ks
    BY <1>u, <2>1, OnReadyActive
  <2>3. Truthful'
    BY <1>u, <1>1, <1>2, <1>3, <1>7, <1>9, <2>1, <2>2, ReadTruth
  <2>4. ASSUME NEW h \in Guards, LetGo(h)
        PROVE  \E a \in Guards \ {h} : a = ks'.active_ /\ EnforcedOrReporting(a)'
    <3>1. CASE g = ks.pending_
      <4>1. g # h /\ g = ks'.active_
        BY <1>u, <2>2, <2>4, <3>1, GuardsAssumption DEF LetGo
      <4>2. EnforcedOrReporting(g)'
        BY <2>3, <4>1, GuardsAssumption DEF Truthful, ActiveBacked, EnforcedOrReporting, Enforced, LossUnread
      <4> QED BY <4>1, <4>2
    <3>2. CASE g # ks.pending_
      <4>1. ks'.closing \subseteq ks.closing \cup {NoGuard}
        BY <2>2, <3>2
      <4> QED BY <2>4, <4>1, KeptLemma
    <3> QED BY <3>1, <3>2
  <2> QED BY <2>3, <2>4 DEF Replaced
<1>10. CASE line.verb # "READY" /\ line.code \in Codes
  <2> DEFINE r == lose(ks, g, line.code)
  <2>1. r = handleLine(ks, g, line)
    BY <1>10 DEF handleLine
  <2>2. Sound(r) /\ g \notin {r.active_, r.pending_} /\ r \in Fields
    BY <1>t, <1>u, <1>4, <1>10, LoseLemma DEF Sound
  <2>3. /\ r.active_ \in {ks.active_, NoGuard}
        /\ g # ks.active_ => r.active_ = ks.active_ /\ r.closing \subseteq ks.closing \cup {g}
    BY <1>t, <1>u, <1>10, LoseKeepsActive
  <2> HIDE DEF r
  <2>4. ks'.active_ = r.active_ /\ ks'.closing \subseteq r.closing
    <3>1. ks' = deleteLater(r, g) \/ ks' = r
      BY <1>5, <2>1 DEF Finish
    <3>2. deleteLater(r, g).active_ = r.active_ /\ deleteLater(r, g).closing \subseteq r.closing
      BY <2>2 DEF deleteLater, KillSwitchFields
    <3> QED BY <3>1, <3>2
  <2>5. Truthful'
    <3>1. ks'.active_ \in {ks.active_, NoGuard} \ {g}
      BY <2>2, <2>3, <2>4
    <3> QED BY <1>u, <1>1, <1>2, <1>3, <1>6, <1>7, <1>10, <3>1, ReadTruth
  <2>6. ASSUME NEW h \in Guards, LetGo(h), ~LossUnread(h) PROVE FALSE
    <3>1. CASE h = g
      BY <1>1, <1>3, <1>10, <2>6, <3>1 DEF LossUnread
    <3>2. CASE h # g
      <4>1. g # ks.active_
        BY <2>6, <3>2 DEF LetGo
      <4>2. ks'.closing \subseteq ks.closing \cup {g}
        BY <2>3, <2>4, <4>1
      <4> QED BY <2>6, <4>1, <4>2, KeptLemma
    <3> QED BY <3>1, <3>2
  <2> QED BY <2>5, <2>6 DEF Replaced
<1> QED BY <1>8, <1>9, <1>10

\* A guard that could not be started, or was not ready in time, was not the active one.
LEMMA LaunchTruth ==
    ASSUME IndInv, OutputEnds, Truthful, Retired, NEW g \in Guards,
           Started(g) \/ onStartFailed(g) \/ onReadyTimeout(g)
    PROVE  Truthful' /\ Replaced
<1> USE DEF Fields
<1>t. /\ proc \in [Guards -> ProcStates] /\ out \in [Guards -> Seq(Lines)]
      /\ Up /\ kill_switch \in BOOLEAN /\ cfg \in Configs /\ out' = out /\ "internal" \in Codes
  BY DEF IndInv, TypeOK, Started, onStartFailed, onReadyTimeout, Codes
<1>u. /\ Sound(ks) /\ ks \in Fields /\ ks.pending_ \notin FreeSlots
      /\ ks.active_ \notin ks.closing /\ (ks.active_ = NoGuard \/ ks.active_ # ks.pending_)
      /\ ks.active_ \in Guards \cup {NoGuard}
  BY <1>t, UpLemma, GuardsAssumption DEF Sound, Slots, KillSwitchFields
<1>1. CASE Started(g)
  <2>1. /\ ks' = ks
        /\ \A h \in Guards : proc'[h] = proc[h] \/ (proc[h] \in Unreported /\ proc'[h] \in Unreported)
    BY <1>t, <1>1 DEF Started, Unreported
  <2>2. Truthful'
    BY <1>t, <1>u, <2>1, SilentTruth
  <2>3. ks'.closing \subseteq ks.closing \cup {NoGuard}
    BY <2>1
  <2> QED BY <2>2, <2>3, KeptLemma DEF Replaced
<1>2. CASE onStartFailed(g) \/ onReadyTimeout(g)
  <2> DEFINE r == lose(ks, g, "internal")
  <2>1. g # ks.active_ /\ g \notin FreeSlots
    <3>1. ASSUME onStartFailed(g) PROVE g # ks.active_ /\ g \notin FreeSlots
      <4>1. proc[g] = "launching" /\ out[g] = <<>>
        BY <3>1 DEF onStartFailed, OutputEnds
      <4>2. ~EnforcedOrReporting(g)
        BY <4>1 DEF EnforcedOrReporting, Enforced, LossUnread
      <4> QED BY <4>1, <4>2, GuardsAssumption DEF Truthful, ActiveBacked, FreeSlots
    <3>2. ASSUME onReadyTimeout(g) PROVE g # ks.active_ /\ g \notin FreeSlots
      BY <1>u, <3>2, GuardsAssumption DEF onReadyTimeout
    <3> QED BY <1>2, <3>1, <3>2
  <2>2. r.active_ = ks.active_ /\ r.closing \subseteq ks.closing \cup {g}
    BY <1>t, <1>u, <2>1, LoseKeepsActive
  <2>3. r \in Fields
    BY <1>t, <1>u, <2>1, LoseLemma DEF Sound
  <2>4. \/ Finish(r, proc)
        \/ proc[g] = "launching" /\ Finish(deleteLater(r, g), [proc EXCEPT ![g] = "free"])
    BY <1>2 DEF onStartFailed, onReadyTimeout
  <2> HIDE DEF r
  <2>5. ks'.active_ = ks.active_ /\ ks'.closing \subseteq ks.closing \cup {g}
    BY <2>2, <2>3, <2>4 DEF Finish, deleteLater, KillSwitchFields
  <2>6. \A h \in Guards : proc'[h] = proc[h] \/ (proc[h] \in Unreported /\ proc'[h] \in Unreported)
    <3>1. CASE Finish(r, proc)
      BY <1>t, <3>1, LaunchLemma DEF Unreported
    <3>2. CASE proc[g] = "launching" /\ Finish(deleteLater(r, g), [proc EXCEPT ![g] = "free"])
      <4>1. PICK k : Finish(k, [proc EXCEPT ![g] = "free"])
        BY <3>2
      <4>2. [proc EXCEPT ![g] = "free"] \in [Guards -> ProcStates]
        BY <1>t DEF ProcStates
      <4>3. \A h \in Guards : proc'[h] = [proc EXCEPT ![g] = "free"][h] \/ (proc[h] = "free" /\ proc'[h] = "launching")
        BY <4>1, <4>2, LaunchLemma
      <4> QED BY <1>t, <3>2, <4>3 DEF Unreported
    <3> QED BY <2>4, <3>1, <3>2
  <2>7. Truthful'
    BY <1>t, <1>u, <2>5, <2>6, SilentTruth
  <2> QED BY <2>1, <2>5, <2>7, KeptLemma DEF Replaced
<1> QED BY <1>1, <1>2

\* Every step keeps the reports truthful, and replaces an active guard only by a ready one.
LEMMA TruthLemma == IndInv /\ OutputEnds /\ Truthful /\ Retired /\ [Next]_vars => Truthful' /\ Replaced
<1> SUFFICES ASSUME IndInv, OutputEnds, Truthful, Retired, [Next]_vars PROVE Truthful' /\ Replaced
  OBVIOUS
<1>t. proc \in [Guards -> ProcStates] /\ ks.active_ \in Guards \cup {NoGuard}
  BY DEF IndInv, TypeOK, KillSwitchFields
<1>k. ASSUME ks' = ks PROVE Replaced
  <2>1. ks'.closing \subseteq ks.closing \cup {NoGuard}
    BY <1>k
  <2> QED BY <2>1, KeptLemma DEF Replaced
<1>1. ASSUME UserStep \/ RunQueuedApply \/ RunQueuedPort \/ RetryTimeout \/ RespawnIntervalExpired
      PROVE  Truthful' /\ Replaced
  <2>1. UNCHANGED out /\ (UNCHANGED proc \/ \E k : Finish(k, proc))
    BY <1>1 DEF UserStep, ChangeSettings, AcceptDialog, SetApiPort, permitExtraCore, Retry, whenSettled,
                noteIdentityUnsupported, BeginExit, shutdown, GuiGone, RunQueuedApply, RunQueuedPort,
                RetryTimeout, RespawnIntervalExpired
  <2>2. \A h \in Guards : proc'[h] = proc[h] \/ (proc[h] \in Unreported /\ proc'[h] \in Unreported)
    BY <1>t, <2>1, LaunchLemma DEF Unreported
  <2>3. ks'.active_ \in {ks.active_, NoGuard} /\ \A g \in Guards : ~LetGo(g)
    BY <1>1, HandlerRoles
  <2> QED BY <1>t, <2>1, <2>2, <2>3, SilentTruth DEF Replaced
<1>2. ASSUME GuardStep PROVE Truthful' /\ Replaced
  <2>1. ks' = ks
    BY <1>2 DEF GuardStep, ReadConfigFails, ArmSucceeds, ArmFails, RulesRemoved, FatalEvent, FatalExit,
                DisarmAndExit, Die, stopHard, Report
  <2> QED BY <1>2, <1>k, <2>1, GuardTruth
<1>3. ASSUME UNCHANGED vars PROVE Truthful' /\ Replaced
  BY <1>t, <1>3, <1>k, SilentTruth DEF vars
<1> QED BY <1>1, <1>2, <1>3, OutputTruth, LaunchTruth DEF Next, UiStep

\* At first no guard runs.
LEMMA TruthInit == Init => Truthful /\ Retired
<1> SUFFICES ASSUME Init PROVE Truthful /\ Retired
  OBVIOUS
<1>1. ks.active_ = NoGuard /\ \A g \in Guards : out[g] = <<>>
  BY DEF Init, NewKillSwitch
<1> QED BY <1>1 DEF Truthful, Retired, Silent, ReadyFirst, ActiveBacked

-----------------------------------------------------------------------------
\* The fields of the kill switch, the guards and their pipes keep their types.
THEOREM TypeCorrect == Spec => []TypeOK
<1>1. IndInv => TypeOK
  BY DEF IndInv
<1> QED BY <1>1, InitLemma, StepLemma, OutputLemma, PTL DEF Spec

\* Arming always has a guard on its way and none in force, so that onReadyTimeout or the
\* guard's own report ends it.
THEOREM ArmingPending == Spec => []ArmingHasPending
<1>1. IndInv => ArmingHasPending
  BY DEF IndInv, ArmingHasPending, Coherent, Running
<1> QED BY <1>1, InitLemma, StepLemma, OutputLemma, PTL DEF Spec

\* Every live guard is the active one, the pending one, or has had its input closed: the
\* GUI forgets no process that blocks the machine.
THEOREM NoStray == Spec => []NoStrayGuard
<1>1. IndInv => NoStrayGuard
  BY DEF IndInv, NoStrayGuard, Slots, FreeSlots, Running, Up, Live
<1> QED BY <1>1, InitLemma, StepLemma, OutputLemma, PTL DEF Spec

\* Fail closed: with the setting on and applied, allowsStart() holds only when a guard is
\* armed.
THEOREM FailClosed == Spec => []StartsOnlyArmed
<1>1. IndInv => StartsOnlyArmed
  BY DEF IndInv, StartsOnlyArmed, allowsStart, Running
<1> QED BY <1>1, InitLemma, StepLemma, OutputLemma, PTL DEF Spec

\* After a core could not join the guard's group, no start is allowed until the setting is
\* turned off.
THEOREM IdentitySticky == Spec => []IdentityRefusesStarts
<1>1. IndInv => IdentityRefusesStarts
  BY DEF IndInv, IdentityRefusesStarts, Refusing, allowsStart, Running
<1> QED BY <1>1, InitLemma, StepLemma, OutputLemma, PTL DEF Spec

\* Both together: the kill switch fails closed.
THEOREM FailsClosedAlways == Spec => []FailsClosed
<1>1. StartsOnlyArmed /\ IdentityRefusesStarts => FailsClosed
  BY DEF FailsClosed
<1> QED BY <1>1, FailClosed, IdentitySticky, PTL

\* No deferred start is forgotten: a callback still waits only for something to come.
THEOREM WaitersServed == Spec => []WaitersHaveReason
<1>1. IndInv => WaitersHaveReason
  BY DEF IndInv, WaitersHaveReason, Coherent
<1> QED BY <1>1, InitLemma, StepLemma, OutputLemma, PTL DEF Spec

\* While the GUI shows Armed, the guard it counts on has its rules installed, or their
\* loss is on its way to the GUI.
THEOREM ArmedAlwaysEnforced == Spec => []ArmedIsEnforced
<1>1. IndInv /\ Truthful => ArmedIsEnforced
  BY GuardsAssumption DEF IndInv, Truthful, ActiveBacked, ArmedIsEnforced, Coherent, Slots, Running
<1> QED BY <1>1, InitLemma, TruthInit, StepLemma, OutputLemma, RetiredLemma, TruthLemma, PTL DEF Spec

\* Make before break: with the setting on, a guard whose rules are installed is let go
\* only when the guard that replaces it has reported READY.
THEOREM OnlyReadyReplaces == Spec => ReplacedOnlyByReady
<1> DEFINE A == \A g \in Guards :
         /\ g = ks.active_ /\ Enforced(g) /\ ~LossUnread(g) /\ g \in ks'.closing
         /\ kill_switch' /\ ~overridden_ /\ ~ks'.shutdown_
         => \E h \in Guards \ {g} : h = ks'.active_ /\ EnforcedOrReporting(h)'
<1>1. Replaced => A
  BY DEF Replaced, LetGo
<1>2. Spec => [][A]_vars
  <2> HIDE DEF A
  <2> QED BY <1>1, InitLemma, TruthInit, StepLemma, OutputLemma, RetiredLemma, TruthLemma, PTL DEF Spec
<1> QED BY <1>2 DEF ReplacedOnlyByReady, A
=============================================================================
