----------------------------- MODULE FleetProofs -----------------------------
(***************************************************************************)
(* What the fleet keeps for any number of machines, platforms, inputs and  *)
(* mishaps: its types, that an idle machine writes at most twice over the  *)
(* one being typed on where replies are forwarded, and that the pass of    *)
(* each machine implements the check-and-correct call of Correction.       *)
(***************************************************************************)
EXTENDS Fleet, TLAPS

Records == [platform : Platforms, by : {"software", "keyboard"}]
Devices == [seen : {NoRecord} \cup Records, wrote : BOOLEAN, foreign : BOOLEAN]
Outcomes == {"right", "changed", "silent", "refused"}

\* An intruder has not been used since, and knows of its peer or has not been written over;
\* after the second intrusion it knows, and is not on its way to a third.
Intruder(m) ==
  /\ intrusions[m] >= 1 => Idle(m) /\ typed # m
  /\ intrusions[m] = 1 /\ ~peer[m] => keyboard.platform = Target[m] /\ at[m] # "writing"
  /\ intrusions[m] = 2 => peer[m] /\ at[m] \notin {"asking", "writing"}
  /\ intrusions[m] \in 0..2

IntrudersInv ==
  \A m \in Measuring : IF loud THEN Intruder(m) ELSE intrusions[m] = 0

FleetInv == TypeOK /\ IntrudersInv

-----------------------------------------------------------------------------
(* The types *)

\* Schedule, and every other change of the deadlines, arms deadlines only.
LEMMA ScheduleType ==
  ASSUME TypeOK, NEW m \in Machines, NEW sees, NEW checks, Schedule(m, sees, checks)
  PROVE  armed' \in [Machines -> SUBSET Deadlines]
<1>1. {"beat"} \cup (armed[m] \cap {"peek"}) \subseteq Deadlines
  BY DEF Deadlines
<1>2. \E ds \in SUBSET Deadlines : armed' = [armed EXCEPT ![m] = ds]
  BY <1>1, Zenon DEF Schedule, Arm, Deadlines
<1> QED BY <1>2, Zenon DEF TypeOK

\* The end of a pass.
LEMMA ConcludeType ==
  ASSUME TypeOK, NEW m \in Machines, NEW dev \in Devices, NEW outcome \in Outcomes,
         NEW hearers, Conclude(m, dev, outcome, hearers)
  PROVE  /\ at' \in [Machines -> {"rest", "gate", "asking", "writing", "checking"}]
         /\ armed' \in [Machines -> SUBSET Deadlines]
         /\ peer' \in [Machines -> BOOLEAN]
         /\ device' \in [Machines -> Devices]
         /\ clean' \in [Machines -> 0..SettledChecks]
<1>1. at' \in [Machines -> {"rest", "gate", "asking", "writing", "checking"}]
  BY Zenon DEF TypeOK, Conclude, Goto
<1>2. armed' \in [Machines -> SUBSET Deadlines]
  <2>1. CASE outcome \in {"silent", "refused"}
    <3>1. armed' = [armed EXCEPT ![m] = armed[m] \cup {"assert"}]
      BY <2>1, Zenon DEF Conclude, Arm
    <3>2. armed[m] \cup {"assert"} \in SUBSET Deadlines
      BY DEF TypeOK, Deadlines
    <3> QED BY <3>1, <3>2, Zenon DEF TypeOK
  <2>2. CASE outcome \notin {"silent", "refused"}
    <3>1. \E sees, checks : Schedule(m, sees, checks)
      BY <2>2, Zenon DEF Conclude
    <3> QED BY <3>1, ScheduleType
  <2> QED BY <2>1, <2>2
<1>3. peer' \in [Machines -> BOOLEAN]
  BY Zenon DEF TypeOK, Conclude
<1>4. device' \in [Machines -> Devices]
  <2>1. [dev EXCEPT !.foreign = FALSE] \in Devices
    BY Zenon DEF Devices
  <2> QED BY <2>1, Zenon DEF TypeOK, Conclude, Devices, Records
<1>5. clean' \in [Machines -> 0..SettledChecks]
  <2>1. \E c \in 0..SettledChecks : clean' = [clean EXCEPT ![m] = c]
    <3>1. /\ clean[m] \in 0..SettledChecks /\ SettledChecks \in Nat
          /\ clean[m] < SettledChecks => clean[m] + 1 \in 0..SettledChecks
          /\ 0 \in 0..SettledChecks
      BY FleetAssumption DEF TypeOK
    <3> QED BY <3>1, Zenon DEF Conclude, Outcomes
  <2> QED BY <2>1, Zenon DEF TypeOK
<1> QED BY <1>1, <1>2, <1>3, <1>4, <1>5

\* _note_host_record keeps a device object's type.
LEMMA NotedType ==
  ASSUME TypeOK, NEW m \in Machines PROVE Noted(m) \in Devices
<1>1. device[m] \in Devices /\ keyboard \in Records
  BY Zenon DEF TypeOK, Devices, Records
<1>2. ASSUME NEW b \in BOOLEAN
      PROVE  [device[m] EXCEPT !.seen = keyboard, !.foreign = b] \in Devices
  BY <1>1, Zenon DEF Devices
<1>3. device[m].foreign \in BOOLEAN
  BY <1>1, Zenon DEF Devices
<1> QED BY <1>2, <1>3, Zenon DEF Noted

\* A write that lands.
LEMMA LandsType ==
  ASSUME TypeOK, NEW m \in Machines, Lands(m)
  PROVE  keyboard' \in Records /\ intrusions' \in [Machines -> Nat]
<1>1. Target[m] \in Platforms
  BY Zenon DEF Platforms
<1>2. intrusions[m] \in Nat /\ intrusions[m] + 1 \in Nat
  <2>1. intrusions[m] \in Nat
    BY DEF TypeOK
  <2> QED BY <2>1
<1>3. keyboard' \in Records
  BY <1>1, Zenon DEF Lands, Records
<1>4. intrusions' \in [Machines -> Nat]
  <2>1. \E n \in Nat : intrusions' = [intrusions EXCEPT ![m] = n]
    BY <1>2, Zenon DEF Lands
  <2> QED BY <2>1, Zenon DEF TypeOK
<1> QED BY <1>3, <1>4

\* The initial states have their types.
LEMMA TypeInit == Init => TypeOK
<1> SUFFICES ASSUME Init PROVE TypeOK
  OBVIOUS
<1>1. keyboard \in [platform : Platforms, by : {"software", "keyboard"}]
  <2>1. PICK k \in [platform : Platforms, by : {"keyboard"}] : keyboard = k
    BY Zenon DEF Init
  <2> QED BY <2>1
<1>2. SettledChecks \in 0..SettledChecks /\ 0 \in Nat
  BY FleetAssumption
<1>3. /\ typed \in Machines \cup {Nobody} /\ keys \subseteq Machines
      /\ mouse \subseteq Machines
  BY FleetAssumption, Zenon DEF Init
<1>4. device \in [Machines -> [seen : {NoRecord} \cup
                                      [platform : Platforms, by : {"software", "keyboard"}],
                               wrote : BOOLEAN, foreign : BOOLEAN]]
  BY Zenon DEF Init
<1>5. /\ at \in [Machines -> {"rest", "gate", "asking", "writing", "checking"}]
      /\ armed \in [Machines -> SUBSET Deadlines]
      /\ loud \in BOOLEAN /\ wasIdle \in [Machines -> BOOLEAN]
      /\ peer \in [Machines -> BOOLEAN]
      /\ clean \in [Machines -> 0..SettledChecks] /\ intrusions \in [Machines -> Nat]
  BY <1>2, Zenon DEF Init, Deadlines
<1> QED BY <1>1, <1>3, <1>4, <1>5, Zenon DEF TypeOK

\* Every step keeps the types.
LEMMA TypeStep ==
  ASSUME TypeOK, [Next]_vars PROVE TypeOK'
<1> USE DEF Devices, Records
<1>1. ASSUME NEW m \in Machines, Assert(m) PROVE TypeOK'
  <2>1. CASE YieldTurn(m)
    BY <2>1, Zenon DEF YieldTurn, TypeOK, vars, users, agents
  <2>2. CASE StartPass(m)
    <3>1. armed[m] \ {"assert"} \in SUBSET Deadlines
      BY DEF TypeOK
    <3> QED BY <2>2, <3>1, Zenon DEF StartPass, Goto, Arm, TypeOK, users
  <2> QED BY <1>1, <2>1, <2>2 DEF Assert
<1>2. ASSUME NEW m \in Machines, Peek(m) PROVE TypeOK'
  <2>1. /\ armed[m] \ {"peek"} \in SUBSET Deadlines
        /\ (armed[m] \ {"peek"}) \cup {"assert"} \in SUBSET Deadlines
        /\ armed[m] \in SUBSET Deadlines
    BY DEF TypeOK, Deadlines
  <2>2. armed' \in [Machines -> SUBSET Deadlines]
    BY <1>2, <2>1, Zenon DEF Peek, Arm, TypeOK
  <2> QED BY <1>2, <2>2, Zenon DEF Peek, TypeOK, users
<1>3. ASSUME NEW m \in Machines, Beat(m) PROVE TypeOK'
  <2>1. (armed[m] \ {"beat"}) \cup {"assert"} \in SUBSET Deadlines
    BY DEF TypeOK, Deadlines
  <2> QED BY <1>3, <2>1, Zenon DEF Beat, Arm, TypeOK, users
<1>4. ASSUME NEW m \in Machines, GateYields(m) PROVE TypeOK'
  <2>1. armed' \in [Machines -> SUBSET Deadlines]
    BY <1>4, ScheduleType DEF GateYields
  <2> QED BY <1>4, <2>1, Zenon DEF GateYields, Goto, TypeOK, users
<1>5. ASSUME NEW m \in Machines, GateOpens(m) PROVE TypeOK'
  BY <1>5, Zenon DEF GateOpens, Goto, TypeOK, users
<1>6. ASSUME NEW m \in Machines, Read(m) PROVE TypeOK'
  <2>1. CASE Conclude(m, Noted(m), "right", {})
    BY <1>6, <2>1, NotedType, ConcludeType, Zenon DEF Read, TypeOK, users, Outcomes
  <2>2. CASE Goto(m, "writing") /\ device' = [device EXCEPT ![m] = Noted(m)]
             /\ UNCHANGED <<armed, peer, clean>>
    BY <1>6, <2>2, NotedType, Zenon DEF Read, Goto, TypeOK, users
  <2> QED BY <1>6, <2>1, <2>2, Zenon DEF Read
<1>7. ASSUME NEW m \in Machines, Write(m) PROVE TypeOK'
  <2>1. keyboard' \in Records /\ intrusions' \in [Machines -> Nat]
    BY <1>7, LandsType DEF Write
  <2>2. device' \in [Machines -> Devices]
    <3>1. [device[m] EXCEPT !.wrote = TRUE] \in Devices
      <4>1. device[m] \in Devices
        BY Zenon DEF TypeOK
      <4> QED BY <4>1
    <3>2. device' = [device EXCEPT ![m] = [device[m] EXCEPT !.wrote = TRUE]]
      BY <1>7 DEF Write
    <3> QED BY <3>1, <3>2, Zenon DEF TypeOK
  <2>3. /\ at' \in [Machines -> {"rest", "gate", "asking", "writing", "checking"}]
        /\ peer' \in [Machines -> BOOLEAN]
    BY <1>7, Zenon DEF Write, Goto, TypeOK
  <2> QED BY <1>7, <2>1, <2>2, <2>3, Zenon DEF Write, TypeOK, users
<1>8. ASSUME NEW m \in Machines, Verify(m) PROVE TypeOK'
  <2>1. PICK outcome \in Outcomes : Conclude(m, Noted(m), outcome, {})
    BY <1>8, Zenon DEF Verify, Outcomes
  <2> QED BY <1>8, <2>1, NotedType, ConcludeType, Zenon DEF Verify, TypeOK, users
<1>9. ASSUME NEW m \in Machines, Unanswered(m) PROVE TypeOK'
  <2>1. device[m] \in Devices
    BY Zenon DEF TypeOK
  <2>2. PICK outcome \in Outcomes : \E hs : Conclude(m, device[m], outcome, hs)
    BY <1>9, Zenon DEF Unanswered, Outcomes
  <2>3. keyboard' \in Records /\ intrusions' \in [Machines -> Nat]
    <3>1. CASE Lands(m)
      BY <3>1, LandsType
    <3>2. CASE UNCHANGED <<keyboard, intrusions>>
      BY <3>2, Zenon DEF TypeOK
    <3> QED BY <1>9, <3>1, <3>2, Zenon DEF Unanswered
  <2> QED BY <1>9, <2>1, <2>2, <2>3, ConcludeType, Zenon DEF Unanswered, TypeOK, users
<1>10. ASSUME NEW m \in Machines, Forget(m) \/ Restart(m) PROVE TypeOK'
  <2>1. SettledChecks \in 0..SettledChecks /\ 0 \in Nat
    BY FleetAssumption
  <2>2. CASE Forget(m)
    BY <2>1, <2>2, Zenon DEF Forget, TypeOK, users
  <2>3. CASE Restart(m)
    <3>1. [seen |-> NoRecord, wrote |-> FALSE, foreign |-> FALSE] \in Devices
      BY Zenon
    <3>2. {"assert"} \in SUBSET Deadlines
      BY DEF Deadlines
    <3> QED BY <2>1, <2>3, <3>1, <3>2, Zenon DEF Restart, Goto, Arm, TypeOK, users
  <2> QED BY <1>10, <2>2, <2>3
<1>11. ASSUME NEW m \in Machines \cup {Nobody}, Type(m) PROVE TypeOK'
  <2>1. keys' \subseteq Machines /\ typed' \in Machines \cup {Nobody}
    BY <1>11 DEF Type, TypeOK
  <2>2. intrusions' \in [Machines -> Nat]
    <3>1. 0 \in Nat
      OBVIOUS
    <3> QED BY <1>11, <3>1, Zenon DEF Type, TypeOK
  <2> QED BY <1>11, <2>1, <2>2, Zenon DEF Type, TypeOK, agents
<1>12. ASSUME NEW m \in Machines, Quiet(m) PROVE TypeOK'
  BY <1>12, Zenon DEF Quiet, TypeOK, agents
<1>13. CASE UNCHANGED vars
  BY <1>13, Zenon DEF vars, TypeOK, users, agents
<1> QED
  BY <1>1, <1>2, <1>3, <1>4, <1>5, <1>6, <1>7, <1>8, <1>9, <1>10, <1>11, <1>12, <1>13
  DEF Next, Pass

-----------------------------------------------------------------------------
(* The intruders *)

\* A step of k that is no write, or a step of another machine.
LEMMA IntruderFrame ==
  ASSUME NEW k \in Machines, Intruder(k),
         intrusions'[k] = intrusions[k],
         Idle(k) /\ typed # k => Idle(k)' /\ typed' # k,
         peer[k] => peer'[k],
         peer'[k] \/ keyboard' = keyboard,
         \/ at'[k] = at[k] \/ at'[k] \in {"rest", "gate", "checking"}
         \/ at'[k] = "asking" /\ ~(peer[k] /\ Idle(k))
         \/ at'[k] = "writing" /\ at[k] = "asking" /\ keyboard.platform # Target[k]
  PROVE  Intruder(k)'
BY DEF Intruder

\* A write of k itself.
LEMMA IntruderWrites ==
  ASSUME TypeOK, NEW k \in Machines, Intruder(k), at[k] = "writing", Lands(k),
         UNCHANGED users, peer[k] => peer'[k], at'[k] \in {"rest", "checking"}
  PROVE  Intruder(k)'
<1>1. /\ Idle(k)' = Idle(k) /\ typed' = typed
  BY DEF users, Idle
<1>2. keyboard'.platform = Target[k]
  BY DEF Lands
<1>3. \/ intrusions'[k] = intrusions[k]
      \/ intrusions'[k] = intrusions[k] + 1 /\ Idle(k) /\ typed # k
  BY Zenon DEF Lands, Intrudes, TypeOK
<1>4. intrusions[k] \in 0..1 /\ (intrusions[k] = 1 => peer[k])
  BY DEF Intruder
<1> QED BY <1>1, <1>2, <1>3, <1>4 DEF Intruder

\* A machine that was typed on, restarted or that forgot begins anew.
LEMMA IntruderReset ==
  ASSUME NEW k \in Machines, intrusions'[k] = 0 PROVE Intruder(k)'
BY DEF Intruder

\* What the end of m's pass does to k.
LEMMA ConcludeFrame ==
  ASSUME TypeOK, NEW m \in Machines, NEW k \in Machines, NEW dev, NEW outcome, NEW hearers,
         Conclude(m, dev, outcome, hearers)
  PROVE  /\ at'[k] = IF k = m THEN "rest" ELSE at[k]
         /\ (peer[k] \/ k \in hearers) => peer'[k]
BY Zenon DEF Conclude, Goto, TypeOK

\* Where replies are forwarded, every step keeps every intruder in its bounds.
LEMMA IntruderStep ==
  ASSUME TypeOK, [Next]_vars, loud, NEW k \in Measuring, Intruder(k)
  PROVE  Intruder(k)'
<1>0. k \in Machines /\ k # Nobody
  BY FleetAssumption
<1>1. ASSUME NEW m \in Machines, Assert(m) \/ Peek(m) \/ Beat(m) \/ GateYields(m)
      PROVE  Intruder(k)'
  <2>1. /\ keyboard' = keyboard /\ users' = users /\ intrusions' = intrusions
        /\ peer' = peer
    BY <1>1, Zenon DEF Assert, YieldTurn, StartPass, Peek, Beat, GateYields, vars, agents
  <2>2. at'[k] = at[k] \/ at'[k] \in {"rest", "gate"}
    BY <1>0, <1>1, Zenon
       DEF Assert, YieldTurn, StartPass, Peek, Beat, GateYields, Goto, vars, agents, TypeOK
  <2> QED BY <1>0, <2>1, <2>2, IntruderFrame DEF users, Idle
<1>2. ASSUME NEW m \in Machines, GateOpens(m) PROVE Intruder(k)'
  <2>1. /\ keyboard' = keyboard /\ users' = users /\ intrusions' = intrusions
        /\ peer' = peer
    BY <1>2, Zenon DEF GateOpens
  <2>2. at'[k] = at[k] \/ (at'[k] = "asking" /\ ~(peer[k] /\ Idle(k)))
    <3>1. CASE k = m
      <4>1. at'[k] = "asking"
        BY <1>0, <1>2, <3>1, Zenon DEF GateOpens, Goto, TypeOK
      <4>2. ~(peer[k] /\ Idle(k))
        BY <1>2, <3>1, Zenon DEF GateOpens, StandingDown
      <4> QED BY <4>1, <4>2
    <3>2. CASE k # m
      <4>1. at'[k] = at[k]
        BY <1>0, <1>2, <3>2, Zenon DEF GateOpens, Goto, TypeOK
      <4> QED BY <4>1
    <3> QED BY <3>1, <3>2
  <2> QED BY <1>0, <2>1, <2>2, IntruderFrame DEF users, Idle
<1>3. ASSUME NEW m \in Machines, Read(m) PROVE Intruder(k)'
  <2>1. keyboard' = keyboard /\ users' = users /\ intrusions' = intrusions
    BY <1>3, Zenon DEF Read, users
  <2>2. peer[k] => peer'[k]
    BY <1>0, <1>3, ConcludeFrame, Zenon DEF Read
  <2>3. \/ at'[k] = at[k] \/ at'[k] = "rest"
        \/ at'[k] = "writing" /\ at[k] = "asking" /\ keyboard.platform # Target[k]
    <3>1. CASE Conclude(m, Noted(m), "right", {})
      BY <1>0, <3>1, ConcludeFrame, Zenon
    <3>2. CASE keyboard.platform # Target[m] /\ Goto(m, "writing")
      BY <1>0, <1>3, <3>2, Zenon DEF Read, Goto, TypeOK
    <3> QED BY <1>3, <3>1, <3>2, Zenon DEF Read
  <2> QED BY <1>0, <2>1, <2>2, <2>3, IntruderFrame DEF users, Idle
<1>4. ASSUME NEW m \in Machines, at[m] = "writing", Lands(m), UNCHANGED users,
             at'[k] = IF k = m THEN at'[m] ELSE at[k], at'[m] \in {"rest", "checking"},
             NEW hs \in Hearers(m), \A n \in Machines : peer[n] \/ n \in hs => peer'[n]
      PROVE  Intruder(k)'
  <2>1. CASE k = m
    BY <1>0, <1>4, <2>1, IntruderWrites
  <2>2. CASE k # m
    <3>1. hs = Machines \ {m}
      BY <1>4, Zenon DEF Hearers
    <3>2. peer'[k] /\ at'[k] = at[k]
      BY <1>0, <1>4, <2>2, <3>1, Zenon
    <3>3. intrusions'[k] = intrusions[k]
      BY <1>0, <1>4, <2>2, Zenon DEF Lands, TypeOK
    <3> QED BY <1>0, <1>4, <3>2, <3>3, IntruderFrame DEF users, Idle
  <2> QED BY <2>1, <2>2
<1>5. ASSUME NEW m \in Machines, Write(m) PROVE Intruder(k)'
  <2>1. PICK hs \in Hearers(m) : peer' = [n \in Machines |-> peer[n] \/ n \in hs]
    BY <1>5, Zenon DEF Write
  <2>2. \A n \in Machines : peer[n] \/ n \in hs => peer'[n]
    BY <2>1, Zenon
  <2>3. /\ at'[k] = (IF k = m THEN at'[m] ELSE at[k]) /\ at'[m] = "checking"
    BY <1>0, <1>5, Zenon DEF Write, Goto, TypeOK
  <2>4. at[m] = "writing" /\ Lands(m) /\ UNCHANGED users
    BY <1>5 DEF Write
  <2> QED BY <1>4, <2>2, <2>3, <2>4
<1>6. ASSUME NEW m \in Machines, Verify(m) PROVE Intruder(k)'
  <2>1. PICK outcome : Conclude(m, Noted(m), outcome, {})
    BY <1>6, Zenon DEF Verify
  <2>2. keyboard' = keyboard /\ users' = users /\ intrusions' = intrusions
    BY <1>6 DEF Verify, users
  <2>3. (peer[k] => peer'[k]) /\ (at'[k] = at[k] \/ at'[k] = "rest")
    BY <1>0, <2>1, ConcludeFrame, Zenon
  <2> QED BY <1>0, <2>2, <2>3, IntruderFrame DEF users, Idle
<1>7. ASSUME NEW m \in Machines, Unanswered(m) PROVE Intruder(k)'
  <2>1. UNCHANGED users
    BY <1>7, Zenon DEF Unanswered, users
  <2>2. CASE UNCHANGED <<keyboard, intrusions>>
    <3>1. \E outcome, hs : Conclude(m, device[m], outcome, hs)
      BY <1>7, Zenon DEF Unanswered
    <3>2. (peer[k] => peer'[k]) /\ (at'[k] = at[k] \/ at'[k] = "rest")
      BY <1>0, <3>1, ConcludeFrame, Zenon
    <3> QED BY <1>0, <2>1, <2>2, <3>2, IntruderFrame DEF users, Idle
  <2>3. ASSUME NEW hs \in Hearers(m), at[m] = "writing", Lands(m),
               Conclude(m, device[m], "silent", hs)
        PROVE  Intruder(k)'
    <3>1. \A n \in Machines : /\ at'[n] = IF n = m THEN "rest" ELSE at[n]
                              /\ (peer[n] \/ n \in hs) => peer'[n]
      BY <2>3, ConcludeFrame, Zenon
    <3> QED BY <1>0, <1>4, <2>1, <2>3, <3>1
  <2> QED BY <1>7, <2>2, <2>3, Zenon DEF Unanswered
<1>8. ASSUME NEW m \in Machines, Forget(m) \/ Restart(m) PROVE Intruder(k)'
  <2>1. CASE k = m
    <3>1. intrusions'[k] = 0
      BY <1>0, <1>8, <2>1, Zenon DEF Forget, Restart, TypeOK
    <3> QED BY <1>0, <3>1, IntruderReset
  <2>2. CASE k # m
    <3>1. keyboard' = keyboard /\ users' = users
      BY <1>8, Zenon DEF Forget, Restart, users
    <3>2. intrusions'[k] = intrusions[k] /\ peer'[k] = peer[k] /\ at'[k] = at[k]
      BY <1>0, <1>8, <2>2, Zenon DEF Forget, Restart, Goto, TypeOK
    <3> QED BY <1>0, <3>1, <3>2, IntruderFrame DEF users, Idle
  <2> QED BY <2>1, <2>2
<1>9. ASSUME NEW m \in Machines \cup {Nobody}, Type(m) PROVE Intruder(k)'
  <2>1. CASE k = m
    <3>1. intrusions'[k] = 0
      BY <1>0, <1>9, <2>1, Zenon DEF Type
    <3> QED BY <1>0, <3>1, IntruderReset
  <2>2. CASE k # m
    <3>1. intrusions'[k] = intrusions[k]
      BY <1>0, <1>9, <2>2, Zenon DEF Type
    <3>2. Idle(k) => Idle(k)' /\ typed' # k
      BY <1>9, <2>2 DEF Type, Idle
    <3>3. keyboard' = keyboard /\ peer' = peer /\ at' = at
      BY <1>9 DEF Type, agents
    <3> QED BY <1>0, <3>1, <3>2, <3>3, IntruderFrame
  <2> QED BY <2>1, <2>2
<1>10. ASSUME NEW m \in Machines, Quiet(m) PROVE Intruder(k)'
  <2>1. Idle(k) /\ typed # k => Idle(k)' /\ typed' # k
    BY <1>10 DEF Quiet, Idle
  <2>2. keyboard' = keyboard /\ peer' = peer /\ at' = at /\ intrusions' = intrusions
    BY <1>10 DEF Quiet, agents
  <2> QED BY <1>0, <2>1, <2>2, IntruderFrame
<1>11. CASE UNCHANGED vars
  BY <1>11 DEF Intruder, Idle, vars, users, agents
<1> QED
  BY <1>1, <1>2, <1>3, <1>5, <1>6, <1>7, <1>8, <1>9, <1>10, <1>11 DEF Next, Pass

\* Where replies are not forwarded nothing is counted.
LEMMA QuietStep ==
  ASSUME TypeOK, [Next]_vars, ~loud, NEW k \in Measuring, intrusions[k] = 0
  PROVE  intrusions'[k] = 0
<1>0. k \in Machines
  BY FleetAssumption
<1>1. ASSUME NEW m \in Machines, Lands(m) PROVE intrusions'[k] = 0
  BY <1>0, <1>1, Zenon DEF Lands, TypeOK
<1>2. ASSUME NEW m \in Machines, Pass(m) PROVE intrusions'[k] = 0
  BY <1>1, <1>2, Zenon DEF Pass, GateYields, GateOpens, Read, Write, Verify
<1>3. ASSUME NEW m \in Machines, Unanswered(m) PROVE intrusions'[k] = 0
  BY <1>1, <1>3, Zenon DEF Unanswered
<1>4. ASSUME NEW m \in Machines, Forget(m) \/ Restart(m) PROVE intrusions'[k] = 0
  BY <1>0, <1>4, Zenon DEF Forget, Restart, TypeOK
<1>5. ASSUME NEW m \in Machines \cup {Nobody}, Type(m) PROVE intrusions'[k] = 0
  BY <1>0, <1>5, Zenon DEF Type
<1>6. ASSUME NEW m \in Machines, Assert(m) \/ Peek(m) \/ Beat(m) \/ Quiet(m)
      PROVE  intrusions'[k] = 0
  BY <1>6, Zenon DEF Assert, YieldTurn, StartPass, Peek, Beat, Quiet, vars
<1>7. CASE UNCHANGED vars
  BY <1>7, Zenon DEF vars
<1> QED BY <1>2, <1>3, <1>4, <1>5, <1>6, <1>7, Zenon DEF Next

\* What a receiver forwards does not change.
LEMMA LoudFixed == ASSUME [Next]_vars PROVE loud' = loud
BY Zenon DEF Next, Assert, YieldTurn, StartPass, Peek, Beat, Pass, GateYields, GateOpens,
   Read, Write, Verify, Unanswered, Forget, Restart, Type, Quiet, vars

\* FleetInv holds at first.
LEMMA InvInit == Init => FleetInv
<1> SUFFICES ASSUME Init PROVE FleetInv
  OBVIOUS
<1>1. \A m \in Measuring : intrusions[m] = 0
  BY FleetAssumption, Zenon DEF Init
<1>2. IntrudersInv
  BY <1>1 DEF IntrudersInv, Intruder
<1> QED BY <1>2, TypeInit DEF FleetInv

\* FleetInv is inductive.
LEMMA InvStep == FleetInv /\ [Next]_vars => FleetInv'
<1> SUFFICES ASSUME FleetInv, [Next]_vars PROVE FleetInv'
  OBVIOUS
<1>1. TypeOK'
  BY TypeStep DEF FleetInv
<1>2. ASSUME NEW m \in Measuring
      PROVE  IF loud THEN Intruder(m)' ELSE intrusions'[m] = 0
  BY IntruderStep, QuietStep DEF FleetInv, IntrudersInv
<1>3. IntrudersInv'
  <2>1. loud' = loud
    BY LoudFixed
  <2>2. \A m \in Measuring : IF loud' THEN Intruder(m)' ELSE intrusions'[m] = 0
    BY <1>2, <2>1
  <2> QED BY <2>2, Zenon DEF IntrudersInv
<1> QED BY <1>1, <1>3 DEF FleetInv

\* The fleet keeps its invariant, whatever machines it has.
THEOREM InvCorrect == Spec => []FleetInv
BY InvInit, InvStep, PTL DEF Spec

\* Agents, users and the keyboard keep their types.
THEOREM TypeCorrect == Spec => []TypeOK
BY InvCorrect, PTL DEF FleetInv

\* However many machines share the keyboard, an idle one writes over the one being typed
\* on at most twice.
THEOREM IntrusionsBounded == Spec => []FewIntrusions
<1>1. FleetInv => FewIntrusions
  BY DEF FleetInv, IntrudersInv, Intruder, FewIntrusions
<1> QED BY <1>1, InvCorrect, PTL

-----------------------------------------------------------------------------
(* Every pass implements Correction *)

\* A step of m as Correction sees it.
Mapped(m) ==
  \/ at'[m] = at[m]
  \/ /\ keyboard' = keyboard
     /\ \/ at[m] \in {"rest", "gate"} /\ at'[m] \in {"rest", "gate", "asking"}
        \/ at'[m] = "rest"
        \/ at[m] = "asking" /\ at'[m] = "writing" /\ keyboard.platform # Target[m]
  \/ /\ at[m] = "writing" /\ at'[m] \in {"checking", "rest"}
     /\ keyboard'.platform = Target[m]

\* Such a step is one Correction allows.
LEMMA MappedAllowed ==
  ASSUME TypeOK, TypeOK', NEW m \in Machines, Mapped(m)
  PROVE  [C(m)!Next]_(C(m)!cvars)
<1>1. keyboard'.platform \in Platforms
  BY DEF TypeOK
<1>2. at[m] \in {"rest", "gate", "asking", "writing", "checking"}
      /\ at'[m] \in {"rest", "gate", "asking", "writing", "checking"}
  BY DEF TypeOK
<1> QED
  BY <1>1, <1>2 DEF Mapped, C!Next, C!cvars, C!Begin, C!Look, C!Write, C!WriteLost,
                    C!Check, C!Fail, C!World

\* Every step of the fleet is one of those for every machine.
LEMMA StepMapped ==
  ASSUME TypeOK, [Next]_vars, NEW k \in Machines
  PROVE  Mapped(k)
<1>2. ASSUME NEW m \in Machines, Assert(m) \/ GateYields(m) \/ GateOpens(m)
      PROVE  Mapped(k)
  <2>1. \/ at' = at
        \/ /\ keyboard' = keyboard /\ at[m] \in {"rest", "gate"}
           /\ \E to \in {"rest", "gate", "asking"} : at' = [at EXCEPT ![m] = to]
    BY <1>2, Zenon
       DEF Assert, YieldTurn, StartPass, GateYields, GateOpens, Goto, vars, agents
  <2> QED BY <2>1 DEF Mapped, TypeOK
<1>3. ASSUME NEW m \in Machines, Read(m) PROVE Mapped(k)
  <2>1. \/ at' = [at EXCEPT ![m] = "rest"]
        \/ at' = [at EXCEPT ![m] = "writing"] /\ keyboard.platform # Target[m]
    BY <1>3, Zenon DEF Read, Conclude, Goto
  <2>2. keyboard' = keyboard /\ at[m] = "asking"
    BY <1>3 DEF Read
  <2> QED BY <2>1, <2>2 DEF Mapped, TypeOK
<1>4. ASSUME NEW m \in Machines, Write(m) PROVE Mapped(k)
  <2>1. at' = [at EXCEPT ![m] = "checking"] /\ at[m] = "writing"
    BY <1>4 DEF Write, Goto
  <2>2. keyboard'.platform = Target[m]
    BY <1>4 DEF Write, Lands
  <2> QED BY <2>1, <2>2 DEF Mapped, TypeOK
<1>5. ASSUME NEW m \in Machines, Verify(m) PROVE Mapped(k)
  <2>1. at' = [at EXCEPT ![m] = "rest"] /\ keyboard' = keyboard
    BY <1>5, Zenon DEF Verify, Conclude, Goto
  <2> QED BY <2>1 DEF Mapped, TypeOK
<1>6. ASSUME NEW m \in Machines, Unanswered(m) PROVE Mapped(k)
  <2>1. at' = [at EXCEPT ![m] = "rest"]
    BY <1>6, Zenon DEF Unanswered, Conclude, Goto
  <2>2. \/ keyboard' = keyboard
        \/ at[m] = "writing" /\ keyboard'.platform = Target[m]
    <3>1. UNCHANGED <<keyboard, intrusions>> \/ (at[m] = "writing" /\ Lands(m))
      BY <1>6, Zenon DEF Unanswered
    <3> QED BY <3>1 DEF Lands
  <2> QED BY <2>1, <2>2 DEF Mapped, TypeOK
<1>7. ASSUME NEW m \in Machines, Restart(m) PROVE Mapped(k)
  <2>1. at' = [at EXCEPT ![m] = "rest"] /\ keyboard' = keyboard
    BY <1>7 DEF Restart, Goto
  <2> QED BY <2>1 DEF Mapped, TypeOK
<1>8. CASE at' = at
  BY <1>8 DEF Mapped
<1>9. ASSUME NEW m, Peek(m) \/ Beat(m) \/ Forget(m) \/ Type(m) \/ Quiet(m)
      PROVE  at' = at
  BY <1>9 DEF Peek, Beat, Forget, Type, Quiet, agents
<1>10. CASE UNCHANGED vars
  BY <1>8, <1>10 DEF vars, agents
<1> QED
  BY <1>2, <1>3, <1>4, <1>5, <1>6, <1>7, <1>8, <1>9, <1>10 DEF Next, Pass

\* Whatever the others do in the middle of it, the pass of every machine writes the
\* keyboard at most once, with its own platform, and only after it read another one.
THEOREM Implements == Spec => Corrects
<1>1. Init => \A m \in Machines : C(m)!Init
  <2> SUFFICES ASSUME Init, NEW m \in Machines PROVE C(m)!Init
    OBVIOUS
  <2>1. keyboard.platform \in Platforms /\ Target[m] \in Platforms
    BY TypeInit DEF TypeOK, Platforms
  <2>2. at[m] = "rest"
    BY DEF Init
  <2> QED BY <2>1, <2>2 DEF C!Init
<1>2. FleetInv /\ [Next]_vars => [\A m \in Machines : [C(m)!Next]_(C(m)!cvars)]_vars
  BY InvStep, StepMapped, MappedAllowed DEF FleetInv
<1> QED BY <1>1, <1>2, InvCorrect, PTL DEF Spec, Corrects
=============================================================================
