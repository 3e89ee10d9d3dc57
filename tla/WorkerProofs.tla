---------------------------- MODULE WorkerProofs ----------------------------
(***************************************************************************)
(* What the worker keeps for every value of the constants and any number   *)
(* of keyboards: a heartbeat is never lost, event-only mode never polls an *)
(* absent keyboard (WorkerInv: the deadlines, the count of tries and the   *)
(* place the worker is at); its own writes are never another machine's     *)
(* (ForeignInv); a keyboard that was away is heard when it returns         *)
(* (SilentInv); and a pass implements Correction for every keyboard.       *)
(***************************************************************************)
EXTENDS Worker, SumTheorems, TLAPS

InPass == {"find", "build", "gate", "device", "write", "verify"}
AtLoop == {"top", "wait"}

Tallies == [retry : Nat, attempts : Nat, corrections : Nat, clean : Nat]

ScheduleType ==
  /\ pc \in InPass \cup AtLoop \cup {"exited"}
  /\ due \in [assert : Ticks, beat : Ticks, peek : Ticks]
  /\ tally \in Tallies
  /\ ghost \in [blind : Nat, silent : SUBSET Devices, unseen : BOOLEAN, foreign : BOOLEAN]

\* A pass is under way only once its deadline has been consumed, and it can come without
\* a stimulus only while tries remain.
TriesLeft ==
  /\ pc \in InPass => due.assert = Off /\ ghost.blind <= QuietRetryAttempts
  /\ pc \in AtLoop /\ due.assert # Off => ghost.blind <= QuietRetryAttempts
  /\ ghost.blind <= tally.attempts
  /\ ghost.blind <= QuietRetryAttempts + 1

WorkerInv == ScheduleType /\ TriesLeft /\ BackstopArmed

-----------------------------------------------------------------------------
\* Whatever a pass returns, what _run schedules after it keeps the invariant.
LEMMA ConcludeKeeps ==
  ASSUME WorkerInv, pc \in InPass,
         NEW ok \in BOOLEAN, NEW reach, NEW t \in Tallies, NEW peerNow,
         t.attempts = tally.attempts,
         Conclude(ok, reach, t, peerNow)
  PROVE  WorkerInv'
<1> USE WorkerAssumption
<1>1. /\ pc' = "top" /\ FastRecheck \in Nat /\ IdlePeek \in Nat
      /\ RetryInitial \in Nat /\ RetryMax \in Nat /\ QuietRetryAttempts \in Nat
      /\ Reassert \in Nat /\ QuietReassert \in Nat /\ HeartbeatInterval \in Nat
  BY DEF Conclude, HeartbeatInterval
<1> DEFINE h == HeartbeatInterval
<1>2. /\ h \in Nat
      /\ Reassert > 0 /\ QuietReassert > 0 => h > 0
  BY <1>1 DEF HeartbeatInterval
<1>3. CASE ok
  <2>1. /\ AfterSuccess(t, peerNow) /\ ghost' = [ghost EXCEPT !.blind = 0]
    BY <1>3 DEF Conclude
  <2>2. /\ tally' = [t EXCEPT !.retry = 0, !.attempts = 0]
        /\ tally' \in Tallies /\ tally'.attempts = 0
    BY <2>1 DEF AfterSuccess, Tallies
  <2>3. /\ due'.beat = IF h > 0 THEN h ELSE Off
        /\ due' \in [assert : Ticks, beat : Ticks, peek : Ticks]
    BY <2>1, <1>1, <1>2 DEF AfterSuccess, WorkerInv, ScheduleType, Ticks, Off
  <2>4. /\ ghost'.blind = 0
        /\ ghost' \in [blind : Nat, silent : SUBSET Devices, unseen : BOOLEAN,
                       foreign : BOOLEAN]
    BY <2>1 DEF WorkerInv, ScheduleType
  <2>5. ScheduleType'
    BY <1>1, <2>2, <2>3, <2>4 DEF ScheduleType, AtLoop
  <2>6. TriesLeft'
    BY <1>1, <2>2, <2>4 DEF TriesLeft, InPass
  <2>7. BackstopArmed'
    BY <1>2, <2>3 DEF BackstopArmed, Off
  <2> QED BY <2>5, <2>6, <2>7 DEF WorkerInv
<1>4. CASE ~ok
  <2> DEFINE n == Capped(t.attempts + 1, QuietRetryAttempts + 1)
             b == Capped(IF 2 * t.retry > RetryInitial THEN 2 * t.retry ELSE RetryInitial,
                         RetryMax)
  <2>1. /\ AfterFailure(t)
        /\ ghost' = [ghost EXCEPT !.blind =
              IF EventOnly THEN Capped(ghost.blind + 1, QuietRetryAttempts + 2)
              ELSE ghost.blind]
    BY <1>4 DEF Conclude
  <2>2. /\ t.attempts \in Nat /\ t.retry \in Nat /\ n \in Nat /\ b \in Nat
        /\ ghost.blind \in Nat /\ ghost.blind <= t.attempts
        /\ ghost.blind <= QuietRetryAttempts /\ due.assert = Off
    BY <1>1 DEF Capped, Tallies, WorkerInv, ScheduleType, TriesLeft
  <2>3. /\ ghost'.blind = IF EventOnly THEN ghost.blind + 1 ELSE ghost.blind
        /\ ghost' \in [blind : Nat, silent : SUBSET Devices, unseen : BOOLEAN,
                       foreign : BOOLEAN]
    BY <2>1, <2>2, <1>1 DEF WorkerInv, ScheduleType, Capped
  <2>4. /\ ghost'.blind <= n
        /\ ghost'.blind <= QuietRetryAttempts + 1
    BY <2>2, <2>3, <1>1 DEF Capped
  <2>5. CASE GivesUp(t)
    <3>1. /\ tally' = [t EXCEPT !.retry = 0, !.attempts = n]
          /\ due' = [due EXCEPT !.beat = Backstop(due.beat)]
      BY <2>1, <2>5 DEF AfterFailure
    <3>2. tally' \in Tallies /\ tally'.attempts = n
      BY <3>1, <2>2 DEF Tallies
    <3>3. /\ due' \in [assert : Ticks, beat : Ticks, peek : Ticks]
          /\ due'.assert = Off /\ due'.beat = Backstop(due.beat)
      BY <3>1, <2>2, <1>2 DEF WorkerInv, ScheduleType, Backstop, Ticks, Off
    <3>4. h > 0 => due'.beat # Off
      BY <3>3, <1>2 DEF Backstop, Off
    <3>5. ScheduleType'
      BY <1>1, <2>3, <3>2, <3>3 DEF ScheduleType, AtLoop
    <3>6. TriesLeft'
      BY <1>1, <2>4, <3>2, <3>3 DEF TriesLeft, InPass
    <3>7. BackstopArmed'
      BY <1>2, <3>4 DEF BackstopArmed
    <3> QED BY <3>5, <3>6, <3>7 DEF WorkerInv
  <2>6. CASE ~GivesUp(t)
    <3>1. /\ tally' = [t EXCEPT !.retry = b, !.attempts = n]
          /\ due' = [due EXCEPT !.assert = b]
      BY <2>1, <2>6 DEF AfterFailure
    <3>2. tally' \in Tallies /\ tally'.attempts = n
      BY <3>1, <2>2 DEF Tallies
    <3>3. /\ due' \in [assert : Ticks, beat : Ticks, peek : Ticks]
          /\ due'.assert # Off
      BY <3>1, <2>2 DEF WorkerInv, ScheduleType, Ticks, Off
    <3>4. ghost'.blind <= QuietRetryAttempts
      BY <2>2, <2>3, <2>6, <1>1 DEF GivesUp
    <3>5. ScheduleType'
      BY <1>1, <2>3, <3>2, <3>3 DEF ScheduleType, AtLoop
    <3>6. TriesLeft'
      BY <1>1, <2>4, <3>2, <3>4 DEF TriesLeft, InPass
    <3>7. BackstopArmed'
      BY <3>3 DEF BackstopArmed
    <3> QED BY <3>5, <3>6, <3>7 DEF WorkerInv
  <2> QED BY <2>5, <2>6
<1> QED BY <1>3, <1>4

\* A step that leaves the schedule and the count of failed tries alone, and keeps the
\* worker in the loop, in its pass or gone, keeps the invariant.
LEMMA SameSchedule ==
  ASSUME WorkerInv,
         due' = due, tally' = tally, ghost'.blind = ghost.blind,
         ghost' \in [blind : Nat, silent : SUBSET Devices, unseen : BOOLEAN,
                    foreign : BOOLEAN],
         \/ pc' = pc
         \/ pc \in InPass /\ pc' \in InPass
         \/ pc \in AtLoop /\ pc' \in AtLoop
         \/ pc' = "exited"
  PROVE  WorkerInv'
<1>1. ScheduleType'
  BY DEF WorkerInv, ScheduleType, InPass, AtLoop
<1>2. TriesLeft'
  BY DEF WorkerInv, ScheduleType, TriesLeft, InPass, AtLoop
<1>3. BackstopArmed'
  BY DEF WorkerInv, ScheduleType, BackstopArmed, InPass, AtLoop
<1> QED BY <1>1, <1>2, <1>3 DEF WorkerInv

\* Restarting the counters keeps their types and forgets the tries.
LEMMA RearmedType ==
  ASSUME tally \in Tallies
  PROVE  Rearmed(tally) \in Tallies /\ Rearmed(tally).attempts = 0
BY DEF Rearmed, Tallies

\* A stimulus restarts the count of failed tries and nothing else.
LEMMA StimulusType ==
  ASSUME WorkerInv, ghost' = [ghost EXCEPT !.blind = 0]
  PROVE  /\ ghost'.blind = 0
         /\ ghost' \in [blind : Nat, silent : SUBSET Devices, unseen : BOOLEAN,
                        foreign : BOOLEAN]
BY DEF WorkerInv, ScheduleType

\* The invariant in Init.
LEMMA InitInv == Init => WorkerInv
<1> SUFFICES ASSUME Init PROVE WorkerInv
  OBVIOUS
<1>1. ScheduleType
  BY WorkerAssumption DEF Init, ScheduleType, InPass, AtLoop, Ticks, Off, Tallies
<1>2. TriesLeft /\ BackstopArmed
  BY WorkerAssumption DEF Init, TriesLeft, BackstopArmed, InPass, AtLoop, Off
<1> QED BY <1>1, <1>2 DEF WorkerInv

\* The steps of the loop.
LEMMA ScheduleKeeps == WorkerInv /\ Schedule => WorkerInv'
<1> SUFFICES ASSUME WorkerInv, Schedule PROVE WorkerInv'
  OBVIOUS
<1> USE WorkerAssumption
<1>0. /\ ghost \in [blind : Nat, silent : SUBSET Devices, unseen : BOOLEAN, foreign : BOOLEAN]
      /\ due \in [assert : Ticks, beat : Ticks, peek : Ticks]
      /\ tally \in Tallies
      /\ {Debounce, WakeDelay, Defer, IdlePeek, YieldRecheck} \subseteq Nat
      /\ QuietRetryAttempts \in Nat
  BY DEF WorkerInv, ScheduleType
<1>1. CASE Enter
  BY <1>1, <1>0, SameSchedule DEF Enter, schedule, AtLoop
<1>2. CASE Leave
  BY <1>2, <1>0, SameSchedule DEF Leave, schedule
<1>3. CASE TakeChanged
  <2>1. /\ pc' = "top"
        /\ due' = [due EXCEPT !.assert = Debounce, !.peek = Off]
        /\ tally' = Rearmed(tally)
        /\ ghost' = [ghost EXCEPT !.blind = 0]
    BY <1>3 DEF TakeChanged
  <2>2. /\ due' \in [assert : Ticks, beat : Ticks, peek : Ticks] /\ due'.assert # Off
        /\ tally' \in Tallies /\ ghost'.blind = 0 /\ tally'.attempts = 0
        /\ ghost' \in [blind : Nat, silent : SUBSET Devices, unseen : BOOLEAN,
                       foreign : BOOLEAN]
    <3>1. due' = [assert |-> Debounce, beat |-> due.beat, peek |-> Off]
      BY <2>1, <1>0
    <3>2. due' \in [assert : Ticks, beat : Ticks, peek : Ticks] /\ due'.assert # Off
      BY <3>1, <1>0 DEF Ticks, Off
    <3> QED BY <2>1, <3>2, <1>0, RearmedType, StimulusType
  <2> QED BY <2>1, <2>2, <1>0 DEF WorkerInv, ScheduleType, TriesLeft, BackstopArmed, InPass, AtLoop
<1>4. CASE TakeWoke
  <2>1. /\ pc' = "top"
        /\ due' = [due EXCEPT !.assert = Sooner(due.assert)]
        /\ tally' = Rearmed(tally)
        /\ ghost' = [ghost EXCEPT !.blind = 0]
    BY <1>4 DEF TakeWoke
  <2>2. Sooner(due.assert) \in Nat
    BY <1>0 DEF Sooner, Capped, Ticks, Off
  <2>3. /\ due' \in [assert : Ticks, beat : Ticks, peek : Ticks] /\ due'.assert # Off
        /\ tally' \in Tallies /\ ghost'.blind = 0 /\ tally'.attempts = 0
        /\ ghost' \in [blind : Nat, silent : SUBSET Devices, unseen : BOOLEAN,
                       foreign : BOOLEAN]
    <3>1. due' \in [assert : Ticks, beat : Ticks, peek : Ticks] /\ due'.assert # Off
      BY <2>1, <2>2, <1>0 DEF Ticks, Off
    <3> QED BY <2>1, <3>1, <1>0, RearmedType, StimulusType
  <2> QED BY <2>1, <2>3, <1>0 DEF WorkerInv, ScheduleType, TriesLeft, BackstopArmed, InPass, AtLoop
<1>5. CASE YieldTurn
  <2>1. /\ pc = "wait" /\ pc' = "top" /\ due.assert = 0
        /\ due' = [due EXCEPT !.assert = YieldRecheck]
        /\ tally' = tally /\ ghost' = ghost
    BY <1>5 DEF YieldTurn, AssertDue, Quiet
  <2>2. /\ due' \in [assert : Ticks, beat : Ticks, peek : Ticks] /\ due'.assert # Off
    BY <2>1, <1>0 DEF Ticks, Off
  <2> QED BY <2>1, <2>2, <1>0 DEF WorkerInv, ScheduleType, TriesLeft, BackstopArmed, InPass, AtLoop, Off
<1>6. CASE HoldOff
  <2>1. /\ pc = "wait" /\ pc' = "top" /\ due.assert = 0
        /\ due' = [due EXCEPT !.assert = Defer]
        /\ tally' = tally /\ ghost' = ghost
    BY <1>6 DEF HoldOff, AssertDue, Quiet
  <2>2. /\ due' \in [assert : Ticks, beat : Ticks, peek : Ticks] /\ due'.assert # Off
    BY <2>1, <1>0 DEF Ticks, Off
  <2> QED BY <2>1, <2>2, <1>0 DEF WorkerInv, ScheduleType, TriesLeft, BackstopArmed, InPass, AtLoop, Off
<1>7. CASE StartPass
  <2>1. /\ pc = "wait" /\ pc' \in {"gate", "find"} /\ due.assert = 0
        /\ due' = [due EXCEPT !.assert = Off]
        /\ tally' = tally /\ ghost' = [ghost EXCEPT !.unseen = FALSE]
    BY <1>7 DEF StartPass, AssertDue, Quiet
  <2>2. /\ due' \in [assert : Ticks, beat : Ticks, peek : Ticks] /\ due'.assert = Off
        /\ ghost'.blind = ghost.blind
        /\ ghost' \in [blind : Nat, silent : SUBSET Devices, unseen : BOOLEAN,
                       foreign : BOOLEAN]
    BY <2>1, <1>0 DEF Ticks, Off
  <2>3. ghost.blind <= QuietRetryAttempts
    BY <2>1 DEF WorkerInv, TriesLeft, AtLoop, Off
  <2>4. ScheduleType'
    BY <2>1, <2>2, <1>0 DEF ScheduleType, InPass
  <2>5. TriesLeft' /\ BackstopArmed'
    BY <2>1, <2>2, <2>3 DEF WorkerInv, TriesLeft, BackstopArmed, InPass, AtLoop
  <2> QED BY <2>4, <2>5 DEF WorkerInv
<1>8. CASE Peek
  <2>1. /\ pc = "wait" /\ pc' = "top" /\ tally' = tally
        /\ \/ /\ due' = [due EXCEPT !.peek = Off] /\ ghost' = ghost
           \/ /\ due' = [due EXCEPT !.peek = Off, !.assert = 0]
              /\ ghost' = [ghost EXCEPT !.blind = 0]
           \/ /\ due' = [due EXCEPT !.peek = IdlePeek] /\ ghost' = ghost
    BY <1>8 DEF Peek, PeekDue, Quiet
  <2>2. /\ due' \in [assert : Ticks, beat : Ticks, peek : Ticks]
        /\ ghost' \in [blind : Nat, silent : SUBSET Devices, unseen : BOOLEAN,
                       foreign : BOOLEAN]
        /\ \/ due'.assert = due.assert /\ due'.beat = due.beat /\ ghost' = ghost
           \/ due'.assert = 0 /\ ghost'.blind = 0
    <3>1. CASE due' = [due EXCEPT !.peek = Off] /\ ghost' = ghost
      BY <3>1, <1>0 DEF Ticks, Off
    <3>2. CASE /\ due' = [due EXCEPT !.peek = Off, !.assert = 0]
               /\ ghost' = [ghost EXCEPT !.blind = 0]
      <4>1. due' \in [assert : Ticks, beat : Ticks, peek : Ticks] /\ due'.assert = 0
        BY <3>2, <1>0 DEF Ticks, Off
      <4> QED BY <4>1, <3>2, StimulusType
    <3>3. CASE due' = [due EXCEPT !.peek = IdlePeek] /\ ghost' = ghost
      BY <3>3, <1>0 DEF Ticks, Off
    <3> QED BY <2>1, <3>1, <3>2, <3>3
  <2> QED BY <2>1, <2>2, <1>0 DEF WorkerInv, ScheduleType, TriesLeft, BackstopArmed, InPass, AtLoop, Off, Tallies
<1>9. CASE Beat
  <2>1. /\ pc = "wait" /\ pc' = "top" /\ tally' = tally
        /\ due' = [due EXCEPT !.beat = Off, !.assert = 0]
        /\ ghost' = [ghost EXCEPT !.blind = 0]
    BY <1>9 DEF Beat, BeatDue, Quiet
  <2>2. /\ due' \in [assert : Ticks, beat : Ticks, peek : Ticks]
        /\ ghost' \in [blind : Nat, silent : SUBSET Devices, unseen : BOOLEAN,
                       foreign : BOOLEAN]
        /\ due'.assert = 0 /\ ghost'.blind = 0
    <3>1. due' \in [assert : Ticks, beat : Ticks, peek : Ticks] /\ due'.assert = 0
      BY <2>1, <1>0 DEF Ticks, Off
    <3> QED BY <2>1, <3>1, StimulusType
  <2> QED BY <2>1, <2>2, <1>0 DEF WorkerInv, ScheduleType, TriesLeft, BackstopArmed, InPass, AtLoop, Off, Tallies
<1> QED BY <1>1, <1>2, <1>3, <1>4, <1>5, <1>6, <1>7, <1>8, <1>9 DEF Schedule

\* The steps of a pass.
LEMMA ApplyKeeps == WorkerInv /\ Apply => WorkerInv'
<1> SUFFICES ASSUME WorkerInv, Apply PROVE WorkerInv'
  OBVIOUS
<1>0. /\ ghost \in [blind : Nat, silent : SUBSET Devices, unseen : BOOLEAN, foreign : BOOLEAN]
      /\ tally \in Tallies
  BY DEF WorkerInv, ScheduleType
<1>1. CASE FindReceiver
  BY <1>1, <1>0, SameSchedule DEF FindReceiver, schedule, InPass
<1>2. CASE NoReceiver
  BY <1>2, <1>0, ConcludeKeeps DEF NoReceiver, InPass
<1>3. CASE BuildSession
  <2>1. ghost' = [ghost EXCEPT !.silent = ghost.silent \ Discovered]
    BY <1>3 DEF BuildSession
  <2>2. /\ ghost'.blind = ghost.blind
        /\ ghost' \in [blind : Nat, silent : SUBSET Devices, unseen : BOOLEAN,
                       foreign : BOOLEAN]
    BY <2>1, <1>0
  <2> QED BY <1>3, <2>2, SameSchedule DEF BuildSession, schedule, InPass
<1>4. CASE BuildFails
  BY <1>4, <1>0, ConcludeKeeps DEF BuildFails, InPass
<1>5. CASE GateYields
  BY <1>5, <1>0, ConcludeKeeps DEF GateYields, InPass
<1>6. CASE GateOpens
  BY <1>6, <1>0, SameSchedule DEF GateOpens, schedule, InPass
<1>7. CASE TransportLost
  BY <1>7, <1>0, ConcludeKeeps DEF TransportLost, InPass
<1>8. CASE FinishPass
  <2> DEFINE sees == ForeignTotal(known, session.devices) > foreignSeen
             t == IF pass.changed
                  THEN [tally EXCEPT !.clean = 0,
                          !.corrections = Capped(@ + 1, QuietCorrectionBudget + 1)]
                  ELSE IF pass.applied
                  THEN [tally EXCEPT !.clean = Capped(@ + 1, SettledChecks)]
                  ELSE tally
  <2>1. /\ pc \in InPass
        /\ Conclude(pass.applied /\ ~pass.failed, pass.applied, t, peer \/ sees)
    BY <1>8 DEF FinishPass, InPass
  <2>2. t \in Tallies /\ t.attempts = tally.attempts
    <3> DEFINE c == Capped(tally.corrections + 1, QuietCorrectionBudget + 1)
               n == Capped(tally.clean + 1, SettledChecks)
    <3>1. c \in Nat /\ n \in Nat
      BY <1>0, WorkerAssumption DEF Tallies, Capped
    <3>2. t = IF pass.changed THEN [tally EXCEPT !.clean = 0, !.corrections = c]
              ELSE IF pass.applied THEN [tally EXCEPT !.clean = n]
              ELSE tally
      OBVIOUS
    <3> HIDE DEF c, n, t
    <3>3. CASE pass.changed
      BY <3>1, <3>2, <3>3, <1>0 DEF Tallies
    <3>4. CASE ~pass.changed /\ pass.applied
      BY <3>1, <3>2, <3>4, <1>0 DEF Tallies
    <3>5. CASE ~pass.changed /\ ~pass.applied
      BY <3>2, <3>5, <1>0
    <3> QED BY <3>3, <3>4, <3>5
  <2>3. (pass.applied /\ ~pass.failed) \in BOOLEAN
    OBVIOUS
  <2> HIDE DEF t, sees
  <2> QED BY <2>1, <2>2, <2>3, ConcludeKeeps
<1>9. ASSUME NEW d \in Devices,
             ReadPlatform(d) \/ NoAnswer(d) \/ WritePlatform(d) \/ VerifyPlatform(d)
      PROVE  WorkerInv'
  <2>1. /\ due' = due /\ tally' = tally
        /\ pc \in InPass /\ pc' \in InPass
    BY <1>9 DEF ReadPlatform, NoAnswer, WritePlatform, VerifyPlatform, schedule, InPass
  <2>2. \/ ghost' = ghost
        \/ ghost' = [ghost EXCEPT !.foreign = TRUE]
        \/ ghost' = [ghost EXCEPT !.silent = ghost.silent \ {d}]
        \/ ghost' = [ghost EXCEPT !.silent = ghost.silent \ {d}, !.foreign = TRUE]
        \/ ghost' = [ghost EXCEPT !.silent = ghost.silent \cup {d}]
    BY <1>9 DEF ReadPlatform, NoAnswer, WritePlatform, VerifyPlatform
  <2>3. /\ ghost'.blind = ghost.blind
        /\ ghost' \in [blind : Nat, silent : SUBSET Devices, unseen : BOOLEAN,
                       foreign : BOOLEAN]
    BY <2>2, <1>0
  <2> QED BY <2>1, <2>3, SameSchedule
<1>10. CASE BlowsUp
  BY <1>10, <1>0, ConcludeKeeps DEF BlowsUp, InPass
<1> QED BY <1>1, <1>2, <1>3, <1>4, <1>5, <1>6, <1>7, <1>8, <1>9, <1>10 DEF Apply

\* The steps of the other threads and of the world, none of which touches the schedule.
LEMMA WorldKeeps == WorkerInv /\ World => WorkerInv'
<1> SUFFICES ASSUME WorkerInv, World PROVE WorkerInv'
  OBVIOUS
<1>0. ghost \in [blind : Nat, silent : SUBSET Devices, unseen : BOOLEAN, foreign : BOOLEAN]
  BY DEF WorkerInv, ScheduleType
<1>1. /\ due' = due /\ tally' = tally /\ pc' = pc
      /\ \/ ghost' = ghost
         \/ ghost' = [ghost EXCEPT !.unseen = TRUE]
         \/ ghost' = [ghost EXCEPT !.foreign = TRUE]
  <2>1. CASE Stop \/ Replug \/ Link \/ PeerForgotten
    BY <2>1 DEF Stop, Replug, Link, PeerForgotten, schedule
  <2>2. ASSUME NEW d \in Devices, Hop(d) \/ Chatter(d) \/ ForeignWrite(d) \/ Revert(d)
        PROVE  <1>1
    BY <2>2 DEF Hop, Chatter, ForeignWrite, HearsForeign, Revert, schedule
  <2>3. ASSUME NEW f \in {"idle", "held", "rival"}, Toggle(f)
        PROVE  <1>1
    BY <2>3 DEF Toggle, schedule
  <2> QED BY <2>1, <2>2, <2>3 DEF World
<1>2. /\ ghost'.blind = ghost.blind
      /\ ghost' \in [blind : Nat, silent : SUBSET Devices, unseen : BOOLEAN,
                     foreign : BOOLEAN]
  BY <1>0, <1>1
<1> QED BY <1>1, <1>2, SameSchedule

\* Time works the deadlines down and cancels none.
LEMMA TickKeeps == WorkerInv /\ Tick => WorkerInv'
<1> SUFFICES ASSUME WorkerInv, Tick PROVE WorkerInv'
  OBVIOUS
<1>0. due \in [assert : Ticks, beat : Ticks, peek : Ticks]
  BY DEF WorkerInv, ScheduleType
<1>1. ASSUME NEW n \in Ticks PROVE Down(n) \in Ticks /\ (Down(n) = Off <=> n = Off)
  BY DEF Ticks, Down, Off
<1>2. /\ DOMAIN due = {"assert", "beat", "peek"}
      /\ due' = [k \in DOMAIN due |-> Down(due[k])]
      /\ pc' = pc /\ tally' = tally /\ ghost' = ghost
  BY <1>0 DEF Tick
<1>3. /\ due'.assert = Down(due.assert) /\ due'.beat = Down(due.beat)
      /\ due' = [assert |-> Down(due.assert), beat |-> Down(due.beat),
                 peek |-> Down(due.peek)]
  BY <1>0, <1>2
<1>4. /\ due' \in [assert : Ticks, beat : Ticks, peek : Ticks]
      /\ due'.assert = Off <=> due.assert = Off
      /\ due'.beat = Off <=> due.beat = Off
  BY <1>0, <1>1, <1>3
<1> QED BY <1>2, <1>4 DEF WorkerInv, ScheduleType, TriesLeft, BackstopArmed

-----------------------------------------------------------------------------
\* The deadlines, the count of tries and the worker's place fit together in every
\* reachable state, whatever the world does.
THEOREM InvCorrect == Spec => []WorkerInv
<1>1. Init => WorkerInv
  BY InitInv
<1>2. WorkerInv /\ [Next]_vars => WorkerInv'
  <2> SUFFICES ASSUME WorkerInv, [Next]_vars PROVE WorkerInv'
    OBVIOUS
  <2>1. CASE Worker
    BY <2>1, ScheduleKeeps, ApplyKeeps DEF Worker
  <2>2. CASE World
    BY <2>2, WorldKeeps
  <2>3. CASE Tick
    BY <2>3, TickKeeps
  <2>4. CASE UNCHANGED vars \/ Finished
    BY <2>4 DEF vars, Finished, WorkerInv, ScheduleType, TriesLeft, BackstopArmed
  <2> QED BY <2>1, <2>2, <2>3, <2>4 DEF Next
<1> QED BY <1>1, <1>2, PTL DEF Spec

\* With a heartbeat configured in both duty cycles, the worker never waits without a
\* scheduled look at the keyboard: the eleven-hour silence of _run lines 708-714 cannot
\* happen, whatever gave up, failed, yielded or was interrupted.
THEOREM BackstopNeverLost == Spec => []BackstopArmed
<1>1. WorkerInv => BackstopArmed
  BY DEF WorkerInv
<1> QED BY <1>1, InvCorrect, PTL

\* In event-only mode an absent keyboard costs at most QUIET_RETRY_ATTEMPTS + 1 failed
\* passes between two stimuli.
THEOREM QuietTriesBounded == Spec => []QuietTries
<1>1. WorkerInv => QuietTries
  BY DEF WorkerInv, TriesLeft, QuietTries
<1> QED BY <1>1, InvCorrect, PTL

-----------------------------------------------------------------------------
(* Types *)

\* What counts the foreign writes counts in naturals.
LEMMA ForeignTotalType ==
  ASSUME TypeOK
  PROVE  ForeignTotal(known, session.devices) \in Nat
<1>1. session.devices \subseteq Devices /\ IsFiniteSet(session.devices)
  BY WorkerAssumption, FS_Subset DEF TypeOK
<1>2. \A d \in session.devices : [e \in Devices |-> known[e].foreign][d] \in Nat
  BY <1>1 DEF TypeOK
<1> QED
  BY <1>1, <1>2, SumNat DEF ForeignTotal

\* What a bounded counter counts stays within its bound.
LEMMA CappedType ==
  ASSUME NEW n \in Nat, NEW bound \in Nat
  PROVE  Capped(n, bound) \in 0..bound
BY DEF Capped

\* A put keeps the queue a queue of events, no longer than it may be.
LEMMA PutType ==
  ASSUME TypeOK, NEW e \in {"changed", "woke", "stop"}, Put(e)
  PROVE  queue' \in Seq({"changed", "woke", "stop"}) /\ Len(queue') <= QueueBound
<1>1. /\ queue \in Seq({"changed", "woke", "stop"}) /\ Len(queue) <= QueueBound
      /\ QueueBound \in Nat /\ Len(queue) \in Nat
  BY WorkerAssumption DEF TypeOK
<1>2. CASE Len(queue) < QueueBound
  BY <1>1, <1>2 DEF Put
<1>3. CASE ~(Len(queue) < QueueBound)
  BY <1>1, <1>3 DEF Put
<1> QED BY <1>2, <1>3

\* So does taking the first event.
LEMMA TakeType ==
  ASSUME TypeOK, queue # <<>>
  PROVE  /\ Tail(queue) \in Seq({"changed", "woke", "stop"})
         /\ Len(Tail(queue)) <= QueueBound
<1>1. /\ queue \in Seq({"changed", "woke", "stop"}) /\ Len(queue) <= QueueBound
      /\ QueueBound \in Nat /\ Len(queue) \in Nat
  BY WorkerAssumption DEF TypeOK
<1>2. Tail(queue) \in Seq({"changed", "woke", "stop"}) /\ Len(Tail(queue)) = Len(queue) - 1
  BY <1>1
<1> QED BY <1>1, <1>2

\* The type invariant, by what the variables belong to.
InboxType ==
  /\ stopping \in BOOLEAN
  /\ queue \in Seq({"changed", "woke", "stop"}) /\ Len(queue) <= QueueBound
TimesType ==
  /\ due \in [assert : Ticks, beat : Ticks, peek : Ticks]
  /\ deferred \in Ticks /\ deferred <= MaxDefer
TallyType ==
  tally \in [retry : Nat, attempts : 0..(QuietRetryAttempts + 1),
             corrections : 0..(QuietCorrectionBudget + 1), clean : 0..SettledChecks]
MindType ==
  absent \in BOOLEAN /\ reached \in BOOLEAN /\ wasIdle \in BOOLEAN /\ peer \in BOOLEAN
LinksType ==
  /\ session \in [open : BOOLEAN, live : BOOLEAN, devices : SUBSET Devices]
  /\ driven \subseteq Devices /\ hints \subseteq Devices
ObjectsType ==
  /\ known \in [Devices -> [seen : Records \cup {NoRecord}, wrote : BOOLEAN, foreign : Nat]]
  /\ lastWritten \subseteq Devices /\ foreignSeen \in Nat
PassType ==
  pass \in [todo : SUBSET Devices, on : Devices \cup {NoDevice}, applied : BOOLEAN,
            changed : BOOLEAN, failed : BOOLEAN]
WorldType ==
  /\ kb \in [Devices -> Records]
  /\ world \in [attached : BOOLEAN, here : SUBSET Devices, idle : BOOLEAN, held : BOOLEAN,
                rival : BOOLEAN]
  /\ moves \in 0..MaxMoves
GhostType ==
  ghost \in [blind : 0..(QuietRetryAttempts + 2), silent : SUBSET Devices,
             unseen : BOOLEAN, foreign : BOOLEAN]
PcType ==
  pc \in {"top", "wait", "find", "build", "gate", "device", "write", "verify", "exited"}

\* The parts are the whole.
LEMMA TypeParts ==
  TypeOK <=> /\ PcType /\ InboxType /\ TimesType /\ TallyType /\ MindType /\ LinksType
             /\ ObjectsType /\ PassType /\ WorldType /\ GhostType
BY DEF TypeOK, PcType, InboxType, TimesType, TallyType, MindType, LinksType, ObjectsType,
       PassType, WorldType, GhostType

\* The same of the next state.
LEMMA TypePartsNext ==
  TypeOK' <=> /\ PcType' /\ InboxType' /\ TimesType' /\ TallyType' /\ MindType'
              /\ LinksType' /\ ObjectsType' /\ PassType' /\ WorldType' /\ GhostType'
BY DEF TypeOK, PcType, InboxType, TimesType, TallyType, MindType, LinksType, ObjectsType,
       PassType, WorldType, GhostType

\* What Conclude leaves has the right types.
LEMMA ConcludeType ==
  ASSUME TypeOK, NEW ok \in BOOLEAN, NEW reach \in BOOLEAN, NEW peerNow \in BOOLEAN,
         NEW t \in [retry : Nat, attempts : 0..(QuietRetryAttempts + 1),
                    corrections : 0..(QuietCorrectionBudget + 1), clean : 0..SettledChecks],
         Conclude(ok, reach, t, peerNow)
  PROVE  /\ PcType' /\ PassType' /\ GhostType' /\ TallyType'
         /\ absent' \in BOOLEAN /\ reached' \in BOOLEAN
         /\ due' \in [assert : Ticks, beat : Ticks, peek : Ticks]
<1> USE WorkerAssumption
<1>1. PcType' /\ PassType'
  BY DEF Conclude, PcType, PassType, NoPass
<1>2. absent' \in BOOLEAN /\ reached' \in BOOLEAN
  BY DEF Conclude
<1>3. GhostType'
  <2> DEFINE b == IF ok THEN 0 ELSE IF EventOnly
                  THEN Capped(ghost.blind + 1, QuietRetryAttempts + 2) ELSE ghost.blind
  <2>1. ghost \in [blind : 0..(QuietRetryAttempts + 2), silent : SUBSET Devices,
                   unseen : BOOLEAN, foreign : BOOLEAN]
    BY DEF TypeOK
  <2>2. b \in 0..(QuietRetryAttempts + 2)
    BY <2>1 DEF Capped
  <2>3. ghost' = [ghost EXCEPT !.blind = b]
    BY DEF Conclude
  <2> HIDE DEF b
  <2> QED BY <2>1, <2>2, <2>3 DEF GhostType
<1>4. /\ due \in [assert : Ticks, beat : Ticks, peek : Ticks]
      /\ HeartbeatInterval \in Nat /\ FastRecheck \in Nat /\ IdlePeek \in Nat
      /\ RetryInitial \in Nat /\ RetryMax \in Nat
  BY DEF TypeOK, HeartbeatInterval
<1>5. CASE ok
  <2>1. AfterSuccess(t, peerNow)
    BY <1>5 DEF Conclude
  <2>2. TallyType'
    <3>1. tally' = [t EXCEPT !.retry = 0, !.attempts = 0] /\ QuietRetryAttempts \in Nat
      BY <2>1 DEF AfterSuccess
    <3>2. 0 \in 0..(QuietRetryAttempts + 1)
      BY <3>1
    <3> QED BY <3>1, <3>2 DEF TallyType
  <2>3. due' \in [assert : Ticks, beat : Ticks, peek : Ticks]
    BY <2>1, <1>4 DEF AfterSuccess, Ticks, Off
  <2> QED BY <1>1, <1>2, <1>3, <2>2, <2>3
<1>6. CASE ~ok
  <2> DEFINE n == Capped(t.attempts + 1, QuietRetryAttempts + 1)
             b == Capped(IF 2 * t.retry > RetryInitial THEN 2 * t.retry ELSE RetryInitial,
                         RetryMax)
  <2>1. AfterFailure(t)
    BY <1>6 DEF Conclude
  <2>2. n \in 0..(QuietRetryAttempts + 1) /\ b \in Nat /\ Backstop(due.beat) \in Ticks
    BY <1>4 DEF Capped, Backstop, Ticks
  <2>3. /\ \/ tally' = [t EXCEPT !.retry = 0, !.attempts = n]
           \/ tally' = [t EXCEPT !.retry = b, !.attempts = n]
        /\ \/ due' = [due EXCEPT !.beat = Backstop(due.beat)]
           \/ due' = [due EXCEPT !.assert = b]
    BY <2>1 DEF AfterFailure
  <2> HIDE DEF n, b
  <2>4. TallyType'
    <3>1. CASE tally' = [t EXCEPT !.retry = 0, !.attempts = n]
      BY <2>2, <3>1 DEF TallyType
    <3>2. CASE tally' = [t EXCEPT !.retry = b, !.attempts = n]
      BY <2>2, <3>2 DEF TallyType
    <3> QED BY <2>3, <3>1, <3>2
  <2>5. due' \in [assert : Ticks, beat : Ticks, peek : Ticks]
    BY <2>2, <2>3, <1>4 DEF Ticks
  <2> QED BY <1>1, <1>2, <1>3, <2>4, <2>5
<1> QED BY <1>5, <1>6

\* The parameters are naturals.
LEMMA Numbers ==
  /\ Reassert \in Nat /\ QuietReassert \in Nat /\ MaxDefer \in Nat
  /\ QuietRetryAttempts \in Nat /\ QuietCorrectionBudget \in Nat /\ SettledChecks \in Nat
  /\ MaxMoves \in Nat /\ QueueBound \in Nat /\ Debounce \in Nat /\ WakeDelay \in Nat
  /\ Defer \in Nat /\ FastRecheck \in Nat /\ IdlePeek \in Nat /\ YieldRecheck \in Nat
  /\ RetryInitial \in Nat /\ RetryMax \in Nat
BY WorkerAssumption

\* A stimulus restarts the counters and keeps their types.
LEMMA StimulusKeepsTypes ==
  ASSUME TypeOK, tally' = Rearmed(tally), ghost' = [ghost EXCEPT !.blind = 0]
  PROVE  TallyType' /\ GhostType'
<1>1. /\ 0 \in 0..(QuietRetryAttempts + 1) /\ 0 \in 0..(QuietRetryAttempts + 2)
      /\ 0 \in 0..(QuietCorrectionBudget + 1)
  BY Numbers
<1>2. tally' = [tally EXCEPT !.retry = 0, !.attempts = 0, !.corrections = 0]
  BY DEF Rearmed
<1>3. TallyType'
  <2>1. tally \in [retry : Nat, attempts : 0..(QuietRetryAttempts + 1),
                   corrections : 0..(QuietCorrectionBudget + 1), clean : 0..SettledChecks]
    BY DEF TypeOK
  <2>2. tally' = [retry |-> 0, attempts |-> 0, corrections |-> 0, clean |-> tally.clean]
    BY <1>2, <2>1
  <2> QED BY <1>1, <2>1, <2>2 DEF TallyType
<1>4. GhostType'
  BY <1>1 DEF TypeOK, GhostType
<1> QED BY <1>3, <1>4

\* What the ghost remembers can be updated piece by piece.
LEMMA GhostUpdates ==
  ASSUME TypeOK
  PROVE  /\ GhostType
         /\ ghost' = ghost => GhostType'
         /\ ghost' = [ghost EXCEPT !.blind = 0] => GhostType'
         /\ ghost' = [ghost EXCEPT !.unseen = TRUE] => GhostType'
         /\ ghost' = [ghost EXCEPT !.unseen = FALSE] => GhostType'
         /\ ghost' = [ghost EXCEPT !.foreign = TRUE] => GhostType'
         /\ \A s \in SUBSET Devices : ghost' = [ghost EXCEPT !.silent = s] => GhostType'
<1>1. /\ ghost \in [blind : 0..(QuietRetryAttempts + 2), silent : SUBSET Devices,
                    unseen : BOOLEAN, foreign : BOOLEAN]
      /\ 0 \in 0..(QuietRetryAttempts + 2)
  BY Numbers DEF TypeOK
<1>2. ghost' = ghost => GhostType'
  BY <1>1 DEF GhostType
<1>3. ghost' = [ghost EXCEPT !.blind = 0] => GhostType'
  BY <1>1 DEF GhostType
<1>4. ghost' = [ghost EXCEPT !.unseen = TRUE] => GhostType'
  BY <1>1 DEF GhostType
<1>5. ghost' = [ghost EXCEPT !.unseen = FALSE] => GhostType'
  BY <1>1 DEF GhostType
<1>6. ghost' = [ghost EXCEPT !.foreign = TRUE] => GhostType'
  BY <1>1 DEF GhostType
<1>7. \A s \in SUBSET Devices : ghost' = [ghost EXCEPT !.silent = s] => GhostType'
  BY <1>1 DEF GhostType
<1> QED BY <1>1, <1>2, <1>3, <1>4, <1>5, <1>6, <1>7 DEF GhostType

\* A write, ours or another's, leaves a platform record.
LEMMA WriteType ==
  ASSUME TypeOK, NEW d \in Devices,
         NEW r \in {[mode |-> "ours", by |-> "software"], [mode |-> "theirs", by |-> "software"]}
  PROVE  [kb EXCEPT ![d] = r] \in [Devices -> Records]
<1>1. r \in Records /\ kb \in [Devices -> Records]
  BY DEF TypeOK, Records
<1> QED BY <1>1

\* Noting a reading keeps a device object one.
LEMMA NotedType ==
  ASSUME TypeOK, NEW d \in Devices
  PROVE  Noted(known[d], kb[d])
           \in [seen : Records \cup {NoRecord}, wrote : BOOLEAN, foreign : Nat]
<1>1. /\ known[d] \in [seen : Records \cup {NoRecord}, wrote : BOOLEAN, foreign : Nat]
      /\ kb[d] \in Records
  BY DEF TypeOK
<1> DEFINE n == IF /\ kb[d] # known[d].seen
                   /\ kb[d] = [mode |-> "theirs", by |-> "software"]
                   /\ known[d].wrote
                  THEN known[d].foreign + 1 ELSE known[d].foreign
<1>2. n \in Nat
  BY <1>1
<1>3. Noted(known[d], kb[d]) = [known[d] EXCEPT !.seen = kb[d], !.foreign = n]
  BY DEF Noted
<1> HIDE DEF n
<1> QED BY <1>1, <1>2, <1>3

\* The steps of the loop keep the types.
LEMMA LoopTypes == TypeOK /\ Schedule => TypeOK'
<1> SUFFICES ASSUME TypeOK, Schedule PROVE TypeOK'
  OBVIOUS
<1> USE TypeParts, TypePartsNext
    DEF PcType, InboxType, MindType, LinksType, ObjectsType, PassType, WorldType, inbox,
        presence, rivalry, links, objects, worldVars
<1>0. /\ Debounce \in Nat /\ WakeDelay \in Nat /\ Defer \in Nat /\ IdlePeek \in Nat
      /\ YieldRecheck \in Nat /\ MaxDefer \in Nat
  BY Numbers
<1>1. CASE Enter
  BY <1>1 DEF Enter, schedule, TimesType, TallyType, GhostType
<1>2. CASE Leave
  BY <1>2 DEF Leave, Closed, schedule, TimesType, TallyType, GhostType
<1>3. CASE TakeChanged
  <2>1. TimesType'
    BY <1>3, <1>0 DEF TakeChanged, TimesType, Ticks, Off
  <2>2. TallyType' /\ GhostType'
    BY <1>3, <1>0, StimulusKeepsTypes DEF TakeChanged
  <2> QED BY <1>3, <2>1, <2>2, TakeType DEF TakeChanged, Closed
<1>4. CASE TakeWoke
  <2>1. TimesType'
    BY <1>4, <1>0 DEF TakeWoke, Sooner, Capped, TimesType, Ticks, Off
  <2>2. TallyType' /\ GhostType'
    BY <1>4, <1>0, StimulusKeepsTypes DEF TakeWoke
  <2> QED BY <1>4, <2>1, <2>2, TakeType DEF TakeWoke
<1>5. CASE YieldTurn
  BY <1>5, <1>0 DEF YieldTurn, TimesType, TallyType, GhostType, Ticks
<1>6. CASE HoldOff
  <2>1. due' = [due EXCEPT !.assert = Defer]
    BY <1>6 DEF HoldOff
  <2>2. deferred' = 0 \/ deferred' = deferred
    BY <1>6 DEF HoldOff
  <2>3. TimesType'
    BY <2>1, <2>2, <1>0 DEF TimesType, Ticks
  <2> QED BY <1>6, <2>3 DEF HoldOff, TallyType, GhostType
<1>7. CASE StartPass
  <2>1. due' = [due EXCEPT !.assert = Off] /\ deferred' = Off
    BY <1>7 DEF StartPass
  <2>2. TimesType'
    <3>1. Off \in Ticks /\ Off <= MaxDefer
      BY <1>0 DEF Ticks, Off
    <3> QED BY <2>1, <3>1 DEF TimesType
  <2> QED BY <1>7, <2>2, GhostUpdates DEF StartPass, TallyType
<1>8. CASE Peek
  <2>0. /\ deferred' = deferred
        /\ \/ due' = [due EXCEPT !.peek = Off]
           \/ due' = [due EXCEPT !.peek = Off, !.assert = 0]
           \/ due' = [due EXCEPT !.peek = IdlePeek]
    BY <1>8 DEF Peek
  <2>1. TimesType'
    <3>1. CASE due' = [due EXCEPT !.peek = Off]
      BY <2>0, <3>1 DEF TimesType, Ticks, Off
    <3>2. CASE due' = [due EXCEPT !.peek = Off, !.assert = 0]
      BY <2>0, <3>2 DEF TimesType, Ticks, Off
    <3>3. CASE due' = [due EXCEPT !.peek = IdlePeek]
      BY <2>0, <3>3, <1>0 DEF TimesType, Ticks, Off
    <3> QED BY <2>0, <3>1, <3>2, <3>3
  <2>4. MindType'
    <3>1. wasIdle' \in BOOLEAN
      BY <1>8 DEF Peek
    <3> QED BY <1>8, <3>1 DEF Peek
  <2>2. ghost' = ghost \/ ghost' = [ghost EXCEPT !.blind = 0]
    BY <1>8 DEF Peek
  <2>3. GhostType'
    BY <2>2, GhostUpdates
  <2> QED BY <1>8, <2>1, <2>3, <2>4 DEF Peek, TallyType
<1>9. CASE Beat
  <2>1. TimesType'
    BY <1>9, <1>0 DEF Beat, TimesType, Ticks, Off
  <2>2. GhostType'
    BY <1>9, GhostUpdates DEF Beat
  <2> QED BY <1>9, <2>1, <2>2 DEF Beat, TallyType
<1> QED BY <1>1, <1>2, <1>3, <1>4, <1>5, <1>6, <1>7, <1>8, <1>9 DEF Schedule

\* The steps of a pass keep the types.
LEMMA PassTypes == TypeOK /\ Apply => TypeOK'
<1> SUFFICES ASSUME TypeOK, Apply PROVE TypeOK'
  OBVIOUS
<1> USE TypeParts, TypePartsNext
    DEF PcType, InboxType, MindType, LinksType, ObjectsType, PassType, WorldType, inbox,
        presence, rivalry, links, objects, worldVars, TimesType
<1>0. /\ MaxMoves \in Nat /\ QuietCorrectionBudget \in Nat /\ SettledChecks \in Nat
  BY Numbers
<1>m. ASSUME NEW m, Move(m) PROVE moves' \in 0..MaxMoves
  BY <1>m, <1>0 DEF Move
<1>e. ASSUME NEW P \in BOOLEAN, NEW m, Either(P, m) PROVE moves' \in 0..MaxMoves
  BY <1>e, <1>m DEF Either
<1>t. TallyType /\ tally \in [retry : Nat, attempts : 0..(QuietRetryAttempts + 1),
                    corrections : 0..(QuietCorrectionBudget + 1), clean : 0..SettledChecks]
  BY DEF TallyType
<1>d. Discovered \subseteq Devices
  BY DEF Discovered
<1>1. CASE FindReceiver
  BY <1>1 DEF FindReceiver, Closed, schedule, TallyType, GhostType
<1>2. CASE NoReceiver
  <2>1. /\ Conclude(FALSE, FALSE, tally, peer) /\ Either(~world.attached, "timeout")
        /\ UNCHANGED <<inbox, deferred, rivalry, links, objects, kb, world>>
    BY <1>2 DEF NoReceiver
  <2>2. moves' \in 0..MaxMoves
    BY <2>1, <1>e
  <2> QED BY <2>1, <2>2, <1>t, ConcludeType
<1>3. CASE BuildSession
  <2>1. GhostType'
    BY <1>3 DEF BuildSession, GhostType
  <2>2. ObjectsType'
    BY <1>3 DEF BuildSession
  <2> QED BY <1>3, <1>d, <2>1, <2>2 DEF BuildSession, schedule, TallyType
<1>4. CASE BuildFails
  <2>1. /\ Conclude(FALSE, FALSE, tally, peer)
        /\ Either(~session.live \/ Discovered = {}, "timeout")
        /\ session' = Closed /\ driven' = {}
        /\ UNCHANGED <<inbox, deferred, rivalry, hints, objects, kb, world>>
    BY <1>4 DEF BuildFails
  <2>2. moves' \in 0..MaxMoves
    BY <2>1, <1>e
  <2> QED BY <2>1, <2>2, <1>t, ConcludeType DEF Closed
<1>5. CASE GateYields
  <2>1. /\ Conclude(TRUE, reached, tally, peer)
        /\ UNCHANGED <<inbox, deferred, rivalry, links, objects, worldVars>>
    BY <1>5 DEF GateYields
  <2>2. reached \in BOOLEAN /\ peer \in BOOLEAN
    OBVIOUS
  <2>3. /\ PcType' /\ PassType' /\ GhostType' /\ TallyType'
        /\ absent' \in BOOLEAN /\ reached' \in BOOLEAN
        /\ due' \in [assert : Ticks, beat : Ticks, peek : Ticks]
    <3> HIDE DEF MindType, TimesType, LinksType, ObjectsType, PassType, WorldType
    <3> QED BY <2>1, <2>2, <1>t, ConcludeType
  <2> QED BY <2>1, <2>3
<1>6. CASE GateOpens
  BY <1>6 DEF GateOpens, NoPass, schedule, TallyType, GhostType
<1>7. CASE TransportLost
  <2>1. /\ Conclude(FALSE, FALSE, tally, peer) /\ session' = Closed
        /\ UNCHANGED <<inbox, deferred, rivalry, driven, hints, objects, worldVars>>
    BY <1>7 DEF TransportLost
  <2> QED BY <2>1, <1>t, ConcludeType DEF Closed
<1>8. CASE BlowsUp
  <2>1. /\ Conclude(FALSE, FALSE, tally, peer) /\ Move("crash")
        /\ UNCHANGED <<inbox, deferred, rivalry, links, objects, kb, world>>
    BY <1>8 DEF BlowsUp
  <2>2. moves' \in 0..MaxMoves
    BY <2>1, <1>m
  <2> QED BY <2>1, <2>2, <1>t, ConcludeType
<1>9. CASE FinishPass
  <2> DEFINE total == ForeignTotal(known, session.devices)
             sees == total > foreignSeen
             t == IF pass.changed
                  THEN [tally EXCEPT !.clean = 0,
                          !.corrections = Capped(@ + 1, QuietCorrectionBudget + 1)]
                  ELSE IF pass.applied
                  THEN [tally EXCEPT !.clean = Capped(@ + 1, SettledChecks)]
                  ELSE tally
  <2>1. /\ Conclude(pass.applied /\ ~pass.failed, pass.applied, t, peer \/ sees)
        /\ foreignSeen' = IF sees THEN total ELSE foreignSeen
        /\ peer' = (peer \/ sees)
        /\ UNCHANGED <<inbox, deferred, wasIdle, links, objects, worldVars>>
    BY <1>9 DEF FinishPass
  <2>2. total \in Nat
    BY ForeignTotalType
  <2>3. t \in [retry : Nat, attempts : 0..(QuietRetryAttempts + 1),
               corrections : 0..(QuietCorrectionBudget + 1), clean : 0..SettledChecks]
    <3> DEFINE c == Capped(tally.corrections + 1, QuietCorrectionBudget + 1)
               n == Capped(tally.clean + 1, SettledChecks)
    <3>1. /\ c \in 0..(QuietCorrectionBudget + 1) /\ n \in 0..SettledChecks
          /\ 0 \in 0..SettledChecks
      <4>1. /\ tally.corrections + 1 \in Nat /\ QuietCorrectionBudget + 1 \in Nat
            /\ tally.clean + 1 \in Nat /\ SettledChecks \in Nat
        BY ONLY <1>0, <1>t
      <4>2. 0 \in 0..SettledChecks
        BY ONLY <4>1
      <4> QED BY ONLY <4>1, <4>2, CappedType
    <3>2. t = IF pass.changed THEN [tally EXCEPT !.clean = 0, !.corrections = c]
              ELSE IF pass.applied THEN [tally EXCEPT !.clean = n]
              ELSE tally
      OBVIOUS
    <3> HIDE DEF c, n, t
    <3>3. CASE pass.changed
      BY <3>1, <3>2, <3>3, <1>t
    <3>4. CASE ~pass.changed /\ pass.applied
      BY <3>1, <3>2, <3>4, <1>t
    <3>5. CASE ~pass.changed /\ ~pass.applied
      BY <3>2, <3>5, <1>t
    <3> QED BY <3>3, <3>4, <3>5
  <2>4. /\ pass.applied \in BOOLEAN /\ (pass.applied /\ ~pass.failed) \in BOOLEAN
        /\ (peer \/ sees) \in BOOLEAN
    OBVIOUS
  <2> HIDE DEF t, sees, total
  <2>5. /\ PcType' /\ PassType' /\ GhostType' /\ TallyType'
        /\ absent' \in BOOLEAN /\ reached' \in BOOLEAN
        /\ due' \in [assert : Ticks, beat : Ticks, peek : Ticks]
    BY <2>1, <2>3, <2>4, ConcludeType
  <2>6. MindType'
    BY <2>1, <2>4, <2>5
  <2>7. ObjectsType'
    BY <2>1, <2>2
  <2> QED BY <2>1, <2>5, <2>6, <2>7
<1>10. ASSUME NEW d \in Devices, ReadPlatform(d) PROVE TypeOK'
  <2>1. Noted(known[d], kb[d])
          \in [seen : Records \cup {NoRecord}, wrote : BOOLEAN, foreign : Nat]
    BY NotedType
  <2>2. ObjectsType'
    BY <1>10, <2>1 DEF ReadPlatform
  <2>3. GhostType'
    <3>1. ghost.silent \ {d} \in SUBSET Devices
      BY GhostUpdates DEF GhostType
    <3> QED BY <1>10, <3>1, GhostUpdates DEF ReadPlatform
  <2>4. PcType' /\ PassType'
    <3>1. CASE pc' = pc /\ pass' = [pass EXCEPT !.todo = @ \ {d}, !.applied = TRUE]
      BY <3>1
    <3>2. CASE pc' = "write" /\ pass' = [pass EXCEPT !.todo = @ \ {d}, !.on = d]
      BY <3>2
    <3> QED BY <1>10, <3>1, <3>2 DEF ReadPlatform
  <2> QED BY <1>10, <2>2, <2>3, <2>4 DEF ReadPlatform, schedule, TallyType
<1>11. ASSUME NEW d \in Devices, NoAnswer(d) PROVE TypeOK'
  <2>1. moves' \in 0..MaxMoves
    BY <1>11, <1>e DEF NoAnswer
  <2>2. kb' \in [Devices -> Records]
    <3>1. \/ kb' = kb
          \/ kb' = [kb EXCEPT ![d] = [mode |-> "ours", by |-> "software"]]
      BY <1>11 DEF NoAnswer
    <3> QED BY <3>1, WriteType
  <2>3. GhostType' /\ PassType'
    BY <1>11 DEF NoAnswer, Unanswered, GhostType
  <2> QED BY <1>11, <2>1, <2>2, <2>3 DEF NoAnswer, schedule, TallyType
<1>12. ASSUME NEW d \in Devices, WritePlatform(d) PROVE TypeOK'
  <2>1. WorldType' /\ GhostType'
    <3>1. CASE moves' = moves /\ ghost' = ghost
      BY <1>12, <3>1, <1>m, WriteType, GhostUpdates DEF WritePlatform
    <3>2. CASE kb' = kb /\ Move("refuse") /\ ghost' = [ghost EXCEPT !.foreign = TRUE]
      BY <1>12, <3>2, <1>m DEF WritePlatform, GhostType
    <3> QED BY <1>12, <3>1, <3>2 DEF WritePlatform
  <2>2. ObjectsType'
    BY <1>12 DEF WritePlatform
  <2> QED BY <1>12, <2>1, <2>2 DEF WritePlatform, schedule, TallyType
<1>13. ASSUME NEW d \in Devices, VerifyPlatform(d) PROVE TypeOK'
  <2>1. Noted(known[d], kb[d])
          \in [seen : Records \cup {NoRecord}, wrote : BOOLEAN, foreign : Nat]
    BY NotedType
  <2>2. ObjectsType'
    BY <1>13, <2>1 DEF VerifyPlatform
  <2>3. PassType'
    BY <1>13 DEF VerifyPlatform
  <2>4. moves' \in 0..MaxMoves
    BY <1>13, <1>e DEF VerifyPlatform
  <2> QED BY <1>13, <2>2, <2>3, <2>4 DEF VerifyPlatform, schedule, TallyType, GhostType
<1> QED
  BY <1>1, <1>2, <1>3, <1>4, <1>5, <1>6, <1>7, <1>8, <1>9, <1>10, <1>11, <1>12, <1>13
     DEF Apply

\* So do the steps of the other threads and of the world.
LEMMA WorldTypes == TypeOK /\ World => TypeOK'
<1> SUFFICES ASSUME TypeOK, World PROVE TypeOK'
  OBVIOUS
<1> USE TypeParts, TypePartsNext
    DEF PcType, InboxType, MindType, LinksType, ObjectsType, PassType, WorldType, inbox,
        presence, rivalry, links, objects, worldVars
<1>0. MaxMoves \in Nat
  BY Numbers
<1>m. ASSUME NEW m, Move(m) PROVE moves' \in 0..MaxMoves
  BY <1>m, <1>0 DEF Move
<1>1. CASE Stop
  BY <1>1, PutType DEF Stop, schedule, TimesType, TallyType, GhostType
<1>2. CASE Replug
  <2>1. moves' \in 0..MaxMoves
    BY <1>2, <1>m DEF Replug
  <2>2. GhostType' /\ InboxType'
    BY <1>2, PutType DEF Replug, GhostType
  <2> QED BY <1>2, <2>1, <2>2 DEF Replug, schedule, TimesType, TallyType
<1>3. CASE Link
  <2>1. moves' \in 0..MaxMoves
    BY <1>3, <1>m DEF Link
  <2>2. GhostType' /\ InboxType'
    BY <1>3, PutType DEF Link, GhostType
  <2> QED BY <1>3, <2>1, <2>2 DEF Link, schedule, TimesType, TallyType
<1>4. CASE PeerForgotten
  BY <1>4 DEF PeerForgotten, schedule, TimesType, TallyType, GhostType
<1>5. ASSUME NEW d \in Devices, Hop(d) PROVE TypeOK'
  <2>1. moves' \in 0..MaxMoves
    BY <1>5, <1>m DEF Hop
  <2>2. GhostType' /\ kb' \in [Devices -> Records]
    BY <1>5, WriteType, GhostUpdates DEF Hop
  <2> QED BY <1>5, <2>1, <2>2 DEF Hop, schedule, TimesType, TallyType
<1>6. ASSUME NEW d \in Devices, Chatter(d) PROVE TypeOK'
  <2>1. moves' \in 0..MaxMoves
    BY <1>6, <1>m DEF Chatter
  <2>2. GhostType' /\ InboxType'
    BY <1>6, PutType DEF Chatter, GhostType
  <2> QED BY <1>6, <2>1, <2>2 DEF Chatter, schedule, TimesType, TallyType
<1>7. ASSUME NEW d \in Devices, ForeignWrite(d) PROVE TypeOK'
  <2>1. moves' \in 0..MaxMoves
    BY <1>7, <1>m DEF ForeignWrite
  <2>2. GhostType' /\ kb' \in [Devices -> Records] /\ MindType'
    BY <1>7 DEF ForeignWrite, HearsForeign, GhostType, Records
  <2> QED BY <1>7, <2>1, <2>2 DEF ForeignWrite, HearsForeign, schedule, TimesType, TallyType
<1>8. ASSUME NEW d \in Devices, Revert(d) PROVE TypeOK'
  <2>1. moves' \in 0..MaxMoves
    BY <1>8, <1>m DEF Revert
  <2>2. kb' \in [Devices -> Records]
    BY <1>8 DEF Revert, Records
  <2> QED BY <1>8, <2>1, <2>2 DEF Revert, schedule, TimesType, TallyType, GhostType
<1>9. ASSUME NEW f \in {"idle", "held", "rival"}, Toggle(f) PROVE TypeOK'
  <2>1. moves' \in 0..MaxMoves
    BY <1>9, <1>m DEF Toggle
  <2> QED BY <1>9, <2>1 DEF Toggle, schedule, TimesType, TallyType, GhostType
<1> QED BY <1>1, <1>2, <1>3, <1>4, <1>5, <1>6, <1>7, <1>8, <1>9 DEF World

\* And time.
LEMMA TickTypes == TypeOK /\ Tick => TypeOK'
<1> SUFFICES ASSUME TypeOK, Tick PROVE TypeOK'
  OBVIOUS
<1> USE TypeParts, TypePartsNext
<1>1. TimesType'
  <2>1. ASSUME NEW n \in Ticks PROVE Down(n) \in Ticks
    BY DEF Ticks, Down, Off
  <2>2. /\ due' = [k \in {"assert", "beat", "peek"} |-> Down(due[k])]
        /\ deferred' = IF deferred = Off THEN Off ELSE Capped(deferred + 1, MaxDefer)
        /\ due.assert \in Ticks /\ due.beat \in Ticks /\ due.peek \in Ticks
    BY DEF Tick, TimesType
  <2>3. due' = [assert |-> Down(due.assert), beat |-> Down(due.beat),
                peek |-> Down(due.peek)]
    BY <2>2
  <2> QED BY <2>1, <2>2, <2>3, WorkerAssumption DEF TimesType, Capped, Ticks, Off
<1> QED
  BY <1>1 DEF Tick, PcType, InboxType, TallyType, MindType, LinksType, ObjectsType, PassType,
     WorldType, GhostType, inbox, presence, rivalry, links, objects, worldVars

\* Every variable keeps its type: the counters their bounds, the queue its bound and its
\* three kinds of events, whatever the number of keyboards.
THEOREM TypeCorrect == Spec => []TypeOK
<1>1. Init => TypeOK
  <2> SUFFICES ASSUME Init PROVE TypeOK
    OBVIOUS
  <2>0. /\ QueueBound \in Nat /\ MaxDefer \in Nat
        /\ 0 \in 0..MaxMoves /\ 0 \in 0..(QuietRetryAttempts + 1)
        /\ 0 \in 0..(QuietRetryAttempts + 2) /\ 0 \in 0..(QuietCorrectionBudget + 1)
        /\ SettledChecks \in 0..SettledChecks
    BY Numbers
  <2>1. PcType /\ InboxType
    <3>1. pc = "top" /\ stopping = FALSE /\ queue = <<>>
      BY DEF Init
    <3>2. queue \in Seq({"changed", "woke", "stop"}) /\ Len(queue) = 0
      BY <3>1
    <3>3. Len(queue) <= QueueBound
      BY <2>0, <3>2
    <3> QED BY <3>1, <3>2, <3>3 DEF PcType, InboxType
  <2>5. TimesType
    BY <2>0 DEF Init, TimesType, Ticks, Off
  <2>2. TallyType /\ MindType /\ LinksType
    BY <2>0 DEF Init, TallyType, MindType, LinksType, Closed
  <2>3. ObjectsType /\ PassType
    BY DEF Init, ObjectsType, PassType, NoPass
  <2>4. WorldType /\ GhostType
    BY <2>0 DEF Init, WorldType, GhostType
  <2> QED BY <2>1, <2>2, <2>3, <2>4, <2>5, TypeParts
<1>2. TypeOK /\ [Next]_vars => TypeOK'
  <2> SUFFICES ASSUME TypeOK, [Next]_vars PROVE TypeOK'
    OBVIOUS
  <2>1. CASE Worker \/ World \/ Tick
    BY <2>1, LoopTypes, PassTypes, WorldTypes, TickTypes DEF Worker
  <2>2. CASE UNCHANGED vars \/ Finished
    BY <2>2 DEF vars, Finished, TypeOK
  <2> QED BY <2>1, <2>2 DEF Next
<1> QED BY <1>1, <1>2, PTL DEF Spec

-----------------------------------------------------------------------------
(* Every pass implements Correction *)

Asking == {"device", "write", "verify"}

\* How far the pass is with d.
PhaseOf(d) == IF d = pass.on THEN IF pc = "write" THEN "differs" ELSE "written"
              ELSE IF d \in pass.todo THEN "looking" ELSE "idle"

\* The locals of a pass fit the place the worker is at.
CallInv ==
  /\ kb \in [Devices -> Records]
  /\ pass = [todo |-> pass.todo, on |-> pass.on, applied |-> pass.applied,
             changed |-> pass.changed, failed |-> pass.failed]
  /\ pc \notin Asking => pass.todo = {}
  /\ pc \notin {"write", "verify"} => pass.on = NoDevice
  /\ pc \in {"write", "verify"} => pass.on \in Devices /\ pass.on \notin pass.todo

\* A step outside the pass, which may write the keyboards.
Elsewhere ==
  /\ pass' = pass /\ kb' \in [Devices -> Records]
  /\ pc' = pc \/ (pc \notin Asking /\ pc' \notin Asking)

\* The end of a pass.
Ends == pc' = "top" /\ pass' = NoPass /\ kb' = kb

\* One request of the pass to d.
Request(d) == ReadPlatform(d) \/ NoAnswer(d) \/ WritePlatform(d) \/ VerifyPlatform(d)

\* What the steps are to the pass.
LEMMA StepKinds ==
  ASSUME CallInv, [Next]_vars
  PROVE  Elsewhere \/ Ends \/ GateOpens \/ \E d \in Devices : Request(d)
<1>1. CASE Schedule
  BY <1>1 DEF Schedule, Enter, Leave, TakeChanged, TakeWoke, YieldTurn, HoldOff, StartPass,
     Peek, Beat, AssertDue, PeekDue, BeatDue, Quiet, worldVars, Asking, Elsewhere, CallInv
<1>2. CASE FindReceiver \/ BuildSession
  BY <1>2 DEF FindReceiver, BuildSession, worldVars, Asking, Elsewhere, CallInv
<1>3. CASE NoReceiver \/ BuildFails \/ GateYields \/ TransportLost \/ BlowsUp \/ FinishPass
  BY <1>3 DEF NoReceiver, BuildFails, GateYields, TransportLost, BlowsUp, FinishPass,
     Conclude, worldVars, Ends
<1>4. CASE World
  <2>1. CASE Stop \/ Replug \/ Link \/ PeerForgotten
    BY <2>1 DEF Stop, Replug, Link, PeerForgotten, worldVars, Elsewhere, CallInv
  <2>2. ASSUME NEW d \in Devices, Hop(d) \/ Chatter(d) \/ ForeignWrite(d) \/ Revert(d)
        PROVE  Elsewhere
    <3>1. pass' = pass /\ pc' = pc
      BY <2>2 DEF Hop, Chatter, ForeignWrite, HearsForeign, Revert
    <3>2. \/ kb' = kb
          \/ \E r \in Records : kb' = [kb EXCEPT ![d] = r]
      BY <2>2 DEF Hop, Chatter, ForeignWrite, HearsForeign, Revert, Records
    <3> QED BY <3>1, <3>2 DEF Elsewhere, CallInv
  <2>3. ASSUME NEW f \in {"idle", "held", "rival"}, Toggle(f)
        PROVE  Elsewhere
    BY <2>3 DEF Toggle, Elsewhere, CallInv
  <2> QED BY <1>4, <2>1, <2>2, <2>3 DEF World
<1>5. CASE Tick
  BY <1>5 DEF Tick, worldVars, Elsewhere, CallInv
<1>6. CASE UNCHANGED vars \/ Finished
  BY <1>6 DEF vars, Finished, Elsewhere, CallInv
<1> QED BY <1>1, <1>2, <1>3, <1>4, <1>5, <1>6 DEF Next, Worker, Apply, Request

\* CallInv is inductive.
LEMMA CallStep == CallInv /\ [Next]_vars => CallInv'
<1> SUFFICES ASSUME CallInv, [Next]_vars PROVE CallInv'
  OBVIOUS
<1>1. CASE Elsewhere
  BY <1>1 DEF Elsewhere, CallInv, Asking
<1>2. CASE Ends
  BY <1>2 DEF Ends, NoPass, CallInv, Asking
<1>3. CASE GateOpens
  BY <1>3 DEF GateOpens, NoPass, CallInv, Asking, worldVars
<1>4. ASSUME NEW d \in Devices, ReadPlatform(d) PROVE CallInv'
  <2>1. pc = "device" /\ kb' = kb
    BY <1>4 DEF ReadPlatform, worldVars
  <2>2. CASE pc' = pc /\ pass' = [pass EXCEPT !.todo = @ \ {d}, !.applied = TRUE]
    BY <2>1, <2>2 DEF CallInv, Asking
  <2>3. CASE pc' = "write" /\ pass' = [pass EXCEPT !.todo = @ \ {d}, !.on = d]
    BY <2>1, <2>3 DEF CallInv, Asking
  <2> QED BY <1>4, <2>2, <2>3 DEF ReadPlatform
<1>5. ASSUME NEW d \in Devices, NoAnswer(d) PROVE CallInv'
  <2>1. pc' = "device" /\ pass' = Unanswered(d)
    BY <1>5 DEF NoAnswer
  <2>2. \/ kb' = kb
        \/ kb' = [kb EXCEPT ![d] = [mode |-> "ours", by |-> "software"]]
    BY <1>5 DEF NoAnswer
  <2>3. kb' \in [Devices -> Records]
    BY <2>2 DEF CallInv, Records
  <2> QED BY <2>1, <2>3 DEF Unanswered, CallInv, Asking
<1>6. ASSUME NEW d \in Devices, WritePlatform(d) PROVE CallInv'
  BY <1>6 DEF WritePlatform, CallInv, Asking, Records
<1>7. ASSUME NEW d \in Devices, VerifyPlatform(d) PROVE CallInv'
  BY <1>7 DEF VerifyPlatform, CallInv, Asking
<1> QED BY <1>1, <1>2, <1>3, <1>4, <1>5, <1>6, <1>7, StepKinds DEF Request

\* A step as Correction sees it from keyboard d.
Mapped(d) ==
  \/ PhaseOf(d)' = PhaseOf(d)
  \/ /\ kb' = kb
     /\ \/ PhaseOf(d) = "idle" /\ PhaseOf(d)' = "looking"
        \/ PhaseOf(d)' = "idle"
        \/ PhaseOf(d) = "looking" /\ PhaseOf(d)' = "differs" /\ kb[d].mode # "ours"
  \/ /\ PhaseOf(d) = "differs" /\ PhaseOf(d)' \in {"written", "idle"}
     /\ kb'[d].mode \in {kb[d].mode, "ours"}

\* Such a step is one Correction allows.
LEMMA MappedAllowed ==
  ASSUME CallInv', NEW d \in Devices, Mapped(d)
  PROVE  [C(d)!Next]_(C(d)!cvars)
<1>1. kb'[d].mode \in {"ours", "theirs"}
  BY DEF CallInv, Records
<1> QED
  BY <1>1 DEF Mapped, PhaseOf, C!Next, C!cvars, C!Begin, C!Look, C!Write, C!WriteLost,
              C!Check, C!Fail, C!World

\* Every step is one of those for every keyboard.
LEMMA StepMapped ==
  ASSUME CallInv, [Next]_vars, NEW k \in Devices
  PROVE  Mapped(k)
<1>0. k # NoDevice
  BY WorkerAssumption
<1>1. CASE Elsewhere
  BY <1>0, <1>1 DEF Elsewhere, CallInv, Asking, Mapped, PhaseOf
<1>2. CASE Ends
  BY <1>0, <1>2 DEF Ends, NoPass, Mapped, PhaseOf
<1>3. CASE GateOpens
  <2>1. PhaseOf(k) = "idle" /\ kb' = kb
    BY <1>0, <1>3 DEF GateOpens, CallInv, Asking, PhaseOf, worldVars
  <2>2. PhaseOf(k)' \in {"idle", "looking"}
    BY <1>0, <1>3 DEF GateOpens, NoPass, PhaseOf
  <2> QED BY <2>1, <2>2 DEF Mapped
<1>4. ASSUME NEW d \in Devices, ReadPlatform(d) PROVE Mapped(k)
  BY <1>0, <1>4 DEF ReadPlatform, CallInv, worldVars, Mapped, PhaseOf
<1>5. ASSUME NEW d \in Devices, NoAnswer(d) PROVE Mapped(k)
  BY <1>0, <1>5 DEF NoAnswer, Unanswered, CallInv, Records, Mapped, PhaseOf
<1>6. ASSUME NEW d \in Devices, WritePlatform(d) PROVE Mapped(k)
  BY <1>0, <1>6 DEF WritePlatform, CallInv, Records, Mapped, PhaseOf
<1>7. ASSUME NEW d \in Devices, VerifyPlatform(d) PROVE Mapped(k)
  BY <1>0, <1>7 DEF VerifyPlatform, CallInv, Mapped, PhaseOf
<1> QED BY <1>1, <1>2, <1>3, <1>4, <1>5, <1>6, <1>7, StepKinds DEF Request

\* However many keyboards there are and whatever becomes of the session in the middle of
\* it, a pass writes a keyboard at most once, and only after it read a wrong platform.
THEOREM Implements == Spec => Corrects
<1>1. Init => CallInv
  BY DEF Init, CallInv, NoPass, Asking
<1>2. Init => \A d \in Devices : C(d)!Init
  BY WorkerAssumption DEF Init, C!Init, NoPass, Records
<1>3. Spec => []CallInv
  BY <1>1, CallStep, PTL DEF Spec
<1>4. CallInv /\ [Next]_vars => [\A d \in Devices : [C(d)!Next]_(C(d)!cvars)]_vars
  BY CallStep, StepMapped, MappedAllowed
<1> QED BY <1>2, <1>3, <1>4, PTL DEF Spec, Corrects

-----------------------------------------------------------------------------
(* Another machine is believed present only if there was one *)

SoftwareTheirs == [mode |-> "theirs", by |-> "software"]

\* While nobody else has set a platform, none is believed to have: no object counts a
\* foreign write, and no keyboard that this agent wrote, in this session or before it,
\* is in a state another program left.
ForeignInv ==
  /\ pc = "verify" => known[pass.on].wrote
  /\ ~ghost.foreign =>
       /\ ~peer
       /\ \A d \in Devices :
            /\ known[d].foreign = 0
            /\ known[d].wrote \/ d \in lastWritten => kb[d] # SoftwareTheirs

\* A step that adds no write, no count and no belief keeps it.
LEMMA NothingNoted ==
  ASSUME TypeOK, ForeignInv,
         known' = known, lastWritten' = lastWritten, kb' = kb,
         ghost'.foreign = ghost.foreign, peer' => peer,
         pc' # "verify" \/ (pc' = pc /\ pass' = pass)
  PROVE  ForeignInv'
BY DEF ForeignInv, TypeOK

\* Nothing foreign counted adds up to nothing.
LEMMA NoneForeign ==
  ASSUME TypeOK, ForeignInv, ~ghost.foreign
  PROVE  ForeignTotal(known, session.devices) = 0
<1>1. session.devices \subseteq Devices /\ IsFiniteSet(session.devices)
  BY WorkerAssumption, FS_Subset DEF TypeOK
<1>2. \A d \in session.devices : [e \in Devices |-> known[e].foreign][d] = 0
  BY <1>1 DEF ForeignInv
<1> QED
  BY <1>1, <1>2, SumZero DEF ForeignTotal

\* The loop only schedules.
LEMMA LoopNotes ==
  ASSUME TypeOK, Schedule
  PROVE  /\ known' = known /\ lastWritten' = lastWritten /\ kb' = kb /\ peer' = peer
         /\ ghost'.foreign = ghost.foreign /\ pc' # "verify"
<1>1. /\ known' = known /\ lastWritten' = lastWritten /\ kb' = kb /\ peer' = peer
      /\ pc' # "verify"
  BY DEF Schedule, Enter, Leave, TakeChanged, TakeWoke, YieldTurn, HoldOff, StartPass, Peek,
         Beat, objects, worldVars, rivalry
<1>2. \/ ghost' = ghost
      \/ ghost' = [ghost EXCEPT !.blind = 0]
      \/ ghost' = [ghost EXCEPT !.unseen = FALSE]
  BY DEF Schedule, Enter, Leave, TakeChanged, TakeWoke, YieldTurn, HoldOff, StartPass, Peek,
         Beat
<1>3. ghost'.foreign = ghost.foreign
  BY <1>2 DEF TypeOK
<1> QED BY <1>1, <1>3

\* The end of a pass schedules too.
LEMMA ConcludeNotes ==
  ASSUME TypeOK, NEW ok, NEW reach, NEW t, NEW peerNow, Conclude(ok, reach, t, peerNow)
  PROVE  ghost'.foreign = ghost.foreign /\ pc' = "top"
BY DEF Conclude, TypeOK

\* What the agent notes of a platform that nobody else set counts nothing.
LEMMA NotedClean ==
  ASSUME TypeOK, ForeignInv, NEW d \in Devices
  PROVE  /\ Noted(known[d], kb[d]).wrote = known[d].wrote
         /\ ~ghost.foreign => Noted(known[d], kb[d]).foreign = 0
<1>1. known[d] \in [seen : Records \cup {NoRecord}, wrote : BOOLEAN, foreign : Nat]
  BY DEF TypeOK
<1>2. Noted(known[d], kb[d]).wrote = known[d].wrote
  BY <1>1 DEF Noted
<1>3. ASSUME ~ghost.foreign PROVE Noted(known[d], kb[d]).foreign = 0
  <2>1. known[d].foreign = 0 /\ ~(known[d].wrote /\ kb[d] = SoftwareTheirs)
    BY <1>3 DEF ForeignInv
  <2> QED BY <1>1, <2>1 DEF Noted, SoftwareTheirs
<1> QED BY <1>2, <1>3

\* The invariant is inductive.
LEMMA ForeignStep == TypeOK /\ CallInv /\ ForeignInv /\ [Next]_vars => ForeignInv'
<1> SUFFICES ASSUME TypeOK, CallInv, ForeignInv, [Next]_vars PROVE ForeignInv'
  OBVIOUS
<1>g. ghost \in [blind : 0..(QuietRetryAttempts + 2), silent : SUBSET Devices,
                 unseen : BOOLEAN, foreign : BOOLEAN]
  BY DEF TypeOK
<1>1. CASE Schedule
  BY <1>1, LoopNotes, NothingNoted
<1>2. CASE FindReceiver \/ GateOpens
  BY <1>2, NothingNoted DEF FindReceiver, GateOpens, objects, worldVars, rivalry
<1>3. CASE NoReceiver \/ BuildFails \/ GateYields \/ TransportLost \/ BlowsUp
  <2>1. /\ known' = known /\ lastWritten' = lastWritten /\ kb' = kb /\ peer' = peer
        /\ \E ok, reach, t, peerNow : Conclude(ok, reach, t, peerNow)
    BY <1>3 DEF NoReceiver, BuildFails, GateYields, TransportLost, BlowsUp, objects,
       worldVars, rivalry
  <2> QED BY <2>1, ConcludeNotes, NothingNoted
<1>4. CASE BuildSession
  <2>1. /\ lastWritten' = lastWritten /\ kb' = kb /\ peer' = peer /\ pc' = "gate"
        /\ ghost' = [ghost EXCEPT !.silent = @ \ Discovered]
        /\ \A d \in Devices : known'[d] = IF d \in Discovered
              THEN [seen |-> NoRecord, wrote |-> d \in lastWritten, foreign |-> 0]
              ELSE known[d]
    BY <1>4 DEF BuildSession, worldVars, rivalry
  <2>2. ghost'.foreign = ghost.foreign
    BY <1>g, <2>1
  <2>3. \A d \in Devices : /\ known'[d].wrote => known[d].wrote \/ d \in lastWritten
                           /\ known'[d].foreign = 0 \/ known'[d] = known[d]
    <3> SUFFICES ASSUME NEW d \in Devices
                 PROVE  /\ known'[d].wrote => known[d].wrote \/ d \in lastWritten
                        /\ known'[d].foreign = 0 \/ known'[d] = known[d]
      OBVIOUS
    <3>1. CASE d \in Discovered
      <4>1. known'[d] = [seen |-> NoRecord, wrote |-> d \in lastWritten, foreign |-> 0]
        BY <2>1, <3>1
      <4>2. known'[d].wrote => d \in lastWritten
        <5>1. ASSUME NEW b \in BOOLEAN, known'[d] = [seen |-> NoRecord, wrote |-> b, foreign |-> 0]
              PROVE  known'[d].wrote = b /\ known'[d].foreign = 0
          BY <5>1
        <5>2. (d \in lastWritten) \in BOOLEAN
          OBVIOUS
        <5> QED BY <4>1, <5>1, <5>2, Zenon
      <4>3. known'[d].foreign = 0
        BY <4>1
      <4> QED BY <4>2, <4>3
    <3>2. CASE d \notin Discovered
      BY <2>1, <3>2, Zenon
    <3> QED BY <3>1, <3>2
  <2> HIDE DEF SoftwareTheirs
  <2> QED BY <2>1, <2>2, <2>3 DEF ForeignInv
<1>5. CASE FinishPass
  <2> DEFINE sees == ForeignTotal(known, session.devices) > foreignSeen
  <2>1. /\ known' = known /\ lastWritten' = lastWritten /\ kb' = kb
        /\ \E ok, reach, t, peerNow : Conclude(ok, reach, t, peerNow)
        /\ peer' = (peer \/ sees)
    BY <1>5 DEF FinishPass, objects, worldVars
  <2>2. ghost'.foreign = ghost.foreign /\ pc' = "top"
    BY <2>1, ConcludeNotes
  <2>3. ~ghost.foreign => ~sees
    <3>1. foreignSeen \in Nat
      BY DEF TypeOK
    <3> QED BY <3>1, NoneForeign
  <2> HIDE DEF sees
  <2> QED BY <2>1, <2>2, <2>3 DEF ForeignInv
<1>6. ASSUME NEW d \in Devices, ReadPlatform(d) PROVE ForeignInv'
  <2>1. /\ known' = [known EXCEPT ![d] = Noted(known[d], kb[d])]
        /\ lastWritten' = lastWritten /\ kb' = kb /\ peer' = peer /\ pc' # "verify"
        /\ ghost' = [ghost EXCEPT !.silent = @ \ {d}]
    BY <1>6 DEF ReadPlatform, worldVars, rivalry
  <2>2. ghost'.foreign = ghost.foreign
    BY <1>g, <2>1
  <2>3. \A e \in Devices : known'[e] = IF e = d THEN Noted(known[d], kb[d]) ELSE known[e]
    BY <2>1 DEF TypeOK
  <2> QED BY <2>1, <2>2, <2>3, NotedClean DEF ForeignInv
<1>7. ASSUME NEW d \in Devices, NoAnswer(d) PROVE ForeignInv'
  <2>1. /\ known' = known /\ lastWritten' = lastWritten /\ peer' = peer /\ pc' = "device"
        /\ ghost' = [ghost EXCEPT !.silent = @ \cup {d}]
        /\ \/ kb' = kb
           \/ kb' = [kb EXCEPT ![d] = [mode |-> "ours", by |-> "software"]]
    BY <1>7 DEF NoAnswer, objects, rivalry
  <2>2. ghost'.foreign = ghost.foreign
    BY <1>g, <2>1
  <2>3. \A e \in Devices : kb'[e] = SoftwareTheirs => kb[e] = SoftwareTheirs
    <3>1. [mode |-> "ours", by |-> "software"] # SoftwareTheirs
      BY DEF SoftwareTheirs
    <3> QED BY <2>1, <3>1 DEF TypeOK
  <2> QED BY <2>1, <2>2, <2>3 DEF ForeignInv
<1>8. ASSUME NEW d \in Devices, WritePlatform(d) PROVE ForeignInv'
  <2>1. /\ known' = [known EXCEPT ![d].wrote = TRUE] /\ lastWritten' = lastWritten
        /\ peer' = peer /\ pc' = "verify" /\ pass' = pass /\ pass.on = d
        /\ \/ /\ kb' = [kb EXCEPT ![d] = [mode |-> "ours", by |-> "software"]]
              /\ ghost' = ghost
           \/ kb' = kb /\ ghost' = [ghost EXCEPT !.foreign = TRUE]
    BY <1>8 DEF WritePlatform, rivalry
  <2>2. /\ \A e \in Devices : known'[e].foreign = known[e].foreign
        /\ \A e \in Devices \ {d} : known'[e] = known[e]
        /\ known'[d].wrote
    BY <2>1 DEF TypeOK
  <2>3. CASE /\ kb' = [kb EXCEPT ![d] = [mode |-> "ours", by |-> "software"]]
             /\ ghost' = ghost
    <3>1. /\ kb'[d] # SoftwareTheirs
          /\ \A e \in Devices \ {d} : kb'[e] = kb[e]
      BY <2>3 DEF TypeOK, SoftwareTheirs
    <3> QED BY <2>1, <2>2, <2>3, <3>1 DEF ForeignInv
  <2>4. CASE kb' = kb /\ ghost' = [ghost EXCEPT !.foreign = TRUE]
    <3>1. ghost'.foreign
      BY <1>g, <2>4
    <3> QED BY <2>1, <2>2, <3>1 DEF ForeignInv
  <2> QED BY <2>1, <2>3, <2>4
<1>9. ASSUME NEW d \in Devices, VerifyPlatform(d) PROVE ForeignInv'
  <2>1. /\ \/ known' = [known EXCEPT ![d] = Noted(known[d], kb[d])]
           \/ known' = known
        /\ lastWritten' = lastWritten \cup {d} /\ kb' = kb /\ peer' = peer
        /\ ghost' = ghost /\ pc' = "device" /\ known[d].wrote
    BY <1>9 DEF VerifyPlatform, rivalry, ForeignInv
  <2>2. \A e \in Devices : \/ known'[e] = known[e]
                           \/ e = d /\ known'[e] = Noted(known[d], kb[d])
    BY <2>1 DEF TypeOK
  <2> QED BY <2>1, <2>2, NotedClean DEF ForeignInv
<1>10. CASE Stop \/ Replug \/ Link \/ PeerForgotten
  <2>1. /\ known' = known /\ lastWritten' = lastWritten /\ kb' = kb /\ (peer' => peer)
        /\ pc' = pc /\ pass' = pass
        /\ ghost' = ghost \/ ghost' = [ghost EXCEPT !.unseen = TRUE]
    BY <1>10 DEF Stop, Replug, Link, PeerForgotten, objects, worldVars, rivalry
  <2>2. ghost'.foreign = ghost.foreign
    BY <1>g, <2>1
  <2> QED BY <2>1, <2>2, NothingNoted
<1>11. ASSUME NEW d \in Devices, Chatter(d) PROVE ForeignInv'
  <2>1. /\ known' = known /\ lastWritten' = lastWritten /\ kb' = kb /\ peer' = peer
        /\ pc' = pc /\ pass' = pass /\ ghost' = [ghost EXCEPT !.unseen = TRUE]
    BY <1>11 DEF Chatter, objects, rivalry
  <2>2. ghost'.foreign = ghost.foreign
    BY <1>g, <2>1
  <2> QED BY <2>1, <2>2, NothingNoted
<1>12. ASSUME NEW d \in Devices, Hop(d) \/ ForeignWrite(d) PROVE ForeignInv'
  <2>1. /\ known' = known /\ pc' = pc /\ pass' = pass
        /\ \/ /\ lastWritten' = lastWritten /\ kb' = kb /\ peer' = peer /\ ghost' = ghost
           \/ ghost' = [ghost EXCEPT !.foreign = TRUE]
    BY <1>12 DEF Hop, ForeignWrite, HearsForeign, objects, rivalry
  <2>2. CASE /\ lastWritten' = lastWritten /\ kb' = kb /\ peer' = peer /\ ghost' = ghost
    BY <2>1, <2>2, NothingNoted
  <2>3. CASE ghost' = [ghost EXCEPT !.foreign = TRUE]
    <3>1. ghost'.foreign
      BY <1>g, <2>3
    <3> QED BY <2>1, <3>1 DEF ForeignInv
  <2> QED BY <2>1, <2>2, <2>3
<1>13. ASSUME NEW d \in Devices, Revert(d) PROVE ForeignInv'
  <2>1. /\ known' = known /\ lastWritten' = lastWritten /\ peer' = peer /\ ghost' = ghost
        /\ pc' = pc /\ pass' = pass
        /\ kb' = [kb EXCEPT ![d] = [mode |-> "theirs", by |-> "keyboard"]]
    BY <1>13 DEF Revert, objects, rivalry
  <2>2. \A e \in Devices : kb'[e] = SoftwareTheirs => kb[e] = SoftwareTheirs
    BY <2>1 DEF TypeOK, SoftwareTheirs
  <2> QED BY <2>1, <2>2 DEF ForeignInv
<1>14. ASSUME NEW f \in {"idle", "held", "rival"}, Toggle(f) PROVE ForeignInv'
  BY <1>14, NothingNoted DEF Toggle, objects, rivalry
<1>15. CASE Tick
  BY <1>15, NothingNoted DEF Tick, objects, rivalry, worldVars
<1>16. CASE UNCHANGED vars \/ Finished
  BY <1>16, NothingNoted DEF vars, Finished
<1> QED
  BY <1>1, <1>2, <1>3, <1>4, <1>5, <1>6, <1>7, <1>8, <1>9, <1>10, <1>11, <1>12, <1>13,
     <1>14, <1>15, <1>16 DEF Next, Worker, Apply, World

\* CallInv in every reachable state.
LEMMA CallInvHolds == Spec => []CallInv
<1>1. Init => CallInv
  BY DEF Init, CallInv, NoPass, Asking
<1> QED BY <1>1, CallStep, PTL DEF Spec

\* The agent never takes its own writes for another machine's, over any number of
\* reconnects, rebuilt sessions and keyboards: it stands down for a peer only after
\* something other than itself set a platform or a keyboard disobeyed it.
THEOREM PeerIsReal == Spec => []PeerReal
<1>1. Init => ForeignInv
  BY DEF Init, ForeignInv
<1>2. Spec => []ForeignInv
  BY <1>1, ForeignStep, TypeCorrect, CallInvHolds, PTL DEF Spec
<1>3. ForeignInv => PeerReal
  BY DEF ForeignInv, PeerReal
<1> QED BY <1>2, <1>3, PTL

-----------------------------------------------------------------------------
(* A keyboard that comes back is heard *)

InUse == {"gate", "device", "write", "verify"}

\* What a pass found out about who answers, kept from the first read of the pass to the
\* next pass: _reached says that some keyboard of the session answered what it was last
\* asked, and _absent_since says the opposite.
SilentInv ==
  /\ pc \in InUse => session.open
  /\ session.open => session.devices # {}
  /\ pc \in AtLoop /\ session.open => absent = ~reached
  /\ pc \in AtLoop \cup {"gate"} /\ session.open /\ reached
       => ~ (session.devices \subseteq ghost.silent)
  /\ pc \in Asking => pass.todo \subseteq session.devices
  /\ pc \in {"write", "verify"} => pass.on \in session.devices \ ghost.silent
  /\ pc \in Asking /\ pass.applied
       => ~ (session.devices \ (pass.todo \cup {pass.on}) \subseteq ghost.silent)

\* A step that changes neither the session's keyboards nor what is known of them.
LEMMA NothingAsked ==
  ASSUME SilentInv,
         session'.open = session.open, session'.devices = session.devices,
         absent' = absent, reached' = reached, ghost'.silent = ghost.silent, pass' = pass,
         \/ pc' = pc
         \/ pc \in AtLoop /\ pc' \in AtLoop
         \/ pc \in AtLoop /\ pc' = "gate" /\ session.open
         \/ pc' \in {"find", "build"}
  PROVE  SilentInv'
BY DEF SilentInv, InUse, AtLoop, Asking

\* A step that closes the session.
LEMMA SessionGone ==
  ASSUME session' = Closed, pc' \in AtLoop \cup {"exited"}
  PROVE  SilentInv'
BY DEF Closed, SilentInv, InUse, AtLoop, Asking

\* The end of a pass, where the session stays as it is.
LEMMA ConcludeAsked ==
  ASSUME TypeOK, SilentInv, NEW ok, NEW reach \in BOOLEAN, NEW t, NEW peerNow,
         Conclude(ok, reach, t, peerNow), session' = session,
         session.open /\ reach => ~ (session.devices \subseteq ghost.silent)
  PROVE  SilentInv'
<1>1. pc' = "top" /\ reached' = reach /\ absent' = ~reach
  BY DEF Conclude
<1>2. ghost'.silent = ghost.silent
  BY DEF Conclude, TypeOK
<1> QED BY <1>1, <1>2 DEF SilentInv, InUse, AtLoop, Asking

\* The invariant is inductive.
LEMMA SilentStep == TypeOK /\ CallInv /\ SilentInv /\ [Next]_vars => SilentInv'
<1> SUFFICES ASSUME TypeOK, CallInv, SilentInv, [Next]_vars PROVE SilentInv'
  OBVIOUS
<1>g. /\ ghost \in [blind : 0..(QuietRetryAttempts + 2), silent : SUBSET Devices,
                    unseen : BOOLEAN, foreign : BOOLEAN]
      /\ session \in [open : BOOLEAN, live : BOOLEAN, devices : SUBSET Devices]
      /\ pass \in [todo : SUBSET Devices, on : Devices \cup {NoDevice}, applied : BOOLEAN,
                   changed : BOOLEAN, failed : BOOLEAN]
      /\ NoDevice \notin Devices
  BY WorkerAssumption DEF TypeOK
<1>1. CASE Leave \/ TakeChanged
  BY <1>1, SessionGone DEF Leave, TakeChanged, AtLoop
<1>2. CASE Enter \/ TakeWoke \/ YieldTurn \/ HoldOff \/ StartPass \/ Peek \/ Beat
  <2>1. /\ session' = session /\ absent' = absent /\ reached' = reached /\ pass' = pass
        /\ \/ pc \in AtLoop /\ pc' \in AtLoop
           \/ pc \in AtLoop /\ pc' = "gate" /\ session.open
           \/ pc' = "find"
    BY <1>2 DEF Enter, TakeWoke, YieldTurn, HoldOff, StartPass, Peek, Beat, AssertDue,
       PeekDue, BeatDue, Quiet, AtLoop, links, presence
  <2>2. \/ ghost' = ghost
        \/ ghost' = [ghost EXCEPT !.blind = 0]
        \/ ghost' = [ghost EXCEPT !.unseen = FALSE]
    BY <1>2 DEF Enter, TakeWoke, YieldTurn, HoldOff, StartPass, Peek, Beat
  <2>3. ghost'.silent = ghost.silent
    BY <1>g, <2>2
  <2> QED BY <2>1, <2>3, NothingAsked
<1>3. CASE FindReceiver
  <2>1. pc' = "build" /\ session' = [Closed EXCEPT !.live = TRUE]
    BY <1>3 DEF FindReceiver
  <2> QED BY <2>1 DEF Closed, SilentInv, InUse, AtLoop, Asking
<1>4. CASE NoReceiver \/ BlowsUp
  <2>1. session' = session /\ Conclude(FALSE, FALSE, tally, peer)
    BY <1>4 DEF NoReceiver, BlowsUp, links
  <2> QED BY <2>1, ConcludeAsked
<1>5. CASE BuildFails \/ TransportLost
  BY <1>5, SessionGone DEF BuildFails, TransportLost, Conclude, AtLoop
<1>6. CASE BuildSession
  <2>1. /\ pc' = "gate" /\ Discovered # {}
        /\ session' = [open |-> TRUE, live |-> TRUE, devices |-> Discovered]
        /\ ghost' = [ghost EXCEPT !.silent = @ \ Discovered]
    BY <1>6 DEF BuildSession
  <2>2. ghost'.silent = ghost.silent \ Discovered
    BY <1>g, <2>1
  <2> QED BY <2>1, <2>2 DEF SilentInv, InUse, AtLoop, Asking
<1>7. CASE GateYields
  <2>1. /\ pc = "gate" /\ Conclude(TRUE, reached, tally, peer) /\ session' = session
        /\ reached \in BOOLEAN
    BY <1>7 DEF GateYields, links, TypeOK
  <2>2. session.open /\ reached => ~ (session.devices \subseteq ghost.silent)
    BY <2>1 DEF SilentInv
  <2> QED BY <2>1, <2>2, ConcludeAsked
<1>8. CASE GateOpens
  <2>1. /\ pc = "gate" /\ pc' = "device" /\ session' = session /\ ghost' = ghost
        /\ absent' = absent /\ reached' = reached
        /\ pass' = [NoPass EXCEPT !.todo = session.devices]
    BY <1>8 DEF GateOpens, links, presence
  <2> QED BY <2>1 DEF NoPass, SilentInv, InUse, AtLoop, Asking
<1>9. CASE FinishPass
  <2>1. PICK t, now : Conclude(pass.applied /\ ~pass.failed, pass.applied, t, now)
    BY <1>9 DEF FinishPass
  <2>2. pc = "device" /\ pass.todo = {} /\ session' = session /\ pass.applied \in BOOLEAN
    BY <1>9, <1>g DEF FinishPass, links
  <2>3. session.open /\ pass.applied => ~ (session.devices \subseteq ghost.silent)
    BY <2>2 DEF SilentInv, Asking
  <2> QED BY <2>1, <2>2, <2>3, ConcludeAsked
<1>10. ASSUME NEW d \in Devices, ReadPlatform(d) PROVE SilentInv'
  <2>1. /\ pc = "device" /\ d \in pass.todo /\ session' = session
        /\ ghost' = [ghost EXCEPT !.silent = @ \ {d}]
        /\ \/ pc' = pc /\ pass' = [pass EXCEPT !.todo = @ \ {d}, !.applied = TRUE]
           \/ pc' = "write" /\ pass' = [pass EXCEPT !.todo = @ \ {d}, !.on = d]
    BY <1>10 DEF ReadPlatform, links
  <2>2. /\ ghost'.silent = ghost.silent \ {d} /\ d \in session.devices
        /\ pass.on = NoDevice
    BY <1>g, <2>1 DEF SilentInv, Asking, CallInv
  <2>3. CASE pc' = pc /\ pass' = [pass EXCEPT !.todo = @ \ {d}, !.applied = TRUE]
    <3>1. pass'.todo = pass.todo \ {d} /\ pass'.on = pass.on
      BY <1>g, <2>3
    <3> QED BY <1>g, <2>1, <2>2, <2>3, <3>1 DEF SilentInv, InUse, AtLoop, Asking
  <2>4. CASE pc' = "write" /\ pass' = [pass EXCEPT !.todo = @ \ {d}, !.on = d]
    <3>1. /\ pass'.todo = pass.todo \ {d} /\ pass'.on = d
          /\ pass'.applied = pass.applied
      BY <1>g, <2>4
    <3> QED BY <1>g, <2>1, <2>2, <2>4, <3>1 DEF SilentInv, InUse, AtLoop, Asking
  <2> QED BY <2>1, <2>3, <2>4
<1>11. ASSUME NEW d \in Devices, NoAnswer(d) PROVE SilentInv'
  <2>0. /\ \/ pc = "device" /\ d \in pass.todo
           \/ pc = "write" /\ d = pass.on
        /\ pc' = "device" /\ session' = session
        /\ ghost' = [ghost EXCEPT !.silent = @ \cup {d}]
        /\ pass' = Unanswered(d)
    BY <1>11 DEF NoAnswer, links
  <2>1. pass' = [pass EXCEPT !.todo = @ \ {d}, !.on = NoDevice, !.failed = TRUE]
    BY <2>0 DEF Unanswered
  <2>2. /\ ghost'.silent = ghost.silent \cup {d}
        /\ pass'.todo = pass.todo \ {d} /\ pass'.on = NoDevice
        /\ pass'.applied = pass.applied
    BY <1>g, <2>0, <2>1
  <2>3. pc = "device" => pass.on = NoDevice
    BY DEF CallInv
  <2> QED BY <1>g, <2>0, <2>2, <2>3 DEF SilentInv, InUse, AtLoop, Asking
<1>12. ASSUME NEW d \in Devices, WritePlatform(d) PROVE SilentInv'
  <2>1. /\ pc = "write" /\ pc' = "verify" /\ session' = session /\ pass' = pass
        /\ ghost' = ghost \/ ghost' = [ghost EXCEPT !.foreign = TRUE]
    BY <1>12 DEF WritePlatform, links
  <2>2. ghost'.silent = ghost.silent
    BY <1>g, <2>1
  <2> QED BY <2>1, <2>2 DEF SilentInv, InUse, AtLoop, Asking
<1>13. ASSUME NEW d \in Devices, VerifyPlatform(d) PROVE SilentInv'
  <2>1. /\ pc = "verify" /\ d = pass.on /\ pc' = "device" /\ session' = session
        /\ ghost' = ghost
        /\ \E f : pass' = [pass EXCEPT !.on = NoDevice, !.applied = TRUE, !.changed = TRUE,
                                !.failed = f]
    <3>1. pass = [pass EXCEPT !.failed = pass.failed]
      BY <1>g
    <3>2. [pass EXCEPT !.on = NoDevice, !.applied = TRUE, !.changed = TRUE]
            = [pass EXCEPT !.on = NoDevice, !.applied = TRUE, !.changed = TRUE,
                           !.failed = pass.failed]
      BY <1>g
    <3> QED BY <1>13, <3>2 DEF VerifyPlatform, links
  <2>2. pass'.todo = pass.todo /\ pass'.on = NoDevice
    BY <1>g, <2>1
  <2>3. d \in session.devices \ ghost.silent /\ d \notin pass.todo
    BY <2>1 DEF SilentInv, CallInv
  <2> QED BY <1>g, <2>1, <2>2, <2>3 DEF SilentInv, InUse, AtLoop, Asking
<1>14. CASE World
  <2>1. /\ session'.open = session.open /\ session'.devices = session.devices
        /\ absent' = absent /\ reached' = reached /\ pass' = pass /\ pc' = pc
        /\ \/ ghost' = ghost
           \/ ghost' = [ghost EXCEPT !.unseen = TRUE]
           \/ ghost' = [ghost EXCEPT !.foreign = TRUE]
    <3>1. CASE Stop \/ Replug \/ Link \/ PeerForgotten
      BY <1>g, <3>1 DEF Stop, Replug, Link, PeerForgotten, links, presence
    <3>2. ASSUME NEW d \in Devices, Hop(d) \/ Chatter(d) \/ ForeignWrite(d) \/ Revert(d)
          PROVE  <2>1
      BY <3>2 DEF Hop, Chatter, ForeignWrite, HearsForeign, Revert, links, presence
    <3>3. ASSUME NEW f \in {"idle", "held", "rival"}, Toggle(f)
          PROVE  <2>1
      BY <3>3 DEF Toggle, links, presence
    <3> QED BY <1>14, <3>1, <3>2, <3>3 DEF World
  <2>2. ghost'.silent = ghost.silent
    BY <1>g, <2>1
  <2> QED BY <2>1, <2>2, NothingAsked
<1>15. CASE Tick
  BY <1>15, NothingAsked DEF Tick, links, presence
<1>16. CASE UNCHANGED vars \/ Finished
  BY <1>16, NothingAsked DEF vars, Finished
<1> QED
  BY <1>1, <1>2, <1>3, <1>4, <1>5, <1>6, <1>7, <1>8, <1>9, <1>10, <1>11, <1>12, <1>13,
     <1>14, <1>15, <1>16 DEF Next, Worker, Schedule, Apply

\* However many keyboards the session drives: when none of them answered what it was last
\* asked, the gate on chatter is open, and the return of any of them is acted upon.
THEOREM GateStaysOpen == Spec => []AsleepKeepsGateOpen
<1>1. Init => SilentInv
  BY DEF Init, SilentInv, Closed, InUse, AtLoop, Asking
<1>2. Spec => []SilentInv
  BY <1>1, SilentStep, TypeCorrect, CallInvHolds, PTL DEF Spec
<1>3. TypeOK /\ SilentInv => AsleepKeepsGateOpen
  BY DEF TypeOK, SilentInv, AsleepKeepsGateOpen, MightHaveBeenAway, AtLoop
<1> QED BY <1>2, <1>3, TypeCorrect, PTL
=============================================================================
