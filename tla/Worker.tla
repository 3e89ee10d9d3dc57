------------------------------- MODULE Worker -------------------------------
(***************************************************************************)
(* The agent of logiswitch/agent: one worker thread that decides when to   *)
(* look at the keyboards behind a receiver and corrects their platform,    *)
(* the watcher and reader threads that feed its queue, and the world they  *)
(* work in: keyboards that leave and return, a receiver that is unplugged, *)
(* another machine that writes the platform too, a user who types or not.  *)
(* Deadlines are countdowns, worked down together by Tick.                 *)
(***************************************************************************)
EXTENDS Integers, FiniteSets, Functions, Sequences

CONSTANTS
  Devices,              \* the keyboards paired with the receiver
  QueueBound,           \* queue.Queue(maxsize=256)
  Mode,                 \* AgentConfig.event_only: "auto", "on" or "off"
  Observe,              \* AgentConfig.observe
  CanMeasureIdle,       \* activity.available()
  Debounce, WakeDelay, Defer, MaxDefer, FastRecheck, IdlePeek, YieldRecheck,
  Reassert, QuietReassert,            \* the heartbeats; 0 disables one
  RetryInitial, RetryMax,
  QuietRetryAttempts, QuietCorrectionBudget, SettledChecks,
  Disturbances,         \* which moves of the world an instance allows
  MaxMoves              \* bound on those moves

Off == -1
NoDevice == "none"
Records == [mode : {"ours", "theirs"}, by : {"software", "keyboard"}]
NoRecord == [mode |-> "unread", by |-> "nobody"]

ASSUME WorkerAssumption ==
  /\ IsFiniteSet(Devices) /\ NoDevice \notin Devices
  /\ Mode \in {"auto", "on", "off"}
  /\ Observe \in BOOLEAN /\ CanMeasureIdle \in BOOLEAN
  /\ {Reassert, QuietReassert, MaxDefer, QuietRetryAttempts,
      QuietCorrectionBudget, SettledChecks, MaxMoves} \subseteq Nat
  /\ {QueueBound, Debounce, WakeDelay, Defer, FastRecheck, IdlePeek, YieldRecheck,
      RetryInitial, RetryMax} \subseteq Nat \ {0}

VARIABLES
  pc,          \* the worker: top, wait, find, build, gate, device, write, verify, exited
  stopping,    \* Agent._stop
  queue,       \* Agent._queue
  due,         \* next_assert, next_heartbeat, next_idle_peek of _run: ticks left
  tally,       \* _retry, _retry_attempts, _arrival_corrections, _clean_checks
  deferred,    \* how long _deferred_since has been set, or Off
  absent,      \* _absent_since is not None
  reached,     \* _reached
  wasIdle,     \* _was_idle
  peer,        \* _peer_last_seen is within PEER_MEMORY
  foreignSeen, \* _foreign_seen
  session,     \* _sessions: is one open, is its transport alive, what it drives
  driven,      \* _driven
  hints,       \* _hints, also on disk
  known,       \* the device objects: last summary, own last write, foreign_writes
  lastWritten, \* the keys of _last_written
  pass,        \* the locals of _apply_once
  kb,          \* the platform each keyboard is in and who set it
  world,       \* receiver attached, keyboards here, input idle, key held, rival
  moves,
  ghost        \* what the properties remember and the code does not

inbox == <<stopping, queue>>
schedule == <<due, tally, deferred>>
presence == <<absent, reached>>
rivalry == <<wasIdle, peer, foreignSeen>>
links == <<session, driven, hints>>
objects == <<known, lastWritten>>
worldVars == <<kb, world, moves>>
vars == <<pc, stopping, queue, due, tally, deferred, absent, reached, wasIdle, peer,
          foreignSeen, session, driven, hints, known, lastWritten, pass, kb, world,
          moves, ghost>>

-----------------------------------------------------------------------------
(* What the code derives from its state *)

\* _event_only rides on the cached rival scan unless the configuration forces it.
EventOnly == IF Mode = "auto" THEN world.rival ELSE Mode = "on"

HeartbeatInterval == IF EventOnly THEN QuietReassert ELSE Reassert

\* Mutant: a lone machine stands down too when nobody has typed on it for a while.
StandingDownAlone == Observe \/ (CanMeasureIdle /\ world.idle)

StandingDown ==
  \/ Observe
  \/ /\ peer /\ ~world.rival
     /\ CanMeasureIdle /\ world.idle

Unsettled(t, peerNow) ==
  /\ ~(peerNow /\ ~world.rival)
  /\ ~(EventOnly /\ t.corrections > QuietCorrectionBudget)
  /\ t.clean < SettledChecks

MightHaveBeenAway == HeartbeatInterval = 0 \/ driven = {} \/ absent

\* Mutant: the queue is not bounded.
PutUnbounded(e) == queue' = Append(queue, e)

\* _put: a full queue drops the item.
Put(e) == queue' = IF Len(queue) < QueueBound THEN Append(queue, e) ELSE queue

\* Frames reach _on_hidpp_frame while a transport of ours is open and alive,
\* discovery included.
Hearing == (session.open \/ pc = "build") /\ session.live

ForeignTotal(ks, ds) == SumFunctionOnSet([d \in Devices |-> ks[d].foreign], ds)

NoPass == [todo |-> {}, on |-> NoDevice, applied |-> FALSE, changed |-> FALSE,
           failed |-> FALSE]

Closed == [open |-> FALSE, live |-> FALSE, devices |-> {}]

Capped(n, bound) == IF n < bound THEN n ELSE bound

\* The counters that restart when a device arrives or wakes.
Rearmed(t) == [t EXCEPT !.retry = 0, !.attempts = 0, !.corrections = 0]

-----------------------------------------------------------------------------
Init ==
  /\ pc = "top" /\ stopping = FALSE /\ queue = <<>>
  /\ due = [assert |-> 0, beat |-> Off, peek |-> Off]
  /\ tally = [retry |-> 0, attempts |-> 0, corrections |-> 0, clean |-> SettledChecks]
  /\ deferred = Off /\ absent = FALSE /\ reached = FALSE /\ wasIdle = FALSE
  /\ peer = FALSE /\ foreignSeen = 0
  /\ session = Closed /\ driven = {} /\ hints \in {{}, Devices}
  /\ known = [d \in Devices |-> [seen |-> NoRecord, wrote |-> FALSE, foreign |-> 0]]
  /\ lastWritten = {} /\ pass = NoPass
  /\ kb \in [Devices -> Records]
  /\ world \in [attached : {TRUE}, here : {Devices}, idle : {FALSE}, held : {FALSE},
               rival : BOOLEAN]
  /\ moves = 0
  /\ ghost = [blind |-> 0, silent |-> {}, unseen |-> FALSE, foreign |-> FALSE]

-----------------------------------------------------------------------------
(* The loop of _run *)

\* Mutant: the loop does not look at the flag, only at the queue.
EnterUnchecked ==
  /\ pc = "top"
  /\ pc' = "wait"
  /\ UNCHANGED <<inbox, schedule, presence, rivalry, links, objects, worldVars, pass, ghost>>

Enter ==
  /\ pc = "top" /\ ~stopping
  /\ pc' = "wait"
  /\ UNCHANGED <<inbox, schedule, presence, rivalry, links, objects, worldVars, pass, ghost>>

Leave ==
  /\ \/ pc = "top" /\ stopping
     \/ pc = "wait" /\ queue # <<>> /\ Head(queue) = "stop"
  /\ pc' = "exited"
  /\ session' = Closed
  /\ UNCHANGED <<inbox, schedule, presence, rivalry, driven, hints, objects,
                 worldVars, pass, ghost>>

\* DEVICE_CHANGED: every open handle is suspect.
TakeChanged ==
  /\ pc = "wait" /\ queue # <<>> /\ Head(queue) = "changed"
  /\ queue' = Tail(queue) /\ pc' = "top"
  /\ session' = Closed
  /\ due' = [due EXCEPT !.assert = Debounce, !.peek = Off]
  /\ tally' = Rearmed(tally)
  /\ ghost' = [ghost EXCEPT !.blind = 0]
  /\ UNCHANGED <<stopping, deferred, presence, rivalry, driven, hints, objects,
                 worldVars, pass>>

\* Mutant: min(next_assert, ...) where nothing is scheduled.
SoonerIfArmed(deadline) == Capped(deadline, WakeDelay)

Sooner(deadline) == IF deadline = Off THEN WakeDelay ELSE Capped(deadline, WakeDelay)

\* DEVICE_WOKE: a device spoke unprompted.
TakeWoke ==
  /\ pc = "wait" /\ queue # <<>> /\ Head(queue) = "woke"
  /\ queue' = Tail(queue) /\ pc' = "top"
  /\ due' = [due EXCEPT !.assert = Sooner(@)]
  /\ tally' = Rearmed(tally)
  /\ ghost' = [ghost EXCEPT !.blind = 0]
  /\ UNCHANGED <<stopping, deferred, presence, rivalry, links, objects, worldVars,
                 pass>>

\* queue.get timed out: events go before deadlines, and the deadlines are looked at
\* in the order assert, peek, heartbeat.
Quiet == pc = "wait" /\ queue = <<>>
AssertDue == Quiet /\ due.assert = 0
PeekDue == Quiet /\ due.assert # 0 /\ due.peek = 0
BeatDue == Quiet /\ due.assert # 0 /\ due.peek # 0 /\ due.beat = 0

YieldTurn ==
  /\ AssertDue /\ StandingDown
  /\ pc' = "top"
  /\ due' = [due EXCEPT !.assert = YieldRecheck]
  /\ UNCHANGED <<inbox, tally, deferred, presence, rivalry, links, objects, worldVars,
                 pass, ghost>>

\* Mutant: a held modifier is waited for without limit.
ChordWithoutLimit == world.held

\* _hold_off: a modifier is down, and the deferral has not lasted MAX_DEFER.
ChordInProgress == world.held /\ deferred < MaxDefer

HoldOff ==
  /\ AssertDue /\ ~StandingDown /\ ChordInProgress
  /\ pc' = "top"
  /\ deferred' = IF deferred = Off THEN 0 ELSE deferred
  /\ due' = [due EXCEPT !.assert = Defer]
  /\ UNCHANGED <<inbox, tally, presence, rivalry, links, objects, worldVars, pass, ghost>>

StartPass ==
  /\ AssertDue /\ ~StandingDown /\ ~ChordInProgress
  /\ deferred' = Off
  /\ due' = [due EXCEPT !.assert = Off]
  /\ pc' = IF session.open THEN "gate" ELSE "find"
  /\ ghost' = [ghost EXCEPT !.unseen = FALSE]
  /\ UNCHANGED <<inbox, tally, presence, rivalry, links, objects, worldVars, pass>>

\* The idle watch: sample the host's own input clock, act on the edge back to use.
Peek ==
  /\ PeekDue
  /\ pc' = "top"
  /\ LET inUse == CanMeasureIdle /\ ~world.idle
     IN  \/ /\ ~peer
            /\ due' = [due EXCEPT !.peek = Off]
            /\ wasIdle' = FALSE /\ ghost' = ghost
         \/ /\ peer /\ inUse /\ wasIdle
            /\ due' = [due EXCEPT !.peek = Off, !.assert = 0]
            /\ wasIdle' = FALSE /\ ghost' = [ghost EXCEPT !.blind = 0]
         \/ /\ peer /\ ~(inUse /\ wasIdle)
            /\ due' = [due EXCEPT !.peek = IdlePeek]
            /\ wasIdle' = ~inUse /\ ghost' = ghost
  /\ UNCHANGED <<inbox, tally, deferred, presence, peer, foreignSeen, links, objects,
                 worldVars, pass>>

Beat ==
  /\ BeatDue
  /\ pc' = "top"
  /\ due' = [due EXCEPT !.beat = Off, !.assert = 0]
  /\ ghost' = [ghost EXCEPT !.blind = 0]
  /\ UNCHANGED <<inbox, tally, deferred, presence, rivalry, links, objects, worldVars,
                 pass>>

-----------------------------------------------------------------------------
(* How _run schedules what follows a pass *)

\* A pass that did what it set out to do.
AfterSuccess(t, peerNow) ==
  /\ tally' = [t EXCEPT !.retry = 0, !.attempts = 0]
  /\ LET close == Unsettled(t, peerNow)
     IN  due' = [assert |-> IF close \/ (peerNow /\ ~CanMeasureIdle)
                              THEN FastRecheck ELSE Off,
                 peek   |-> IF ~close /\ peerNow /\ CanMeasureIdle
                              THEN IdlePeek ELSE due.peek,
                 beat   |-> IF HeartbeatInterval > 0 THEN HeartbeatInterval ELSE Off]

\* Mutant: an off-by-one in the number of tries.
GivesUpLate(t) == EventOnly /\ t.attempts > QuietRetryAttempts

GivesUp(t) == EventOnly /\ t.attempts + 1 > QuietRetryAttempts

\* Mutant: giving up leaves the consumed heartbeat disarmed.
BackstopForgotten(beat) == beat

\* Giving up must not also disarm the backstop.
Backstop(beat) == IF beat = Off /\ HeartbeatInterval > 0 THEN HeartbeatInterval ELSE beat

\* A pass that failed: back off, or in event-only mode give up and keep the backstop.
AfterFailure(t) ==
  LET attempts == Capped(t.attempts + 1, QuietRetryAttempts + 1)
      backoff  == Capped(IF 2 * t.retry > RetryInitial THEN 2 * t.retry ELSE RetryInitial,
                         RetryMax)
  IN  IF GivesUp(t)
      THEN /\ tally' = [t EXCEPT !.retry = 0, !.attempts = attempts]
           /\ due' = [due EXCEPT !.beat = Backstop(@)]
      ELSE /\ tally' = [t EXCEPT !.retry = backoff, !.attempts = attempts]
           /\ due' = [due EXCEPT !.assert = backoff]

\* The end of _apply_once and all that _run does with it: what the pass reached decides
\* the away-record, what it returned decides the schedule.
Conclude(ok, reach, t, peerNow) ==
  /\ pc' = "top" /\ pass' = NoPass
  /\ reached' = reach /\ absent' = ~reach
  /\ ghost' = [ghost EXCEPT !.blind =
        IF ok THEN 0 ELSE IF EventOnly THEN Capped(@ + 1, QuietRetryAttempts + 2) ELSE @]
  /\ IF ok THEN AfterSuccess(t, peerNow) ELSE AfterFailure(t)

-----------------------------------------------------------------------------
(* One pass: _apply_once *)

Move(m) == m \in Disturbances /\ moves < MaxMoves /\ moves' = moves + 1

\* Something the state explains, or else a disturbance does.
Either(cause, m) == (cause /\ UNCHANGED moves) \/ Move(m)

\* discover_devices: ping the hinted indices, and scan only if none of them answers.
Discovered == IF hints \cap world.here # {} THEN hints \cap world.here ELSE world.here

\* find_groups and open_transport. No receiver, or an enumeration that raises, leaves
\* _driven as it was.
FindReceiver ==
  /\ pc = "find" /\ world.attached
  /\ pc' = "build"
  /\ session' = [Closed EXCEPT !.live = TRUE]
  /\ UNCHANGED <<inbox, schedule, presence, rivalry, driven, hints, objects,
                 worldVars, pass, ghost>>

NoReceiver ==
  /\ pc = "find"
  /\ Either(~world.attached, "timeout")
  /\ Conclude(FALSE, FALSE, tally, peer)
  /\ UNCHANGED <<inbox, deferred, rivalry, links, objects, kb, world>>

\* Discovery found something to drive: fresh device objects, seeded with what this
\* agent last wrote.
BuildSession ==
  /\ pc = "build" /\ session.live /\ Discovered # {}
  /\ pc' = "gate"
  /\ session' = [open |-> TRUE, live |-> TRUE, devices |-> Discovered]
  /\ driven' = Discovered /\ hints' = Discovered
  /\ known' = [d \in Devices |-> IF d \in Discovered
                  THEN [seen |-> NoRecord, wrote |-> d \in lastWritten, foreign |-> 0]
                  ELSE known[d]]
  /\ ghost' = [ghost EXCEPT !.silent = @ \ Discovered]
  /\ UNCHANGED <<inbox, schedule, presence, rivalry, lastWritten, worldVars, pass>>

\* Nothing answers, or the transport dies under the discovery: no session.
BuildFails ==
  /\ pc = "build"
  /\ Either(~session.live \/ Discovered = {}, "timeout")
  /\ session' = Closed /\ driven' = {}
  /\ Conclude(FALSE, FALSE, tally, peer)
  /\ UNCHANGED <<inbox, deferred, rivalry, hints, objects, kb, world>>

\* The second look at whose turn it is: an early return that is a success, and that
\* leaves _reached as the pass before it did.
GateYields ==
  /\ pc = "gate" /\ StandingDown
  /\ Conclude(TRUE, reached, tally, peer)
  /\ UNCHANGED <<inbox, deferred, rivalry, links, objects, worldVars>>

GateOpens ==
  /\ pc = "gate" /\ ~StandingDown
  /\ pc' = "device"
  /\ pass' = [NoPass EXCEPT !.todo = session.devices]
  /\ UNCHANGED <<inbox, schedule, presence, rivalry, links, objects, worldVars, ghost>>

\* Mutant: a device object that never wrote counts what it finds as a foreign write.
NotedUnseeded(k, record) ==
  [k EXCEPT !.seen = record,
            !.foreign = IF /\ record # k.seen
                           /\ record = [mode |-> "theirs", by |-> "software"]
                          THEN @ + 1 ELSE @]

\* _note_host_record, on every getHostPlatform reading.
Noted(k, record) ==
  [k EXCEPT !.seen = record,
            !.foreign = IF /\ record # k.seen
                           /\ record = [mode |-> "theirs", by |-> "software"]
                           /\ k.wrote
                          THEN @ + 1 ELSE @]

\* ensure_os starts with a read, and stops there if the platform is already right.
ReadPlatform(d) ==
  /\ pc = "device" /\ d \in pass.todo
  /\ session.live /\ d \in world.here
  /\ known' = [known EXCEPT ![d] = Noted(@, kb[d])]
  /\ IF kb[d].mode = "ours"
     THEN pc' = pc /\ pass' = [pass EXCEPT !.todo = @ \ {d}, !.applied = TRUE]
     ELSE pc' = "write" /\ pass' = [pass EXCEPT !.todo = @ \ {d}, !.on = d]
  /\ ghost' = [ghost EXCEPT !.silent = @ \ {d}]
  /\ UNCHANGED <<inbox, schedule, presence, rivalry, links, lastWritten, worldVars>>

\* Mutant: a device is counted before it has answered.
UnansweredCounts(d) ==
  [pass EXCEPT !.todo = @ \ {d}, !.on = NoDevice, !.failed = TRUE, !.applied = TRUE]

Unanswered(d) == [pass EXCEPT !.todo = @ \ {d}, !.on = NoDevice, !.failed = TRUE]

\* Mutant: a keyboard that does not answer is written all the same.
NoAnswerWrites(d) ==
  /\ pc = "device" /\ d \in pass.todo
  /\ session.live
  /\ Either(d \notin world.here, "timeout")
  /\ pc' = "write"
  /\ pass' = [pass EXCEPT !.todo = @ \ {d}, !.on = d]
  /\ UNCHANGED <<inbox, schedule, presence, rivalry, links, objects, kb, world, ghost>>

\* No answer in time: the keyboard is away, or a reply went missing. The write may
\* have landed all the same.
NoAnswer(d) ==
  /\ \/ pc = "device" /\ d \in pass.todo
     \/ pc = "write" /\ d = pass.on
  /\ session.live
  /\ Either(d \notin world.here, "timeout")
  /\ pc' = "device"
  /\ pass' = Unanswered(d)
  /\ \/ kb' = kb
     \/ /\ pc = "write" /\ d \in world.here
        /\ kb' = [kb EXCEPT ![d] = [mode |-> "ours", by |-> "software"]]
  /\ ghost' = [ghost EXCEPT !.silent = @ \cup {d}]
  /\ UNCHANGED <<inbox, schedule, presence, rivalry, links, objects, world>>

\* setHostPlatform is answered; the firmware keeps the new platform or, sometimes, not.
WritePlatform(d) ==
  /\ pc = "write" /\ d = pass.on
  /\ session.live /\ d \in world.here
  /\ \/ kb' = [kb EXCEPT ![d] = [mode |-> "ours", by |-> "software"]]
        /\ UNCHANGED <<moves, ghost>>
     \/ kb' = kb /\ Move("refuse") /\ ghost' = [ghost EXCEPT !.foreign = TRUE]
  /\ known' = [known EXCEPT ![d].wrote = TRUE]
  /\ pc' = "verify"
  /\ UNCHANGED <<inbox, schedule, presence, rivalry, links, lastWritten, world, pass>>

\* verify_platform, where silence and a lost transport are no failure.
VerifyPlatform(d) ==
  /\ pc = "verify" /\ d = pass.on
  /\ pc' = "device" /\ lastWritten' = lastWritten \cup {d}
  /\ \/ /\ session.live /\ d \in world.here /\ UNCHANGED moves
        /\ known' = [known EXCEPT ![d] = Noted(@, kb[d])]
        /\ pass' = [pass EXCEPT !.on = NoDevice, !.applied = TRUE, !.changed = TRUE,
                                !.failed = @ \/ kb[d].mode # "ours"]
     \/ /\ Either(~session.live \/ d \notin world.here, "timeout")
        /\ pass' = [pass EXCEPT !.on = NoDevice, !.applied = TRUE, !.changed = TRUE]
        /\ UNCHANGED known
  /\ UNCHANGED <<inbox, schedule, presence, rivalry, links, kb, world, ghost>>

\* TransportClosed out of a read or a write ends the pass at once.
TransportLost ==
  /\ ~session.live
  /\ \/ pc = "device" /\ pass.todo # {}
     \/ pc = "write"
  /\ session' = Closed
  /\ Conclude(FALSE, FALSE, tally, peer)
  /\ UNCHANGED <<inbox, deferred, rivalry, driven, hints, objects, worldVars>>

\* Anything else that is raised, such as the race in Transport's AbandonRaced: the pass
\* counts as unanswered and the session stays.
BlowsUp ==
  /\ pc \in {"device", "write", "verify"} /\ Move("crash")
  /\ Conclude(FALSE, FALSE, tally, peer)
  /\ UNCHANGED <<inbox, deferred, rivalry, links, objects, kb, world>>

FinishPass ==
  /\ pc = "device" /\ pass.todo = {}
  /\ LET total == ForeignTotal(known, session.devices)
         sees  == total > foreignSeen
         t     == IF pass.changed
                  THEN [tally EXCEPT !.clean = 0,
                          !.corrections = Capped(@ + 1, QuietCorrectionBudget + 1)]
                  ELSE IF pass.applied
                  THEN [tally EXCEPT !.clean = Capped(@ + 1, SettledChecks)]
                  ELSE tally
     IN  /\ foreignSeen' = IF sees THEN total ELSE foreignSeen
         /\ peer' = (peer \/ sees)
         /\ Conclude(pass.applied /\ ~pass.failed, pass.applied, t, peer \/ sees)
  /\ UNCHANGED <<inbox, deferred, wasIdle, links, objects, worldVars>>

-----------------------------------------------------------------------------
(* The other threads, and the world *)

\* stop(), from a signal handler: the flag is what counts, the message may be dropped.
Stop ==
  /\ ~stopping /\ "stop" \in Disturbances
  /\ stopping' = TRUE /\ Put("stop")
  /\ UNCHANGED <<pc, schedule, presence, rivalry, links, objects, worldVars, pass, ghost>>

\* The receiver is unplugged or plugged in; the watcher reports it.
Replug ==
  /\ Move("replug")
  /\ world' = [world EXCEPT !.attached = ~@]
  /\ session' = [session EXCEPT !.live = FALSE]
  /\ Put("changed")
  /\ ghost' = [ghost EXCEPT !.unseen = TRUE]
  /\ UNCHANGED <<pc, stopping, schedule, presence, rivalry, driven, hints, objects,
                 kb, pass>>

\* An Easy-Switch hop: the receiver stays, the OS says nothing.
Hop(d) ==
  /\ \/ d \in world.here /\ Move("hop")
     \/ d \notin world.here /\ moves' = moves
  /\ world' = [world EXCEPT !.here = IF d \in @ THEN @ \ {d} ELSE @ \cup {d}]
  /\ \/ kb' = kb /\ ghost' = ghost
     \/ /\ kb' = [kb EXCEPT ![d] = [mode |-> "theirs", by |-> "software"]]
        /\ ghost' = [ghost EXCEPT !.foreign = TRUE]
  /\ UNCHANGED <<pc, inbox, schedule, presence, rivalry, links, objects, pass>>

\* An unsolicited frame that passes the reader's gate.
Chatter(d) ==
  /\ d \in world.here /\ Hearing /\ Move("chatter")
  /\ driven = {} \/ d \in driven
  /\ MightHaveBeenAway
  /\ Put("woke")
  /\ ghost' = [ghost EXCEPT !.unseen = TRUE]
  /\ UNCHANGED <<pc, stopping, schedule, presence, rivalry, links, objects, kb, world,
                 pass>>

\* A HID++ 1.0 connection notification always counts.
Link ==
  /\ Hearing /\ Move("link")
  /\ Put("woke")
  /\ ghost' = [ghost EXCEPT !.unseen = TRUE]
  /\ UNCHANGED <<pc, stopping, schedule, presence, rivalry, links, objects, kb, world,
                 pass>>

\* Another machine, or a program here, sets the platform; its reply may be heard.
HearsForeign(d) ==
  /\ d \in world.here
  /\ kb' = [kb EXCEPT ![d] = [mode |-> "theirs", by |-> "software"]]
  /\ peer' \in {peer, peer \/ (Hearing /\ d \in driven)}
  /\ ghost' = [ghost EXCEPT !.foreign = TRUE]
  /\ UNCHANGED <<pc, inbox, schedule, presence, wasIdle, foreignSeen, links, objects,
                 world, pass>>

ForeignWrite(d) == Move("foreign") /\ HearsForeign(d)

\* Fn+O by hand, or firmware that drops the setting.
Revert(d) ==
  /\ d \in world.here /\ Move("revert")
  /\ kb' = [kb EXCEPT ![d] = [mode |-> "theirs", by |-> "keyboard"]]
  /\ UNCHANGED <<pc, inbox, schedule, presence, rivalry, links, objects, world, pass, ghost>>

PeerForgotten ==
  /\ peer /\ peer' = FALSE
  /\ UNCHANGED <<pc, inbox, schedule, presence, wasIdle, foreignSeen, links, objects,
                 worldVars, pass, ghost>>

\* The user: hands off the machine or back on it, a modifier pressed or let go; and
\* Logitech software started or quit, as the cached scan sees it.
Toggle(f) ==
  /\ Move(f)
  /\ world' = [world EXCEPT ![f] = ~@]
  /\ UNCHANGED <<pc, inbox, schedule, presence, rivalry, links, objects, kb, pass, ghost>>

Down(n) == IF n > 0 THEN n - 1 ELSE n

Tick ==
  /\ pc # "exited"
  /\ \/ \E k \in DOMAIN due : due[k] > 0
     \/ deferred # Off /\ deferred < MaxDefer
  /\ due' = [k \in DOMAIN due |-> Down(due[k])]
  /\ deferred' = IF deferred = Off THEN Off ELSE Capped(deferred + 1, MaxDefer)
  /\ UNCHANGED <<pc, inbox, tally, presence, rivalry, links, objects, worldVars,
                 pass, ghost>>

Finished == pc = "exited" /\ UNCHANGED vars

-----------------------------------------------------------------------------
Schedule == Enter \/ Leave \/ TakeChanged \/ TakeWoke \/ YieldTurn \/ HoldOff
            \/ StartPass \/ Peek \/ Beat

Apply ==
  \/ FindReceiver \/ NoReceiver \/ BuildSession \/ BuildFails \/ GateYields \/ GateOpens
  \/ TransportLost \/ BlowsUp \/ FinishPass
  \/ \E d \in Devices : ReadPlatform(d) \/ NoAnswer(d) \/ WritePlatform(d) \/ VerifyPlatform(d)

Worker == Schedule \/ Apply

World ==
  \/ Stop \/ Replug \/ Link \/ PeerForgotten
  \/ \E d \in Devices : Hop(d) \/ Chatter(d) \/ ForeignWrite(d) \/ Revert(d)
  \/ \E f \in {"idle", "held", "rival"} : Toggle(f)

Next == Worker \/ World \/ Tick \/ Finished

Spec == Init /\ [][Next]_vars

\* The worker thread and time go on, and what was seen of another machine is forgotten
\* in the end; no keyboard is made to come back and no user to let go of a key.
FairSpec == Spec /\ WF_vars(Worker) /\ WF_vars(Tick) /\ WF_vars(PeerForgotten)

-----------------------------------------------------------------------------
(* Properties *)

Ticks == Nat \cup {Off}

TypeOK ==
  /\ pc \in {"top", "wait", "find", "build", "gate", "device", "write", "verify", "exited"}
  /\ stopping \in BOOLEAN
  /\ queue \in Seq({"changed", "woke", "stop"}) /\ Len(queue) <= QueueBound
  /\ due \in [assert : Ticks, beat : Ticks, peek : Ticks]
  /\ tally \in [retry : Nat, attempts : 0..(QuietRetryAttempts + 1),
                corrections : 0..(QuietCorrectionBudget + 1), clean : 0..SettledChecks]
  /\ deferred \in Ticks /\ deferred <= MaxDefer
  /\ {absent, reached, wasIdle, peer} \subseteq BOOLEAN /\ foreignSeen \in Nat
  /\ session \in [open : BOOLEAN, live : BOOLEAN, devices : SUBSET Devices]
  /\ driven \subseteq Devices /\ hints \subseteq Devices
  /\ known \in [Devices -> [seen : Records \cup {NoRecord}, wrote : BOOLEAN, foreign : Nat]]
  /\ lastWritten \subseteq Devices
  /\ pass \in [todo : SUBSET Devices, on : Devices \cup {NoDevice}, applied : BOOLEAN,
               changed : BOOLEAN, failed : BOOLEAN]
  /\ kb \in [Devices -> Records]
  /\ world \in [attached : BOOLEAN, here : SUBSET Devices, idle : BOOLEAN, held : BOOLEAN,
                rival : BOOLEAN]
  /\ moves \in 0..MaxMoves
  /\ ghost \in [blind : 0..(QuietRetryAttempts + 2), silent : SUBSET Devices,
                unseen : BOOLEAN, foreign : BOOLEAN]

\* Between two passes something is always scheduled that will look at the keyboard
\* again, however the last pass went and whatever was given up: with a heartbeat
\* configured the worker never waits for an announcement alone (_run, lines 708-714,
\* written after a keyboard stayed wrong for eleven hours).
BackstopArmed ==
  /\ pc \in {"top", "wait"}
  /\ Reassert > 0 /\ QuietReassert > 0
  => due.assert # Off \/ due.beat # Off

\* In event-only mode the worker fails at most QUIET_RETRY_ATTEMPTS + 1 passes in a
\* row without an event or a heartbeat between them: an absent keyboard is not polled.
QuietTries == ghost.blind <= QuietRetryAttempts + 1

\* Another machine is never believed present unless something other than this agent did
\* set a platform, or the keyboard acknowledged a write of ours and did not obey it: the
\* agent does not mistake its own writes for a peer's, over any number of reconnects
\* (_note_host_record, remember_last_write).
PeerReal == peer => ghost.foreign

\* While none of the keyboards a session drives answered what it was last asked, what
\* one of them says unprompted is taken for a return: an away keyboard that comes back
\* is not taken for one that never left (_might_have_been_away).
AsleepKeepsGateOpen ==
  /\ pc \in {"top", "wait"} /\ session.open
  /\ session.devices \subseteq ghost.silent
  => MightHaveBeenAway

\* Towards each keyboard by itself a pass is a check-and-correct call as Correction
\* promises it, whatever happens to the other keyboards, to the session, or to the pass
\* as a whole: no keyboard is written that the same pass has not read and found wrong.
C(d) == INSTANCE Correction WITH
  Platforms <- {"ours", "theirs"},
  platform  <- kb[d].mode,
  want      <- "ours",
  phase     <- IF d = pass.on THEN IF pc = "write" THEN "differs" ELSE "written"
               ELSE IF d \in pass.todo THEN "looking" ELSE "idle"
Corrects == /\ \A d \in Devices : C(d)!Init
            /\ [][\A d \in Devices : [C(d)!Next]_(C(d)!cvars)]_vars

\* Every platform on a reachable keyboard ends up right and stays right once the world
\* leaves it alone: the retries, heartbeat, hold-off and turn-taking together lose none.
Settled == \/ stopping \/ ~world.attached
           \/ \A d \in world.here : kb[d].mode = "ours"
Converges == <>[]Settled

\* Every event of the watcher or of a reader is followed by a pass that began after it,
\* even one that a full queue dropped (_put: "dropping duplicates is harmless").
EventsLookedAt == ghost.unseen ~> (~ghost.unseen \/ stopping)

\* A stop always ends the worker with its sessions closed, even if the queue had no room
\* for the message.
StopEnds == stopping ~> (pc = "exited" /\ ~session.open)
=============================================================================
