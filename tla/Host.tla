--------------------------------- MODULE Host ---------------------------------
(***************************************************************************)
(* One agent process: the main thread that starts it, waits and shuts it   *)
(* down, the signals that stop it, and the worker, watcher and             *)
(* notification threads between which it stands.  What the worker does in  *)
(* a pass is the module Worker; here it only looks at what is attached.    *)
(***************************************************************************)
EXTENDS Watchers, Notifier

VARIABLES
  main,       \* where the main thread is
  stopping,   \* Agent._stop
  worker,     \* where the worker is
  due,        \* next_assert is set
  open,       \* _sessions is not empty
  known,      \* history: the interfaces of the last enumeration
  signalled,  \* history: stop() was called
  asked       \* history: ... since start() cleared the flag

busVars == <<present, owed, inbox, moves, owing>>
workVars == <<worker, due, open, known>>
mainVars == <<main, stopping, signalled, asked>>
vars == <<watchVars, busVars, noteVars, workVars, mainVars>>

Alive == main # "exited"

Init ==
  /\ WatchInit /\ NoteInit
  /\ main = "boot" /\ stopping = FALSE /\ signalled = FALSE /\ asked = FALSE
  /\ worker = "off" /\ due = FALSE /\ open = FALSE /\ known = {}

-----------------------------------------------------------------------------
(* Agent.start, on the main thread *)

\* The process list is read, the input source perhaps warned about; then the flag is
\* cleared, whatever a signal has done to it since the handlers were installed.
ClearStop ==
  /\ main = "boot" /\ passing["main"] = Nobody
  /\ main' = "launch" /\ stopping' = FALSE
  /\ UNCHANGED <<watchVars, busVars, noteVars, workVars, signalled, asked>>

Launch ==
  /\ main = "launch"
  /\ NotifierStarts
  /\ main' = "subscribe"
  /\ worker' = "get" /\ due' = TRUE
  /\ UNCHANGED <<watchVars, busVars, open, known, stopping, signalled, asked>>

\* create_watcher falls back on its own, start() when the subscription raises.
Subscribe ==
  /\ main = "subscribe"
  /\ \/ system = "Darwin" /\ StartsIokit /\ main' = "ready"
     \/ system = "Windows" /\ StartsCfgmgr32 /\ main' = "wait"
     \/ StartsPolling /\ main' = "wait"
  /\ UNCHANGED <<busVars, noteVars, workVars, stopping, signalled, asked>>

Ready ==
  /\ main = "ready" /\ native = "running"
  /\ main' = "wait" /\ up' = TRUE
  /\ UNCHANGED <<system, native, armed, primed, sampled, tell, listening>>
  /\ UNCHANGED <<busVars, noteVars, workVars, stopping, signalled, asked>>

\* Mutant: the failure is logged and nothing takes the watcher's place.
FallBackNowhere ==
  /\ main = "ready"
  /\ main' = "wait" /\ up' = TRUE
  /\ UNCHANGED <<system, native, armed, primed, sampled, tell, listening>>
  /\ UNCHANGED <<busVars, noteVars, workVars, stopping, signalled, asked>>

\* The registration failed, or took more than five seconds and goes on by itself.
FallBack ==
  /\ main = "ready"
  /\ StartsPolling
  /\ main' = "wait"
  /\ UNCHANGED <<busVars, noteVars, workVars, stopping, signalled, asked>>

-----------------------------------------------------------------------------
(* Agent.wait, stop and shutdown *)

\* Mutant: the handler only queues the message.
SignalQueueOnly ==
  /\ Move /\ signalled' = TRUE
  /\ Put("stop") /\ stopping' = stopping
  /\ asked' = (asked \/ main # "boot")
  /\ UNCHANGED <<watchVars, noteVars, workVars, present, owed, owing, main>>

\* stop() runs on the main thread, between any two of its steps.
Signal ==
  /\ Move /\ signalled' = TRUE
  /\ stopping' = TRUE
  /\ IF stopping THEN inbox' = inbox ELSE Put("stop")
  /\ asked' = (asked \/ main # "boot")
  /\ UNCHANGED <<watchVars, noteVars, workVars, present, owed, owing, main>>

WaitEnds ==
  /\ main = "wait" /\ stopping
  /\ Stops
  /\ main' = "join"
  /\ UNCHANGED <<busVars, noteVars, workVars, stopping, signalled, asked>>

\* join(5.0), after which the sessions go even if the worker is still using them.
Joined ==
  /\ main = "join"
  /\ worker \in {"busy", "gone"}
  /\ open' = FALSE
  /\ main' = "hush"
  /\ UNCHANGED <<watchVars, busVars, noteVars, worker, due, known, stopping, signalled, asked>>

Hush ==
  /\ main = "hush"
  /\ NotifierStops
  /\ main' = "leave"
  /\ UNCHANGED <<watchVars, busVars, workVars, stopping, signalled, asked>>

\* join(SEND_TIMEOUT + 1), after which the interpreter takes its daemon threads along.
Exit ==
  /\ main = "leave"
  /\ courier.pc \in {"send", "gone"}
  /\ main' = "exited"
  /\ UNCHANGED <<watchVars, busVars, noteVars, workVars, stopping, signalled, asked>>

Main ==
  ClearStop \/ Launch \/ Subscribe \/ Ready \/ FallBack \/ WaitEnds \/ Joined \/ Hush \/ Exit

-----------------------------------------------------------------------------
(* The worker *)

\* The top of the loop.
WorkerLeaves ==
  /\ worker = "get" /\ stopping
  /\ worker' = "gone" /\ open' = FALSE
  /\ UNCHANGED <<watchVars, busVars, noteVars, mainVars, due, known>>

\* A stop ends it; a change closes every session and asks for a pass.
WorkerGets ==
  /\ worker = "get" /\ inbox # <<>>
  /\ inbox' = Tail(inbox) /\ open' = FALSE
  /\ worker' = IF stopping \/ Head(inbox) = "stop" THEN "gone" ELSE "get"
  /\ due' = (due \/ Head(inbox) = "changed")
  /\ UNCHANGED <<watchVars, noteVars, mainVars, present, owed, moves, owing, known>>

\* With nothing queued the deadline comes; a pass without sessions enumerates.
WorkerLooks ==
  /\ worker = "get" /\ inbox = <<>> /\ due
  /\ worker' = "busy" /\ due' = FALSE
  /\ IF open THEN UNCHANGED <<known, owing>>
     ELSE known' = present /\ owing' = FALSE
  /\ UNCHANGED <<watchVars, noteVars, mainVars, present, owed, inbox, moves, open>>

WorkerDone ==
  /\ worker = "busy" /\ passing["worker"] = Nobody
  /\ worker' = "get"
  /\ open' \in {open, known # {}}
  /\ UNCHANGED <<watchVars, busVars, noteVars, mainVars, due, known>>

Work == WorkerLeaves \/ WorkerGets \/ WorkerLooks \/ WorkerDone

\* A retry or the heartbeat: never needed for what is checked here, and not owed to it.
Rearm ==
  /\ worker = "get" /\ ~due
  /\ due' = TRUE
  /\ UNCHANGED <<watchVars, busVars, noteVars, mainVars, worker, open, known>>

\* send is called at start-up, in a pass, and by a reader thread on a foreign frame.
Sends ==
  /\ \/ \E t \in Senders, k \in NoteKinds :
          /\ Move
          /\ \/ t = "main" /\ main = "boot"
             \/ t = "worker" /\ worker = "busy"
             \/ t = "reader" /\ open
          /\ Allow(t, k)
     \/ moves' = moves /\ \E k \in NoteKinds : CooldownEnds(k)
  /\ UNCHANGED <<watchVars, workVars, mainVars, present, owed, inbox, owing>>

Posts == (\E t \in Senders : Post(t)) /\ UNCHANGED <<watchVars, busVars, workVars, mainVars>>

Delivers == Courier /\ UNCHANGED <<watchVars, busVars, workVars, mainVars>>

Watches == Hands /\ UNCHANGED <<noteVars, workVars, mainVars>>

Bus == /\ \E e \in Events, i \in Interfaces : Change(e, i)
       /\ UNCHANGED <<noteVars, workVars, mainVars>>

Next ==
  \/ Alive /\ (Main \/ Signal \/ Work \/ Rearm \/ Sends \/ Posts \/ Delivers \/ Watches \/ Bus)
  \/ main = "wait" /\ ~stopping /\ UNCHANGED vars     \* wait() polls the flag
  \/ ~Alive /\ UNCHANGED vars

\* Every thread is scheduled and what the OS owes is handed over; nothing makes a user
\* plug, a signal come, a cooldown end or a timer fire.
Fairness ==
  /\ WF_vars(Alive /\ Main) /\ WF_vars(Alive /\ Work)
  /\ WF_vars(Alive /\ Posts) /\ WF_vars(Alive /\ Delivers) /\ WF_vars(Alive /\ Watches)

Spec == Init /\ [][Next]_vars /\ Fairness

-----------------------------------------------------------------------------
(* Properties *)

TypeOK ==
  /\ WatchTypeOK /\ NoteTypeOK
  /\ main \in {"boot", "launch", "subscribe", "ready", "wait", "join", "hush", "leave", "exited"}
  /\ worker \in {"off", "get", "busy", "gone"}
  /\ known \subseteq Interfaces
  /\ {stopping, due, open, signalled, asked} \subseteq BOOLEAN

\* What the worker knows catches up with what is attached after every change that a
\* watcher was there for, with no help from retries or the heartbeat, whichever watcher
\* it ended up with and even if the queue dropped the event; save for the first arrival
\* and the first removal IOKit reports, and for what makes no difference between two samples
\* of the polling watcher (a change undone, a removal after an enumeration that failed).
ChangesHeard ==
  owing /\ known # present ~> known = present \/ worker = "gone" \/ ~Alive

\* A stop asked for once start() has cleared the flag ends the process, whatever each
\* thread is busy with and however full the queues are.
StopEndsProcess == asked ~> ~Alive

\* ... and so does one asked for at any time since the handlers were installed: stop is
\* "safe to call from a signal handler" (agent/__init__.py, line 400). The code does not
\* keep this.
StopHeeded == signalled ~> ~Alive
=============================================================================
