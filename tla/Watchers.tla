------------------------------- MODULE Watchers -------------------------------
(***************************************************************************)
(* platform/watchers: the operating system's notices of Logitech           *)
(* interfaces that come and go, as the IOKit, cfgmgr32 and polling         *)
(* watchers hand them to the agent's queue.  Composed in Host.             *)
(***************************************************************************)
EXTENDS Naturals, Sequences, FiniteSets

CONSTANTS
  Interfaces,    \* the receivers that may be attached
  Systems,       \* among "Darwin", "Windows" and "Linux"
  InboxSize,     \* queue.Queue(maxsize=256)
  MaxMoves       \* bound: what the world does, here and in Host

Events == {"arrived", "removed"}

ASSUME WatchersAssumption ==
  /\ Systems \subseteq {"Darwin", "Windows", "Linux"}
  /\ InboxSize \in Nat \ {0} /\ MaxMoves \in Nat

VARIABLES
  system,
  present,     \* the interfaces attached now
  owed,        \* what the OS has noted for a native watcher and not handed over
  native,      \* the native watcher: off, registering, running, failed, gone
  armed,       \* the notifications it has registered for
  primed,      \* DarwinWatcher._primed
  sampled,     \* PollingWatcher._present
  tell,        \* the callbacks a sample still has to make
  listening,   \* the watchers whose _callback is set
  up,          \* history: some watcher's start() has returned
  inbox,       \* Agent._queue
  moves,
  owing        \* history: a change since `up` that nobody has looked at and that no
               \*   watcher is built to miss: not one IOKit's first callback swallows,
               \*   nor one undone before the next sample

watchVars == <<system, native, armed, primed, sampled, tell, listening, up>>

\* Mutant: the queue is not bounded.
PutUnbounded(e) == inbox' = Append(inbox, e)

\* Agent._put
Put(e) == inbox' = IF Len(inbox) < InboxSize THEN Append(inbox, e) ELSE inbox

WatchInit ==
  /\ system \in Systems
  /\ present \in SUBSET Interfaces
  /\ owed = [e \in Events |-> {}]
  /\ native = "off" /\ armed = {} /\ primed = {}
  /\ sampled = {} /\ tell = {} /\ listening = {} /\ up = FALSE
  /\ inbox = <<>> /\ moves = 0 /\ owing = FALSE

-----------------------------------------------------------------------------
(* The bus *)

Move == moves < MaxMoves /\ moves' = moves + 1

Change(e, i) ==
  /\ Move
  /\ present' = IF e = "arrived" THEN present \cup {i} ELSE present \ {i}
  /\ present' # present
  /\ owed' = IF e \in armed /\ native \in {"registering", "running"}
             THEN [owed EXCEPT ![e] = @ \cup {i}] ELSE owed
  /\ owing' = (owing \/ (up /\ e \notin primed /\ "polling" \notin listening))
  /\ UNCHANGED <<watchVars, inbox>>

-----------------------------------------------------------------------------
(* IOKit: registration on a thread of its own, then one callback per iterator *)

\* Each iterator is drained when it is registered, and marked so that what that reports
\* is not passed on; the mark stays until the first callback.
Register ==
  /\ system = "Darwin" /\ native = "registering"
  /\ LET e == IF "arrived" \in armed THEN "removed" ELSE "arrived"
     IN /\ armed' = armed \cup {e} /\ primed' = primed \cup {e}
        /\ native' = IF e = "removed" THEN "running" ELSE native
  /\ UNCHANGED <<system, present, owed, sampled, tell, listening, up, inbox, moves, owing>>

RegisterFails ==
  /\ system = "Darwin" /\ native = "registering"
  /\ native' = "failed"
  /\ UNCHANGED <<system, present, owed, armed, primed, sampled, tell, listening, up, inbox,
                 moves, owing>>

\* _emit drains the iterator whatever it does next.
Emit(e) ==
  /\ system = "Darwin" /\ native = "running"
  /\ owed[e] # {}
  /\ owed' = [owed EXCEPT ![e] = {}]
  /\ primed' = primed \ {e}
  /\ IF e \notin primed /\ "native" \in listening THEN Put("changed") ELSE inbox' = inbox
  /\ UNCHANGED <<system, present, native, armed, sampled, tell, listening, up, moves, owing>>

-----------------------------------------------------------------------------
(* cfgmgr32: one call per change on threads of a pool, in any order *)

OnNotify(e, i) ==
  /\ system = "Windows" /\ native = "running"
  /\ i \in owed[e]
  /\ owed' = [owed EXCEPT ![e] = @ \ {i}]
  /\ Put("changed")
  /\ UNCHANGED <<watchVars, present, moves, owing>>

-----------------------------------------------------------------------------
(* Polling: a sample every interval, one callback per difference *)

Sees(seen) ==
  /\ "polling" \in listening /\ tell = {}
  /\ sampled # seen
  /\ sampled' = seen
  /\ tell' = ({"arrived"} \X (seen \ sampled)) \cup ({"removed"} \X (sampled \ seen))
  /\ owing' = TRUE
  /\ UNCHANGED <<system, present, owed, native, armed, primed, listening, up, inbox>>

Sample == Sees(present) /\ UNCHANGED moves

\* An enumeration that raises counts as one that found nothing.
SampleFails == Sees({}) /\ Move

Call(c) ==
  /\ c \in tell
  /\ tell' = tell \ {c}
  /\ Put("changed")
  /\ UNCHANGED <<system, present, owed, native, armed, primed, sampled, listening, up, moves,
                 owing>>

Hands ==
  \/ Register \/ RegisterFails
  \/ \E e \in Events : Emit(e) \/ \E i \in Interfaces : OnNotify(e, i)
  \/ Sample \/ SampleFails \/ \E c \in tell : Call(c)

-----------------------------------------------------------------------------
(* start and stop, which Host calls from the main thread *)

StartsIokit ==
  /\ native' = "registering" /\ listening' = listening \cup {"native"}
  /\ UNCHANGED <<system, armed, primed, sampled, tell, up>>

StartsCfgmgr32 ==
  /\ native' = "running" /\ armed' = Events
  /\ listening' = listening \cup {"native"} /\ up' = TRUE
  /\ UNCHANGED <<system, primed, sampled, tell>>

StartsPolling ==
  /\ sampled' = present
  /\ listening' = listening \cup {"polling"} /\ up' = TRUE
  /\ UNCHANGED <<system, native, armed, primed, tell>>

\* The agent stops the watcher it holds: polling wherever it fell back to it.
Stops ==
  /\ IF "polling" \in listening
     THEN listening' = listening \ {"polling"} /\ native' = native
     ELSE listening' = {} /\ native' = "gone"
  /\ UNCHANGED <<system, armed, primed, sampled, tell, up>>

WatchTypeOK ==
  /\ system \in Systems /\ present \subseteq Interfaces
  /\ owed \in [Events -> SUBSET Interfaces]
  /\ native \in {"off", "registering", "running", "failed", "gone"}
  /\ primed \subseteq armed /\ armed \subseteq Events
  /\ sampled \subseteq Interfaces /\ tell \subseteq Events \X Interfaces
  /\ listening \subseteq {"native", "polling"}
  /\ inbox \in Seq({"changed", "stop"}) /\ Len(inbox) <= InboxSize
  /\ {up, owing} \subseteq BOOLEAN /\ moves \in 0..MaxMoves
=============================================================================
