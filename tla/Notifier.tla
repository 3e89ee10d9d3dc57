------------------------------- MODULE Notifier -------------------------------
(***************************************************************************)
(* notify.Notifier: notifications that worker, reader and main threads ask *)
(* for, throttled per kind, queued without blocking and shown by a thread  *)
(* of its own.  What the throttle suppresses is counted, and the count     *)
(* rides on the next message of its kind.  Composed in Host.               *)
(***************************************************************************)
EXTENDS Naturals, Sequences, FiniteSets, Functions

CONSTANTS
  Senders,      \* the threads that call send
  NoteKinds,    \* SWITCHED, PEER, ...
  QueueSize     \* QUEUE_SIZE

Nobody == "none"
Poison == [kind |-> "none", hidden |-> 0]   \* the None that stop() queues

ASSUME NotifierAssumption ==
  /\ IsFiniteSet(Senders) /\ Nobody \notin NoteKinds
  /\ QueueSize \in Nat \ {0}

VARIABLES
  notes,        \* _queue
  muted,        \* the kinds whose _muted_until lies ahead
  suppressed,   \* _suppressed
  passing,      \* the kind a thread has got through _allow and not yet queued
  courier,      \* the delivery thread: where it is, and the note it holds
  hushed,       \* _stop
  said, shown, lost   \* history, per kind: asked for, seen by the user, never to be seen

noteVars == <<notes, muted, suppressed, passing, courier, hushed, said, shown, lost>>

PerKind(n) == [k \in NoteKinds |-> n]

NoteInit ==
  /\ notes = <<>> /\ muted = {} /\ suppressed = PerKind(0)
  /\ passing = [t \in Senders |-> Nobody]
  /\ courier = [pc |-> "off", note |-> Poison]
  /\ hushed = FALSE
  /\ said = PerKind(0) /\ shown = PerKind(0) /\ lost = PerKind(0)

\* The occurrences a note stands for: its own and the similar ones hidden behind it.
Tells(note, k) == IF note.kind = k THEN 1 + note.hidden ELSE 0

Add(f, note) == [k \in NoteKinds |-> f[k] + Tells(note, k)]

-----------------------------------------------------------------------------
(* send: _allow and _take_suppressed each take the lock, and others may come between *)

Allow(t, k) ==
  /\ passing[t] = Nobody
  /\ said' = [said EXCEPT ![k] = @ + 1]
  /\ IF k \in muted
     THEN suppressed' = [suppressed EXCEPT ![k] = @ + 1] /\ UNCHANGED <<muted, passing>>
     ELSE muted' = muted \cup {k} /\ passing' = [passing EXCEPT ![t] = k]
          /\ UNCHANGED suppressed
  /\ UNCHANGED <<notes, courier, hushed, shown, lost>>

\* Mutant: the count is read and not taken.
PostUncleared(t) ==
  /\ passing[t] # Nobody
  /\ LET note == [kind |-> passing[t], hidden |-> suppressed[passing[t]]]
     IN IF Len(notes) < QueueSize
        THEN notes' = Append(notes, note) /\ lost' = lost
        ELSE notes' = notes /\ lost' = Add(lost, note)
  /\ passing' = [passing EXCEPT ![t] = Nobody]
  /\ UNCHANGED <<muted, suppressed, courier, hushed, said, shown>>

\* A full queue drops the message, and the count it had taken with it.
Post(t) ==
  /\ passing[t] # Nobody
  /\ LET note == [kind |-> passing[t], hidden |-> suppressed[passing[t]]]
     IN IF Len(notes) < QueueSize
        THEN notes' = Append(notes, note) /\ lost' = lost
        ELSE notes' = notes /\ lost' = Add(lost, note)
  /\ suppressed' = [suppressed EXCEPT ![passing[t]] = 0]
  /\ passing' = [passing EXCEPT ![t] = Nobody]
  /\ UNCHANGED <<muted, courier, hushed, said, shown>>

CooldownEnds(k) ==
  /\ k \in muted
  /\ muted' = muted \ {k}
  /\ UNCHANGED <<notes, suppressed, passing, courier, hushed, said, shown, lost>>

-----------------------------------------------------------------------------
(* The delivery thread *)

\* Once stop() was called the loop is left at its top, whatever is still queued.
Leaves ==
  /\ courier.pc = "get" /\ hushed
  /\ courier' = [courier EXCEPT !.pc = "gone"]
  /\ UNCHANGED <<notes, muted, suppressed, passing, hushed, said, shown, lost>>

GetNote ==
  /\ courier.pc = "get" /\ notes # <<>>
  /\ notes' = Tail(notes)
  /\ courier' = IF Head(notes) = Poison THEN [courier EXCEPT !.pc = "gone"]
                ELSE [pc |-> "send", note |-> Head(notes)]
  /\ UNCHANGED <<muted, suppressed, passing, hushed, said, shown, lost>>

\* The sender delivers, or fails in a way deliver() swallows.
Deliver ==
  /\ courier.pc = "send"
  /\ courier' = [pc |-> IF hushed THEN "gone" ELSE "get", note |-> Poison]
  /\ \/ shown' = Add(shown, courier.note) /\ lost' = lost
     \/ lost' = Add(lost, courier.note) /\ shown' = shown
  /\ UNCHANGED <<notes, muted, suppressed, passing, hushed, said>>

Courier == Leaves \/ GetNote \/ Deliver

-----------------------------------------------------------------------------
(* start and stop, which Host calls from the main thread *)

NotifierStarts ==
  /\ courier' = [courier EXCEPT !.pc = "get"]
  /\ hushed' = FALSE
  /\ UNCHANGED <<notes, muted, suppressed, passing, said, shown, lost>>

NotifierStops ==
  /\ hushed' = TRUE
  /\ notes' = IF Len(notes) < QueueSize THEN Append(notes, Poison) ELSE notes
  /\ UNCHANGED <<muted, suppressed, passing, courier, said, shown, lost>>

-----------------------------------------------------------------------------
Notes == [kind : NoteKinds \cup {Nobody}, hidden : Nat]

NoteTypeOK ==
  /\ notes \in Seq(Notes) /\ Len(notes) <= QueueSize
  /\ muted \subseteq NoteKinds
  /\ {suppressed, said, shown, lost} \subseteq [NoteKinds -> Nat]
  /\ passing \in [Senders -> NoteKinds \cup {Nobody}]
  /\ courier \in [pc : {"off", "get", "send", "gone"}, note : Notes]
  /\ hushed \in BOOLEAN

\* What waits in a queue, and what is between the two locks of send.
Queued(s, k) == SumFunction([n \in DOMAIN s |-> Tells(s[n], k)])
Underway(k) == Cardinality({t \in Senders : passing[t] = k})

\* Every occurrence somebody reported is in exactly one place: on its way, counted, shown,
\* or lost, whichever threads send at once; none is counted twice. `lost` holds what went
\* down with its message: the message a full queue refused, with the whole count it had
\* taken (notify/__init__.py 240-242), and the one whose sender failed.
CountedOnce ==
  \A k \in NoteKinds :
    said[k] = shown[k] + lost[k] + suppressed[k] + Tells(courier.note, k)
              + Queued(notes, k) + Underway(k)
=============================================================================
