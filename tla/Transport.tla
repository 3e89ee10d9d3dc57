------------------------------ MODULE Transport ------------------------------
(***************************************************************************)
(* hidpp/transport.py: one receiver's HID++ handles, the thread that asks  *)
(* (`request`, `scan`), the reader threads that hear (`_read_loop`,        *)
(* `_dispatch`) and the threads that close.                                *)
(*                                                                         *)
(* An exchange is one call's sink; exchanges are numbered in the order the *)
(* request lock serialises them.  A frame's reply key is <<query, swid>>,  *)
(* a query standing for (device index, feature index, function).  `from`   *)
(* is the exchange a frame truly answers, 0 for another program's: the     *)
(* code cannot see it and no guard reads it.                               *)
(***************************************************************************)
EXTENDS Integers, Sequences, FiniteSets

CONSTANTS Queries,       \* what can be asked
          Pings,         \* the queries a scan fans out: a root ping per slot
          NumSwIds,      \* length of the rotation (1: LOGISWITCH_FIXED_SWID)
          Lookalikes,    \* <<q, ping>>: of one slot and one function, on another feature
          Readers,       \* one reader thread per open handle
          Closers,       \* the threads that call close()
          Kinds,         \* what a reply can be, among ok, error and busy
          MaxExchanges,  \* bound: exchanges in a behaviour
          MaxForeign     \* bound: frames of other programs in a behaviour

ASSUME TransportAssumption ==
    /\ Pings \subseteq Queries
    /\ Lookalikes \subseteq (Queries \ Pings) \X Pings
    /\ NumSwIds \in Nat \ {0}
    /\ Kinds \subseteq {"ok", "error", "busy"}
    /\ MaxExchanges \in Nat
    /\ MaxForeign \in Nat

Ids    == 1..MaxExchanges
SwIds  == 0..(NumSwIds - 1)
Keys   == Queries \X SwIds
Frames == [q : Queries, sw : SwIds, from : 0..MaxExchanges, kind : Kinds]
NoFrame == [q |-> "none", from |-> -1, kind |-> "none"]

VARIABLES
    turn,       \* how many ids _sw_ids has handed out
    asked,      \* the exchanges so far: kind, queries and the turn that stamped them
    caller,     \* the asking thread: where it is, what it has not sent, what it raises
    probing,    \* slots the current scan still has to ask one by one
    sink,       \* _sink: the exchange whose sink is installed, 0 for None
    frames,     \* what each sink has accepted
    event,      \* the exchanges whose event is set
    failed,     \* ... and those whose sink was failed by a close or a dead reader
    abandoned,  \* _abandoned, without its expired entries
    recent,     \* _recent: no receiver answers later than its minute
    hot,        \* _foreign_sw_ids seen within FOREIGN_SWID_MEMORY
    owed,       \* what the receiver was asked and has not answered
    reader,     \* the reader threads
    listed,     \* _readers: those a close() still knows of
    dead,       \* _dead
    handles,    \* _handles: open, closed, or cleared
    closer,     \* the closing threads, and the readers each found stuck
    noise,      \* frames of other programs so far
    misfiled,   \* history: own replies counted as other software
    unguarded   \* history: given-up exchanges whose ledger entry no longer stands

callerVars  == <<turn, asked, caller, probing, sink>>
ledgerVars  == <<abandoned, recent, hot>>
sinkVars    == <<frames, event, failed>>
historyVars == <<misfiled, unguarded>>
vars == <<callerVars, ledgerVars, sinkVars, historyVars,
          owed, reader, listed, dead, handles, closer, noise>>

-----------------------------------------------------------------------------
\* Mutants: a rotation one id too long, and one that moves on every second call.
SwIdTooFar(t)    == t % (NumSwIds + 1)
SwIdEveryOther(t) == (t \div 2) % NumSwIds

SwId(t)      == t % NumSwIds
Current      == Len(asked)
Key(i, q)    == <<q, SwId(asked[i].turn)>>
KeysOf(i)    == {Key(i, q) : q \in asked[i].qs}
FrameKey(f)  == <<f.q, f.sw>>
Stopped      == \E c \in Closers : closer[c].pc # "open"
Idle         == caller.pc = "idle"
Listening    == [pc |-> "reading"]

\* _read_loop goes round again, unless _stop was set meanwhile.
Resumed == IF Stopped THEN [pc |-> "exited"] ELSE Listening

\* _next_sw_id steps n ids on: past those another program uses right now, but
\* never more than once round.
StepsOn(n) ==
    /\ \A m \in 1..(n - 1) : SwId(turn + m) \in hot
    /\ n = NumSwIds \/ SwId(turn + n) \notin hot

Init ==
    /\ turn = 0 /\ asked = <<>> /\ probing = {} /\ sink = 0
    /\ caller = [pc |-> "idle", unsent |-> {}, raised |-> "none"]
    /\ frames = [i \in Ids |-> [q \in Queries |-> NoFrame]]
    /\ event = {} /\ failed = {}
    /\ abandoned = {} /\ recent = {} /\ hot = {}
    /\ owed = {} /\ noise = 0
    /\ reader = [r \in Readers |-> Listening]
    /\ dead = FALSE /\ handles = "open" /\ listed = Readers
    /\ closer = [c \in Closers |-> [pc |-> "open", stuck |-> {}]]
    /\ misfiled = {} /\ unguarded = {}

-----------------------------------------------------------------------------
(* The asking thread.                                                      *)

Stamp(kind, qs) ==
    /\ Len(asked) < MaxExchanges
    /\ \E n \in 1..NumSwIds : StepsOn(n) /\ turn' = turn + n
    /\ asked' = Append(asked, [kind |-> kind, qs |-> qs, turn |-> turn'])
    /\ recent' = recent \cup (qs \X {SwId(turn')})
    /\ caller' = [pc |-> "stamped", unsent |-> qs, raised |-> "none"]
    /\ UNCHANGED <<sink, sinkVars, abandoned, hot, historyVars, owed, reader,
                   dead, handles, listed, closer, noise>>

Request(q) ==
    /\ Idle /\ probing = {}
    /\ handles # "cleared" /\ ~dead
    /\ Stamp("request", {q})
    /\ UNCHANGED probing

Scan(qs) ==
    /\ Idle /\ probing = {}
    /\ handles # "cleared"
    /\ Stamp("scan", qs)
    /\ UNCHANGED probing

\* The serial second chance of a slot that was busy or silent during the fan-out.
Retry(q) ==
    /\ Idle /\ q \in probing
    /\ handles # "cleared" /\ ~dead
    /\ Stamp("request", {q})
    /\ probing' = probing \ {q}

\* request() raises TransportClosed at once, and the scan returns what it has.
RetryRefused ==
    /\ Idle /\ probing # {}
    /\ handles = "cleared" \/ dead
    /\ probing' = {}
    /\ UNCHANGED <<turn, asked, caller, sink, ledgerVars, sinkVars, historyVars,
                   owed, reader, dead, handles, listed, closer, noise>>

Install ==
    /\ caller.pc = "stamped"
    /\ sink' = Current
    /\ caller' = [caller EXCEPT !.pc = "write"]
    /\ UNCHANGED <<turn, asked, probing, ledgerVars, sinkVars, historyVars, owed,
                   reader, dead, handles, listed, closer, noise>>

Write(q) ==
    /\ caller.pc = "write" /\ q \in caller.unsent
    /\ handles = "open"
    /\ owed' = owed \cup {<<Current, q>>}
    /\ caller' = [caller EXCEPT !.unsent = @ \ {q},
                                !.pc = IF caller.unsent = {q} THEN "wait" ELSE @]
    /\ UNCHANGED <<turn, asked, probing, sink, ledgerVars, sinkVars, historyVars,
                   reader, dead, handles, listed, closer, noise>>

\* An OSError marks the transport dead; a handle closed or taken away by another
\* thread raises something else, which only passes through the `finally`.
WriteFails ==
    /\ caller.pc = "write"
    /\ \/ /\ handles # "cleared"
          /\ dead' = TRUE
          /\ caller' = [caller EXCEPT !.pc = "clear", !.raised = "closed"]
       \/ /\ handles # "open"
          /\ dead' = dead
          /\ caller' = [caller EXCEPT !.pc = "clear", !.raised = "crash"]
    /\ UNCHANGED <<turn, asked, probing, sink, ledgerVars, sinkVars, historyVars,
                   owed, reader, handles, listed, closer, noise>>

\* event.wait returns False: a request goes on to _abandon, a scan takes what came.
TimesOut ==
    /\ caller.pc = "wait" /\ Current \notin event
    /\ caller' = [caller EXCEPT !.pc = IF asked[Current].kind = "scan"
                                         THEN "clear" ELSE "abandon"]
    /\ UNCHANGED <<turn, asked, probing, sink, ledgerVars, sinkVars, historyVars,
                   owed, reader, dead, handles, listed, closer, noise>>

\* Frames of exchange i already past the ledger check in some reader.
PastCheck(i) == \E r \in Readers : /\ reader[r].pc \in {"take", "offer"}
                                   /\ reader[r].frame.from = i

\* Mutant: a request that gave up leaves no entry in the ledger.
AbandonSilently ==
    /\ caller.pc = "abandon"
    /\ caller' = [caller EXCEPT !.pc = "clear", !.raised = "timeout"]
    /\ UNCHANGED <<turn, asked, probing, sink, ledgerVars, sinkVars, historyVars,
                   owed, reader, dead, handles, listed, closer, noise>>

Abandon ==
    /\ caller.pc = "abandon"
    /\ abandoned' = abandoned \cup KeysOf(Current)
    /\ unguarded' = unguarded \cup {i \in {Current} : PastCheck(i)}
    /\ caller' = [caller EXCEPT !.pc = "clear", !.raised = "timeout"]
    /\ UNCHANGED <<turn, asked, probing, sink, recent, hot, sinkVars, misfiled,
                   owed, reader, dead, handles, listed, closer, noise>>

\* The `finally`, reached from the wait, from _abandon or from a failed write.
Clear ==
    /\ \/ caller.pc = "clear"
       \/ caller.pc = "wait" /\ Current \in event
    /\ sink' = 0
    /\ caller' = [caller EXCEPT !.pc = "return"]
    /\ UNCHANGED <<turn, asked, probing, ledgerVars, sinkVars, historyVars, owed,
                   reader, dead, handles, listed, closer, noise>>

Answered(i) == {q \in Queries : frames[i][q] # NoFrame}

\* Mutant: _forget_request drops what was never answered, too.
ForgottenAll == KeysOf(Current)

\* _forget_request drops what was answered, even after a timeout was raised.
Forgotten == IF asked[Current].kind = "scan"
               THEN {Key(Current, q) : q \in Answered(Current)}
               ELSE {k \in KeysOf(Current) : Current \in event}

\* A scan goes on with the slots that were busy or silent, until the transport is gone.
Return ==
    /\ caller.pc = "return"
    /\ recent' = recent \ Forgotten
    /\ caller' = [pc |-> "idle", unsent |-> {}, raised |-> "none"]
    /\ probing' =
         IF caller.raised \in {"closed", "crash"} THEN {}
         ELSE IF asked[Current].kind = "scan"
           THEN {q \in asked[Current].qs : frames[Current][q].kind \in {"busy", "none"}}
         ELSE IF caller.raised = "none" /\ Current \in failed THEN {}
         ELSE probing
    /\ UNCHANGED <<turn, asked, sink, abandoned, hot, sinkVars, historyVars, owed,
                   reader, dead, handles, listed, closer, noise>>

-----------------------------------------------------------------------------
(* A reader thread.                                                        *)

Hears(r, f) == reader' = [reader EXCEPT ![r] = [pc |-> "check", frame |-> f]]

\* The receiver answers what it was asked, in any order and however late; a read already
\* under way returns a frame even after the stop.
Read(r) ==
    /\ reader[r].pc = "reading"
    /\ \E o \in owed, kind \in Kinds :
         /\ owed' = owed \ {o}
         /\ Hears(r, [q |-> o[2], sw |-> SwId(asked[o[1]].turn),
                      from |-> o[1], kind |-> kind])
    /\ UNCHANGED <<callerVars, ledgerVars, sinkVars, historyVars, dead, handles,
                   listed, closer, noise>>

\* Another program on this receiver: any query, any software id.
ReadForeign(r) ==
    /\ reader[r].pc = "reading"
    /\ noise < MaxForeign
    /\ noise' = noise + 1
    /\ \E k \in Keys, kind \in Kinds :
         Hears(r, [q |-> k[1], sw |-> k[2], from |-> 0, kind |-> kind])
    /\ UNCHANGED <<callerVars, ledgerVars, sinkVars, historyVars, owed, dead,
                   handles, listed, closer>>

\* _note_orphan: ours if the ledger of recent requests holds the key; otherwise
\* another program's, whose software id is stepped around from here on.
NoteOrphan(f) ==
    IF FrameKey(f) \in recent
      THEN UNCHANGED <<hot, misfiled>>
      ELSE /\ hot' = hot \cup {f.sw}
           /\ misfiled' = misfiled \cup {x \in {<<f.from, f.q>>} : f.from # 0}

\* The other exchanges whose ledger entry f takes away.
UsedUp(f) == {i \in 1..Len(asked) : i # f.from /\ FrameKey(f) \in KeysOf(i)}

\* _is_abandoned: one frame uses the entry up, and is offered to no sink.
CheckAbandoned(r) ==
    LET f == reader[r].frame IN
    /\ reader[r].pc = "check"
    /\ IF FrameKey(f) \in abandoned
         THEN /\ abandoned' = abandoned \ {FrameKey(f)}
              /\ unguarded' = unguarded \cup UsedUp(f)
              /\ NoteOrphan(f)
              /\ reader' = [reader EXCEPT ![r] = Resumed]
         ELSE /\ reader' = [reader EXCEPT ![r] = [pc |-> "take", frame |-> f]]
              /\ UNCHANGED <<abandoned, unguarded, hot, misfiled>>
    /\ UNCHANGED <<callerVars, recent, sinkVars, owed, dead, handles, listed, closer, noise>>

\* _abandon copies the dict without a lock while a reader takes an entry out of it: the
\* iteration raises RuntimeError, or, if the copy was done, it puts the entry back.
AbandonRaced(r) ==
    LET f == reader[r].frame IN
    /\ caller.pc = "abandon"
    /\ reader[r].pc = "check" /\ FrameKey(f) \in abandoned
    /\ \/ /\ abandoned' = abandoned \ {FrameKey(f)}
          /\ unguarded' = unguarded \cup {Current} \cup UsedUp(f)
          /\ caller' = [caller EXCEPT !.pc = "clear", !.raised = "crash"]
       \/ /\ abandoned' = abandoned \cup KeysOf(Current)
          /\ unguarded' = unguarded \cup {i \in {Current} : PastCheck(i)}
          /\ caller' = [caller EXCEPT !.pc = "clear", !.raised = "timeout"]
    /\ NoteOrphan(f)
    /\ reader' = [reader EXCEPT ![r] = Resumed]
    /\ UNCHANGED <<turn, asked, probing, sink, recent, sinkVars, owed, dead, handles,
                   listed, closer, noise>>

TakeSink(r) ==
    /\ reader[r].pc = "take"
    /\ reader' = [reader EXCEPT ![r] =
                    [pc |-> "offer", frame |-> @.frame, sink |-> sink]]
    /\ UNCHANGED <<callerVars, ledgerVars, sinkVars, historyVars, owed, dead,
                   handles, listed, closer, noise>>

\* An error frame is matched by a scan on its slot and its function byte alone, so that
\* of another feature's function passes for the ping's.
Resembles(i, f, q) ==
    asked[i].kind = "scan" /\ f.kind # "ok" /\ <<f.q, q>> \in Lookalikes

\* Mutant: the software id is not compared.
TakenForAnySwId(i, f) == {q \in asked[i].qs : f.q = q \/ Resembles(i, f, q)}

\* What sink i takes f for an answer to: a request its own question only, a scan a ping
\* it sent, each stamped with its own software id.
TakenFor(i, f) ==
    {q \in asked[i].qs : /\ f.q = q \/ Resembles(i, f, q)
                         /\ f.sw = SwId(asked[i].turn)}

\* A request keeps the last such frame, and an error reply replaces the error of a
\* failed sink; a scan keeps the first per slot and wakes once all have answered.
Accept(i, f, q) ==
    LET kept == IF asked[i].kind = "scan" /\ frames[i][q] # NoFrame
                  THEN frames[i][q] ELSE [q |-> f.q, from |-> f.from, kind |-> f.kind]
    IN  /\ frames' = [frames EXCEPT ![i][q] = kept]
        /\ event' = IF asked[i].qs \subseteq Answered(i) \cup {q}
                      THEN event \cup {i} ELSE event
        /\ failed' = IF asked[i].kind = "request" /\ f.kind # "ok"
                       THEN failed \ {i} ELSE failed

Offer(r) ==
    LET f == reader[r].frame
        i == reader[r].sink
    IN
    /\ reader[r].pc = "offer"
    /\ reader' = [reader EXCEPT ![r] = Resumed]
    /\ \/ /\ i # 0
          /\ \E q \in TakenFor(i, f) : Accept(i, f, q)
          /\ UNCHANGED <<hot, misfiled>>
       \/ /\ i # 0 => TakenFor(i, f) = {}
          /\ NoteOrphan(f) /\ UNCHANGED sinkVars
    /\ UNCHANGED <<callerVars, abandoned, recent, unguarded, owed, dead, handles,
                   listed, closer, noise>>

\* _fail_pending: whatever sink is installed learns that the transport is gone.
FailPending ==
    /\ failed' = failed \cup ({sink} \ {0})
    /\ event' = event \cup ({sink} \ {0})
    /\ UNCHANGED frames

ReadFails(r) ==
    /\ reader[r].pc = "reading" /\ ~Stopped
    /\ dead' = TRUE
    /\ FailPending
    /\ reader' = [reader EXCEPT ![r] = [pc |-> "exited"]]
    /\ UNCHANGED <<callerVars, ledgerVars, historyVars, owed, handles, listed, closer, noise>>

ReaderExits(r) ==
    /\ reader[r].pc = "reading" /\ Stopped
    /\ reader' = [reader EXCEPT ![r] = [pc |-> "exited"]]
    /\ UNCHANGED <<callerVars, ledgerVars, sinkVars, historyVars, owed, dead,
                   handles, listed, closer, noise>>

-----------------------------------------------------------------------------
(* close(), on the asking thread, on others, or on several at once.        *)

CloserStep(c, from, to) ==
    /\ closer[c].pc = from /\ closer' = [closer EXCEPT ![c].pc = to]
    /\ UNCHANGED <<callerVars, ledgerVars, historyVars, owed, reader, dead, noise>>

CloseBegins(c) ==
    /\ CloserStep(c, "open", "joining")
    /\ FailPending
    /\ UNCHANGED <<listed, handles>>

Alive == {r \in Readers : reader[r].pc # "exited"}

Judged(c, stuck) ==
    /\ closer[c].pc = "joining"
    /\ closer' = [closer EXCEPT ![c] = [pc |-> "judged", stuck |-> stuck]]
    /\ UNCHANGED <<callerVars, ledgerVars, sinkVars, historyVars, owed, reader, dead,
                   handles, noise>>

\* Mutant: the list is cleared before it is looked at.
JudgeForgotten(c) == Judged(c, {}) /\ listed' = {}

\* The joins are over, by the readers' exit or by the deadline; who is left is stuck.
Judge(c) == Judged(c, listed \cap Alive) /\ UNCHANGED listed

\* `_readers.clear()`: another close() that comes now finds nobody to wait for. Where a
\* reader is stuck the handles are left to the OS.
ForgetReaders(c) ==
    /\ CloserStep(c, "judged", IF closer[c].stuck = {} THEN "closing" ELSE "leaving")
    /\ listed' = {}
    /\ UNCHANGED <<sinkVars, handles>>

CloseHandles(c) ==
    /\ CloserStep(c, "closing", "clearing")
    /\ handles' = IF handles = "open" THEN "closed" ELSE handles
    /\ UNCHANGED <<sinkVars, listed>>

CloseClears(c) ==
    /\ closer[c].pc \in {"clearing", "leaving"}
    /\ closer' = [closer EXCEPT ![c] = [pc |-> "closed", stuck |-> {}]]
    /\ handles' = "cleared"
    /\ UNCHANGED <<callerVars, ledgerVars, sinkVars, historyVars, owed, reader, dead,
                   listed, noise>>

-----------------------------------------------------------------------------
(* Time: entries of the ledgers run out.                                   *)

AbandonedExpires(k) ==
    /\ k \in abandoned
    /\ abandoned' = abandoned \ {k}
    /\ unguarded' = unguarded \cup {i \in 1..Len(asked) : k \in KeysOf(i)}
    /\ UNCHANGED <<callerVars, recent, hot, sinkVars, misfiled, owed, reader, dead,
                   handles, listed, closer, noise>>

ForeignCools(s) ==
    /\ s \in hot
    /\ hot' = hot \ {s}
    /\ UNCHANGED <<callerVars, abandoned, recent, sinkVars, historyVars, owed,
                   reader, dead, handles, listed, closer, noise>>

\* Closed, nobody asking and nobody listening: the transport is done with.
Finished ==
    /\ \A c \in Closers : closer[c].pc = "closed"
    /\ Idle /\ probing = {} /\ Alive = {}
    /\ UNCHANGED vars

CallerNext ==
    \/ \E q \in Queries : Request(q)
    \/ \E qs \in SUBSET Pings \ {{}} : Scan(qs)
    \/ \E q \in probing : Retry(q)
    \/ RetryRefused
    \/ Install
    \/ \E q \in caller.unsent : Write(q)
    \/ WriteFails \/ TimesOut \/ Abandon \/ Clear \/ Return

ReaderNext(r) ==
    \/ Read(r) \/ ReadForeign(r)
    \/ CheckAbandoned(r) \/ AbandonRaced(r) \/ TakeSink(r) \/ Offer(r)
    \/ ReadFails(r) \/ ReaderExits(r)

CloserNext(c) ==
    \/ CloseBegins(c) \/ Judge(c) \/ ForgetReaders(c) \/ CloseHandles(c) \/ CloseClears(c)

ClockNext ==
    \/ \E k \in abandoned : AbandonedExpires(k)
    \/ \E s \in hot : ForeignCools(s)

Next ==
    \/ CallerNext
    \/ \E r \in Readers : ReaderNext(r)
    \/ \E c \in Closers : CloserNext(c)
    \/ ClockNext
    \/ Finished

Spec == Init /\ [][Next]_vars

-----------------------------------------------------------------------------
(* Properties.                                                             *)

CallerStates == {"idle", "stamped", "write", "wait", "abandon", "clear",
                 "return"}
Exchanges == [kind : {"request", "scan"}, qs : SUBSET Queries, turn : Nat]
Replies   == [q : Queries, from : 0..MaxExchanges, kind : Kinds]
ReaderStates ==
    [pc : {"reading", "exited"}]
    \cup [pc : {"check", "take"}, frame : Frames]
    \cup [pc : {"offer"}, frame : Frames, sink : 0..MaxExchanges]

AskingType ==
    /\ turn \in Nat
    /\ asked \in Seq(Exchanges) /\ Len(asked) <= MaxExchanges
    /\ caller \in [pc : CallerStates, unsent : SUBSET Queries,
                   raised : {"none", "timeout", "closed", "crash"}]
    /\ probing \in SUBSET Queries

LedgerType ==
    /\ abandoned \in SUBSET Keys /\ recent \in SUBSET Keys
    /\ hot \in SUBSET SwIds

SinkType ==
    /\ frames \in [Ids -> [Queries -> Replies \cup {NoFrame}]]
    /\ event \in SUBSET Ids /\ failed \in SUBSET Ids

\* The installed sink is that of the exchange under way.
SinkHeld ==
    /\ sink \in {0, Len(asked)}
    /\ sink # 0 => caller.pc \in {"write", "wait", "abandon", "clear"}
    /\ caller.pc # "idle" => Len(asked) > 0

WireType ==
    /\ owed \in SUBSET ((1..Len(asked)) \X Queries)
    /\ reader \in [Readers -> ReaderStates]
    /\ noise \in 0..MaxForeign

HistoryType ==
    /\ misfiled \in SUBSET (Ids \X Queries)
    /\ unguarded \in SUBSET Ids

CloserStates == {"open", "joining", "judged", "closing", "leaving", "clearing", "closed"}

ClosingType ==
    /\ dead \in BOOLEAN
    /\ handles \in {"open", "closed", "cleared"}
    /\ listed \in SUBSET Readers
    /\ closer \in [Closers -> [pc : CloserStates, stuck : SUBSET Readers]]

\* Every variable has the type its use in the code gives it, and the one installed
\* sink is that of the call holding the request lock.
TypeOK == /\ AskingType /\ LedgerType /\ SinkType /\ SinkHeld
          /\ WireType /\ HistoryType /\ ClosingType

\* Exchanges i and j are so far apart that the rotation came round between them.
TurnApart(j, i) == asked[i].turn - asked[j].turn >= NumSwIds

\* A late reply is never taken for the answer to any of the exchanges that follow
\* within one turn of the rotation, whatever times out, races or is asked again.
CreditedWithinTurn ==
    \A i \in Ids, q \in Queries :
        LET j == frames[i][q].from IN j \in Ids \ {i} => TurnApart(j, i)

\* Exchange i was answered on q, rightly or not, or failed with the transport.
Settled(i, q) == i \in failed \/ frames[i][q] # NoFrame

\* Beyond a turn the ledger of abandoned requests stands guard: a reply to a request
\* that gave up is credited to another exchange only if its entry had run out, had
\* been used up, or was made when a reader already had the reply in hand.
StragglersRejected ==
    \A i \in Ids, q \in Queries :
        LET j == frames[i][q].from
        IN  j \in Ids \ {i} /\ asked[j].kind = "request" /\ ~Settled(j, frames[i][q].q)
              => j \in unguarded

\* The ledger never swallows the answer being waited for, unless the request that
\* gave up on that key is a whole turn older.
LiveReplyNotSwallowed ==
    caller.pc \in {"write", "wait"} =>
        \A q \in asked[Current].qs : Key(Current, q) \in abandoned =>
            \E j \in 1..(Current - 1) : q \in asked[j].qs /\ TurnApart(j, Current)

\* One of our own replies is counted as another program's only once an exchange
\* with its very key was answered or failed: silence alone never does it.
OursFiledAsOurs ==
    \A x \in misfiled :
        \E i \in x[1]..Len(asked) : Key(x[1], x[2]) \in KeysOf(i) /\ Settled(i, x[2])

\* "Closing a handle while a reader is blocked inside hidapi can fault, so the readers are
\* joined first": a handle is closed under a reader only where two calls of close() meet,
\* while the one that found this reader stuck, and took it off the list for the other, is
\* about to give the handles up.
ReadersOutlived ==
    handles = "closed" =>
        \A r \in Alive : \E c \in Closers : closer[c].pc = "leaving" /\ r \in closer[c].stuck

-----------------------------------------------------------------------------
(* Why: the conjuncts that make the properties above inductive.            *)

\* A later exchange carries a later turn.
TurnsAscend ==
    \A i \in 1..Len(asked) :
        /\ asked[i].turn <= turn
        /\ \A j \in 1..(i - 1) : asked[j].turn < asked[i].turn

\* Exchange j came no later than i, and their stamps collide.
Collides(j, i) == j <= i /\ SwId(asked[j].turn) = SwId(asked[i].turn)

\* A frame in a reader's hands carries the stamp of the exchange it answers, and a
\* sink was taken for it only after that exchange was made.
HeardTrue ==
    \A r \in Readers : reader[r].pc \in {"check", "take", "offer"} =>
        LET f == reader[r].frame
        IN  f.from # 0 =>
              /\ f.from <= Len(asked)
              /\ f.sw = SwId(asked[f.from].turn)
              /\ reader[r].pc = "offer" /\ reader[r].sink # 0 => f.from <= reader[r].sink

SinkTaken ==
    \A r \in Readers : reader[r].pc = "offer" => reader[r].sink <= Len(asked)

\* What a sink accepted answers it, or an earlier exchange with a colliding stamp.
CreditedTrue ==
    \A i \in Ids, q \in Queries :
        LET j == frames[i][q].from IN j \in Ids => i <= Len(asked) /\ Collides(j, i)

\* An entry of the ledger was left by a call that has given up.
AbandonedTrue ==
    \A k \in abandoned : \E j \in 1..Len(asked) :
        /\ k \in KeysOf(j)
        /\ j = Current => caller.pc \notin {"stamped", "write", "wait"}

\* A request asks one question, and it wakes only when that is settled.
RequestsAskOne ==
    \A i \in 1..Len(asked) :
        asked[i].kind = "request" => \E q \in Queries : asked[i].qs = {q}

EventSettled ==
    \A i \in event : i <= Len(asked)
        /\ (asked[i].kind = "request" => \A q \in asked[i].qs : Settled(i, q))

\* A reply answers a question its exchange asked, wherever it is, and comes once.
Holding(r, i, q) ==
    /\ reader[r].pc \in {"check", "take", "offer"}
    /\ reader[r].frame.from = i /\ reader[r].frame.q = q

WireTrue ==
    \A i \in Ids, q \in Queries :
        \/ <<i, q>> \in owed \/ frames[i][q] # NoFrame
        \/ \E r \in Readers : Holding(r, i, q)
        \/ \E j \in Ids, p \in Queries : frames[j][p].from = i /\ frames[j][p].q = q
        => i <= Len(asked) /\ q \in asked[i].qs

HeardOnce ==
    \A i \in Ids, q \in Queries, r \in Readers : Holding(r, i, q) =>
        <<i, q>> \notin owed /\ \A s \in Readers \ {r} : ~Holding(s, i, q)

\* What was not sent is not answered.
UnsentQuiet ==
    caller.pc \in {"stamped", "write"} =>
        /\ \A q \in caller.unsent :
              <<Current, q>> \notin owed /\ \A r \in Readers : ~Holding(r, Current, q)
        /\ caller.unsent \subseteq asked[Current].qs
        /\ asked[Current].kind = "request" => caller.unsent = asked[Current].qs

\* A request that is over and was not settled has its entry in the ledger for as long
\* as its reply is to come, and no reader has that reply past the check.
Over(i) == i < Current \/ caller.pc \in {"idle", "clear", "return"}

GuardStands ==
    \A i \in 1..Len(asked) : \A q \in asked[i].qs :
        /\ asked[i].kind = "request" /\ Over(i)
        /\ ~Settled(i, q) /\ i \notin unguarded
        => /\ <<i, q>> \in owed => Key(i, q) \in abandoned
           /\ \A r \in Readers : Holding(r, i, q) =>
                 reader[r].pc = "check" /\ Key(i, q) \in abandoned

\* What was asked is remembered until an exchange with its key was settled.
AskedRemembered ==
    \A i \in 1..Len(asked) : \A q \in asked[i].qs :
        \/ Key(i, q) \in recent
        \/ \E j \in i..Len(asked) : Key(i, q) \in KeysOf(j) /\ Settled(j, q)

\* Closing: a reader taken off the list of the living was found stuck by a closer that
\* gives the handles up, and no handle is closed before the list is empty.
StuckFound ==
    /\ \A c \in Closers : closer[c].pc = "judged" => listed \cap Alive \subseteq closer[c].stuck
    /\ handles # "cleared" =>
         \A r \in Alive \ listed :
            \E c \in Closers : closer[c].pc = "leaving" /\ r \in closer[c].stuck

ListEmptied ==
    handles = "closed" \/ (\E c \in Closers : closer[c].pc = "closing") => listed = {}

TransportInv ==
    /\ TypeOK /\ TurnsAscend /\ HeardTrue /\ SinkTaken /\ CreditedTrue
    /\ AbandonedTrue

LedgerInv ==
    /\ TransportInv /\ RequestsAskOne /\ EventSettled /\ WireTrue /\ HeardOnce
    /\ UnsentQuiet /\ GuardStands /\ AskedRemembered
    /\ StragglersRejected /\ OursFiledAsOurs

=============================================================================
