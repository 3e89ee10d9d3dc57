------------------------------- MODULE Device -------------------------------
(***************************************************************************)
(* HidppDevice of logiswitch/hidpp: probing one keyboard when a session is *)
(* built, and the calls of ensure_os on it, request by request. A request  *)
(* is answered, answered with an error, left unanswered (HidppTimeout) or  *)
(* cut off by a lost transport (TransportClosed); Transport.tla says how.  *)
(* The agent opens a session whenever it has none and calls again and      *)
(* again (Worker.tla says when). The world moves the keyboard and writes   *)
(* its platform too.                                                       *)
(***************************************************************************)
EXTENDS Integers, Sequences

CONSTANTS
  Target,      \* AgentConfig.target_os
  Keyboards,   \* what the firmware and the configuration may be
  Faults,      \* which faults an instance allows
  MaxFaults,   \* bound on faults
  MaxMoves     \* bound on moves of the world

\* A platform is its position in the keyboard's table; no keyboard has more than four.
Platforms == 1..4
Unknown == 0
Authors == {"default", "keyboard", "software"}
Records == [platform : Platforms, by : Authors]
NoRecord == [platform |-> Unknown, by |-> "nobody"]

\* kind: the feature the keyboard has, 0x4531, 0x4530 or none. table: the OS names of each
\* platform. short: descriptors answered with fewer than four bytes. hosts: how 0x1815
\* answers. quirk: a write to 0xFF is acknowledged and dropped (only firmware that can
\* be asked for its host is known to do so). pinned: AgentConfig.claim_host is set.
Setups == [kind : {"multi", "dual", "none"}, table : Seq(SUBSET STRING),
           short : SUBSET Platforms, hosts : {"full", "terse", "none"},
           quirk : BOOLEAN, pinned : BOOLEAN]

ASSUME DeviceAssumption ==
  /\ MaxFaults \in Nat /\ MaxMoves \in Nat
  /\ Keyboards \subseteq Setups
  /\ \A k \in Keyboards : /\ k.table # <<>> /\ Len(k.table) <= 4
                          /\ k.quirk => k.hosts = "full"

VARIABLES
  fixed,       \* the keyboard and the configuration
  kbd,         \* the platform it is in, and who set it
  here,        \* it is on our channel and awake
  live,        \* our transport is open and alive
  pc,          \* closed; multi, infos, descr, dual, name; idle; find, ask, read, write, check
  obj,         \* the HidppDevice: _platform_feature, 0x1815 in _features, _host_index,
               \*   _wrote_platform, _last_host_summary, foreign_writes
  call,        \* the locals of the running call: the descriptor asked for, what follows
               \*   the host lookup, whether the host is addressed by number
  lastWritten, \* Agent._last_written of this device
  faults, moves,
  ghost        \* what the properties remember: causes of a foreign record, whether nothing
               \*   spoilt our last acknowledged write, an error during the host lookup

keyboard == <<fixed, kbd, here>>
bounds == <<faults, moves>>
vars == <<fixed, kbd, here, live, pc, obj, call, lastWritten, faults, moves, ghost>>

-----------------------------------------------------------------------------
(* What the code computes *)

Table == DOMAIN fixed.table
Readable == Table \ fixed.short

\* option_for_os: the first option that names the target; there may be none.
Matches == {i \in Readable : Target \in fixed.table[i]}

\* Mutant: the position in the table is counted from one too many.
ChoiceNext == IF Matches = {} THEN Unknown
              ELSE 1 + CHOOSE i \in Matches : \A j \in Matches : i <= j

Choice == IF Matches = {} THEN Unknown
          ELSE CHOOSE i \in Matches : \A j \in Matches : i <= j

Fresh == [feature |-> "none", hi |-> "unasked", host |-> FALSE, wrote |-> Unknown,
          seen |-> NoRecord, foreign |-> 0]

NoCall == [i |-> 1, next |-> "read", byNumber |-> FALSE]

\* Mutant: a device object that never wrote compares all the same.
NotedUnseeded(o, record) ==
  [o EXCEPT !.seen = record,
            !.foreign = IF /\ record # o.seen /\ record.by = "software"
                           /\ record.platform # o.wrote
                        THEN @ + 1 ELSE @]

\* _note_host_record: a record that moved, that names host software as its author, and
\* that is not what this object knows it wrote, was written by somebody else. (The code
\* compares the record's host number and status as well.)
Noted(o, record) ==
  [o EXCEPT !.seen = record,
            !.foreign = IF /\ record # o.seen /\ record.by = "software"
                           /\ o.wrote # Unknown /\ record.platform # o.wrote
                        THEN @ + 1 ELSE @]

\* current_platform: only a 0x4531 record says who set it.
Read(o) == IF o.feature = "multi" THEN Noted(o, kbd) ELSE o

\* current_host as far as it goes without asking.
HostKnown == obj.feature = "dual" \/ fixed.pinned \/ obj.host

Address(next) ==
  /\ call' = [call EXCEPT !.next = next, !.byNumber = HostKnown]
  /\ pc' = IF HostKnown \/ obj.hi = "absent" THEN next
           ELSE IF obj.hi = "present" THEN "ask" ELSE "find"

\* The call is past its write: verify_platform lets nothing that fails out.
Checking == pc = "check" \/ (pc \in {"find", "ask"} /\ call.next = "check")

-----------------------------------------------------------------------------
(* The outcomes of one request *)

Fault(f) == f \in Faults /\ faults < MaxFaults /\ faults' = faults + 1

Answered == live /\ here /\ UNCHANGED faults

Silent == live /\ IF here THEN Fault("timeout") ELSE UNCHANGED faults

Erred == live /\ here /\ Fault("error")

-----------------------------------------------------------------------------
Init ==
  /\ fixed \in Keyboards
  /\ kbd \in Records /\ kbd.platform \in DOMAIN fixed.table
  /\ here \in BOOLEAN /\ live = FALSE
  /\ pc = "closed" /\ obj = Fresh /\ call = NoCall
  /\ lastWritten = Unknown
  /\ faults = 0 /\ moves = 0
  /\ ghost = [causes |-> 0, clean |-> FALSE, erred |-> FALSE]

-----------------------------------------------------------------------------
(* A session is built: discover_devices pings, probe_devices probes *)

OpenSession ==
  /\ pc = "closed" /\ here
  /\ pc' = "multi" /\ live' = TRUE
  /\ obj' = Fresh /\ call' = NoCall
  /\ UNCHANGED <<keyboard, lastWritten, bounds, ghost>>

\* feature_index(0x4531), and getFeatureInfos
FindMulti ==
  /\ pc = "multi" /\ Answered
  /\ pc' = IF fixed.kind = "multi" THEN "infos" ELSE "dual"
  /\ UNCHANGED <<keyboard, live, obj, call, lastWritten, moves, ghost>>

GetInfos ==
  /\ pc = "infos" /\ Answered
  /\ pc' = "descr"
  /\ UNCHANGED <<keyboard, live, obj, call, lastWritten, moves, ghost>>

\* One descriptor after the other; a short one is skipped, and with none left there is
\* nothing to switch between.
GetDescriptor ==
  /\ pc = "descr" /\ Answered
  /\ IF call.i < Len(fixed.table)
     THEN pc' = pc /\ call' = [call EXCEPT !.i = @ + 1] /\ obj' = obj
     ELSE /\ call' = call
          /\ pc' = IF Readable = {} THEN "dual" ELSE "name"
          /\ obj' = IF Readable = {} THEN obj ELSE [obj EXCEPT !.feature = "multi"]
  /\ UNCHANGED <<keyboard, live, lastWritten, moves, ghost>>

\* Whatever fails on the way is taken for "not supported", a timeout too.
MultiFails ==
  /\ pc \in {"multi", "infos", "descr"} /\ (Silent \/ Erred)
  /\ pc' = "dual"
  /\ UNCHANGED <<keyboard, live, obj, call, lastWritten, moves, ghost>>

FindDual ==
  /\ pc = "dual" /\ (Answered \/ Silent \/ Erred)
  /\ pc' = "name"
  /\ obj' = IF here /\ faults' = faults /\ fixed.kind = "dual"
            THEN [obj EXCEPT !.feature = "dual"] ELSE obj
  /\ UNCHANGED <<keyboard, live, call, lastWritten, moves, ghost>>

\* probe_devices lets a lost transport end the probing, with no device to drive.
ProbeLost ==
  /\ pc \in {"multi", "infos", "descr", "dual"} /\ ~live
  /\ pc' = "closed"
  /\ UNCHANGED <<keyboard, live, obj, call, lastWritten, bounds, ghost>>

\* The name is read whatever the outcome, its failures swallowed. A keyboard that can be
\* driven is seeded with our last write; without one the transport is closed.
Named ==
  /\ pc = "name"
  /\ IF obj.feature # "none"
     THEN pc' = "idle" /\ live' = live /\ obj' = [obj EXCEPT !.wrote = lastWritten]
     ELSE pc' = "closed" /\ live' = FALSE /\ obj' = obj
  /\ UNCHANGED <<keyboard, call, lastWritten, bounds, ghost>>

-----------------------------------------------------------------------------
(* ensure_os *)

\* A call for an OS the table does not name raises before it asks anything.
NoOption == pc = "idle" /\ Choice = Unknown /\ UNCHANGED vars

StartCall ==
  /\ pc = "idle" /\ Choice # Unknown
  /\ Address("read")
  /\ UNCHANGED <<keyboard, live, obj, lastWritten, bounds, ghost>>

\* A failed host lookup falls back to 0xFF only if the device said so, and that is not
\* remembered unless what it said is that there is no 0x1815.
FindHosts ==
  /\ pc = "find"
  /\ \/ /\ Answered
        /\ obj' = [obj EXCEPT !.hi = IF fixed.hosts = "none" THEN "absent" ELSE "present"]
        /\ pc' = IF fixed.hosts = "none" THEN call.next ELSE "ask"
        /\ ghost' = ghost
     \/ /\ Erred /\ obj' = obj
        /\ pc' = call.next /\ ghost' = [ghost EXCEPT !.erred = TRUE]
  /\ UNCHANGED <<keyboard, live, call, lastWritten, moves>>

AskHost ==
  /\ pc = "ask" /\ pc' = call.next
  /\ \/ /\ Answered /\ ghost' = ghost
        /\ obj' = [obj EXCEPT !.host = fixed.hosts = "full"]
        /\ call' = [call EXCEPT !.byNumber = fixed.hosts = "full"]
     \/ /\ Erred /\ UNCHANGED <<obj, call>>
        /\ ghost' = [ghost EXCEPT !.erred = TRUE]
  /\ UNCHANGED <<keyboard, live, lastWritten, moves>>

\* The read comes first; a keyboard that is right already is left alone.
ReadPlatform ==
  /\ pc = "read" /\ Answered
  /\ obj' = Read(obj)
  /\ IF kbd.platform = Choice
     THEN pc' = "idle" /\ UNCHANGED <<call, ghost>>
     ELSE Address("write") /\ ghost' = [ghost EXCEPT !.erred = FALSE]
  /\ UNCHANGED <<keyboard, live, lastWritten, moves>>

\* setHostPlatform is acknowledged and obeyed, or acknowledged and dropped: always by a
\* quirky keyboard addressed as 0xFF, now and then by any.
WritePlatform ==
  /\ pc = "write" /\ live /\ here
  /\ obj' = [obj EXCEPT !.wrote = Choice]
  /\ Address("check")
  /\ LET ignored == fixed.quirk /\ ~call.byNumber
     IN  \/ /\ ~ignored /\ UNCHANGED faults
            /\ kbd' = [platform |-> Choice, by |-> "software"]
            /\ ghost' = [ghost EXCEPT !.clean = TRUE]
         \/ /\ ignored /\ UNCHANGED <<faults, kbd>>
            /\ ghost' = [ghost EXCEPT !.causes = @ + 1, !.clean = ~ghost.erred]
         \/ /\ ~ignored /\ Fault("refuse") /\ UNCHANGED kbd
            /\ ghost' = [ghost EXCEPT !.causes = @ + 1, !.clean = FALSE]
  /\ UNCHANGED <<fixed, here, live, lastWritten, moves>>

\* verify_platform reads back, and _apply_once records the write whatever that shows.
VerifyPlatform ==
  /\ pc = "check" /\ Answered
  /\ pc' = "idle"
  /\ obj' = Read(obj) /\ lastWritten' = Choice
  /\ UNCHANGED <<keyboard, live, call, moves, ghost>>

Unconfirmed ==
  /\ Checking
  /\ \/ Silent
     \/ /\ pc = "check" /\ Erred
     \/ /\ ~live /\ UNCHANGED faults
  /\ pc' = "idle" /\ lastWritten' = Choice
  /\ UNCHANGED <<keyboard, live, obj, call, moves, ghost>>

\* Mutant: an unanswered read means "unknown, so write anyway".
WriteBlind ==
  /\ pc \in {"read", "find", "ask"} /\ ~Checking
  /\ Silent \/ (pc = "read" /\ Erred)
  /\ call' = [call EXCEPT !.next = "write"] /\ pc' = "write"
  /\ UNCHANGED <<keyboard, live, obj, lastWritten, moves, ghost>>

\* Mutant: a host lookup that timed out falls back to 0xFF as well.
FallBackOnTimeout ==
  /\ pc \in {"read", "find", "ask"} /\ ~Checking
  /\ Silent \/ (pc = "read" /\ Erred)
  /\ pc' = IF pc = "read" THEN "idle" ELSE call.next
  /\ UNCHANGED <<keyboard, live, obj, call, lastWritten, moves, ghost>>

\* A read or a host lookup that fails fails the call.
CallFails ==
  /\ pc \in {"read", "find", "ask"} /\ ~Checking
  /\ Silent \/ (pc = "read" /\ Erred)
  /\ pc' = "idle"
  /\ UNCHANGED <<keyboard, live, obj, call, lastWritten, moves, ghost>>

\* So does a write that was not acknowledged, which may have been obeyed.
WriteFails ==
  /\ pc = "write" /\ pc' = "idle"
  /\ Silent \/ Erred
  /\ \/ kbd' = kbd
     \/ /\ Silent /\ here
        /\ kbd' = [platform |-> Choice, by |-> "software"]
  /\ UNCHANGED <<fixed, here, live, obj, call, lastWritten, moves, ghost>>

\* Mutant: a lost transport is one more failed call.
CallLostKept ==
  /\ pc \in {"find", "ask", "read", "write"} /\ ~Checking /\ ~live
  /\ pc' = "idle"
  /\ UNCHANGED <<keyboard, live, obj, call, lastWritten, bounds, ghost>>

\* TransportClosed: the agent drops the session.
CallLost ==
  /\ pc \in {"find", "ask", "read", "write"} /\ ~Checking /\ ~live
  /\ pc' = "closed"
  /\ UNCHANGED <<keyboard, live, obj, call, lastWritten, bounds, ghost>>

\* The agent's process is killed and started again: nothing of this is on disk.
Killed ==
  /\ Fault("kill")
  /\ pc' = "closed" /\ live' = FALSE
  /\ obj' = Fresh /\ call' = NoCall /\ lastWritten' = Unknown
  /\ UNCHANGED <<keyboard, moves, ghost>>

-----------------------------------------------------------------------------
(* The world *)

Move == moves < MaxMoves /\ moves' = moves + 1

\* Fn+O by hand, or firmware that returns to its default.
ByHand(record) ==
  /\ here /\ record.by # "software" /\ Move
  /\ kbd' = record
  /\ ghost' = [ghost EXCEPT !.clean = FALSE]
  /\ UNCHANGED <<fixed, here, live, pc, obj, call, lastWritten, faults>>

\* Another machine, or another program here.
OtherWrites(record) ==
  /\ here /\ record.by = "software" /\ Move
  /\ kbd' = record
  /\ ghost' = [ghost EXCEPT !.causes = @ + 1, !.clean = FALSE]
  /\ UNCHANGED <<fixed, here, live, pc, obj, call, lastWritten, faults>>

\* An Easy-Switch hop or a sleep, and the return, which may be for ever in coming.
Hop ==
  /\ IF here THEN Move ELSE UNCHANGED moves
  /\ here' = ~here
  /\ UNCHANGED <<fixed, kbd, live, pc, obj, call, lastWritten, faults, ghost>>

\* The receiver is pulled out and put back.
Replug ==
  /\ live /\ Move
  /\ live' = FALSE
  /\ UNCHANGED <<keyboard, pc, obj, call, lastWritten, faults, ghost>>

\* The agent is told that some device changed, and drops its sessions between two calls.
TearDown ==
  /\ pc = "idle" /\ Move
  /\ pc' = "closed" /\ live' = FALSE
  /\ UNCHANGED <<keyboard, obj, call, lastWritten, faults, ghost>>

-----------------------------------------------------------------------------
Probe == \/ OpenSession \/ FindMulti \/ GetInfos \/ GetDescriptor \/ MultiFails
         \/ FindDual \/ ProbeLost \/ Named

Ensure == \/ NoOption \/ StartCall \/ FindHosts \/ AskHost \/ ReadPlatform \/ WritePlatform
          \/ VerifyPlatform \/ Unconfirmed \/ CallFails \/ WriteFails
          \/ CallLost

World ==
  \/ Hop \/ Replug \/ TearDown
  \/ \E p \in Table, a \in Authors :
       LET record == [platform |-> p, by |-> a] IN ByHand(record) \/ OtherWrites(record)

\* With no keyboard here there is nothing to do.
Idle == pc = "closed" /\ ~here /\ UNCHANGED vars

Next == Probe \/ Ensure \/ Killed \/ World \/ Idle

Spec == Init /\ [][Next]_vars

\* The worker goes on opening sessions and calling, which its retries and its heartbeat
\* see to; it is Worker.tla that shows they do.
FairSpec == Spec /\ WF_vars(Probe \/ Ensure)

-----------------------------------------------------------------------------
(* Properties *)

TypeOK ==
  /\ fixed \in Keyboards
  /\ kbd \in Records /\ kbd.platform \in Table
  /\ here \in BOOLEAN /\ live \in BOOLEAN
  /\ pc \in {"closed", "multi", "infos", "descr", "dual", "name", "idle", "find", "ask",
             "read", "write", "check"}
  /\ obj \in [feature : {"none", "multi", "dual"}, hi : {"unasked", "absent", "present"},
              host : BOOLEAN, wrote : Platforms \cup {Unknown},
              seen : Records \cup {NoRecord}, foreign : Nat]
  /\ call \in [i : Nat \ {0}, next : {"read", "write", "check"}, byNumber : BOOLEAN]
  /\ lastWritten \in Platforms \cup {Unknown}
  /\ faults \in 0..MaxFaults /\ moves \in 0..MaxMoves
  /\ ghost \in [causes : Nat, clean : BOOLEAN, erred : BOOLEAN]

\* A write the keyboard acknowledged holds until somebody else changes the platform:
\* the code never makes a phantom write, one to a host the firmware mishandles, unless
\* the firmware answered the question for its host with an error (current_host, lines
\* 324-333). A timeout, a hop or a rebuilt session is no excuse.
WriteSticks == ghost.clean /\ obj.wrote # Unknown => kbd.platform = obj.wrote

\* A device object counts no more foreign writes than there were: writes of others, and
\* writes of ours that the keyboard acknowledged and did not obey. A record read twice,
\* our own write read back, one that was not acknowledged, Fn+O or a restart of the
\* agent add none (_note_host_record).
ForeignReal == obj.foreign <= ghost.causes

\* How far the call is, as Correction sees it.
Phase == IF Checking THEN "written"
         ELSE IF pc \notin {"find", "ask", "read", "write"} THEN "idle"
         ELSE IF pc = "write" \/ (pc # "read" /\ call.next = "write") THEN "differs"
         ELSE "looking"

\* ensure_os is a check-and-correct call as Correction promises it: it writes at most
\* once, the wanted platform, and only after it has read another one.
C == INSTANCE Correction WITH
  Platforms <- Platforms \cup {Unknown},
  platform  <- kbd.platform,
  want      <- Choice,
  phase     <- Phase
Corrects == C!Spec

\* A keyboard that can be driven and stays here ends up right, whatever was cached on the
\* way: a probe that timed out and left it unsupported, a host lookup that failed, a
\* session on a dead transport.
Recovers == <>[](\/ kbd.platform = Choice \/ ~here
                 \/ Choice = Unknown \/ fixed.kind = "none")
=============================================================================
