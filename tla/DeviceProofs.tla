---------------------------- MODULE DeviceProofs ----------------------------
(***************************************************************************)
(* What HidppDevice keeps for every keyboard, target, fault bound and move *)
(* bound: its types, that an acknowledged write holds, that the count of   *)
(* foreign writes is backed by causes, and that every call implements the  *)
(* check-and-correct call of Correction.                                   *)
(***************************************************************************)
EXTENDS Device, TLAPS

InCall == {"find", "ask", "read", "write", "check"}

\* A call is under way only for a target the table names, and a platform is written and
\* remembered only if it is the choice for it.
OwnChoice ==
  /\ pc \in InCall => Choice # Unknown
  /\ obj.wrote \in {Unknown, Choice}
  /\ lastWritten \in {Unknown, Choice}
  /\ Checking => obj.wrote # Unknown

\* Firmware with the 0xFF bug is addressed by number, unless it answered the question
\* for its host with an error.
AddressedRight ==
  fixed.quirk => /\ obj.hi # "absent"
                 /\ pc = "write" => call.byNumber \/ ghost.erred

CleanIsRight == ghost.clean => kbd.platform = Choice

\* The next record would be counted as a foreign write.
WouldCount(o, record) ==
  /\ record # o.seen /\ record.by = "software"
  /\ o.wrote # Unknown /\ record.platform # o.wrote

\* What was counted, and what the next read would count, was caused.
Backed ==
  /\ obj.foreign + (IF WouldCount(obj, kbd) THEN 1 ELSE 0) <= ghost.causes
  /\ (lastWritten # Unknown \/ obj.wrote # Unknown) /\ kbd.by = "software"
     /\ kbd.platform # Choice => ghost.causes >= 1
  /\ pc \in {"multi", "infos", "descr", "dual", "name"} =>
       obj.foreign = 0 /\ obj.wrote = Unknown

\* TypeOK in two parts: flags and records, and everything else.
Ghosts == [causes : Nat, clean : BOOLEAN, erred : BOOLEAN]
Calls == [i : Nat \ {0}, next : {"read", "write", "check"}, byNumber : BOOLEAN]
Objects == [feature : {"none", "multi", "dual"}, hi : {"unasked", "absent", "present"},
            host : BOOLEAN, wrote : Platforms \cup {Unknown},
            seen : Records \cup {NoRecord}, foreign : Nat]
RecordsOK == here \in BOOLEAN /\ live \in BOOLEAN
             /\ obj \in Objects /\ call \in Calls /\ ghost \in Ghosts

ScalarsOK ==
  /\ fixed \in Keyboards
  /\ kbd \in Records /\ kbd.platform \in Table
  /\ pc \in {"closed", "multi", "infos", "descr", "dual", "name", "idle", "find", "ask",
             "read", "write", "check"}
  /\ lastWritten \in Platforms \cup {Unknown}
  /\ faults \in 0..MaxFaults /\ moves \in 0..MaxMoves

DeviceInv == TypeOK /\ OwnChoice /\ AddressedRight /\ CleanIsRight /\ Backed

-----------------------------------------------------------------------------
(* The platform chosen *)

\* A set of platforms that is not empty has a first one.
LEMMA FirstExists ==
  ASSUME NEW M \in SUBSET (1..4), M # {}
  PROVE  \E i \in M : \A j \in M : i <= j
<1>1. CASE 1 \in M
  BY <1>1
<1>2. CASE 1 \notin M /\ 2 \in M
  BY <1>2
<1>3. CASE 1 \notin M /\ 2 \notin M /\ 3 \in M
  BY <1>3
<1>4. CASE 1 \notin M /\ 2 \notin M /\ 3 \notin M
  <2>1. PICK k \in M : TRUE
    OBVIOUS
  <2>2. \A j \in M : j \in 1..4 /\ j # 1 /\ j # 2 /\ j # 3
    BY <1>4
  <2>3. \A j \in M : j = 4
    BY <2>2
  <2> QED BY <2>1, <2>3
<1> QED BY <1>1, <1>2, <1>3, <1>4

\* option_for_os returns a platform of the table, or none.
LEMMA ChoiceType ==
  ASSUME fixed \in Keyboards
  PROVE  /\ Table \subseteq Platforms
         /\ Choice \in Platforms \cup {Unknown}
         /\ Choice # Unknown => Choice \in Table
<1>1. /\ fixed \in Setups /\ fixed.table \in Seq(SUBSET STRING)
      /\ Len(fixed.table) \in Nat /\ Len(fixed.table) <= 4
      /\ DOMAIN fixed.table = 1..Len(fixed.table)
  <2>1. fixed \in Setups /\ Len(fixed.table) <= 4
    BY DeviceAssumption
  <2>2. fixed.table \in Seq(SUBSET STRING)
    BY <2>1 DEF Setups
  <2> QED BY <2>1, <2>2
<1>2. Table \subseteq 1..4
  BY <1>1 DEF Table
<1>3. Matches \subseteq Table
  BY DEF Matches, Readable
<1>4. ASSUME Matches # {} PROVE Choice \in Matches
  <2>1. \E i \in Matches : \A j \in Matches : i <= j
    BY <1>2, <1>3, <1>4, FirstExists
  <2> QED BY <1>4, <2>1 DEF Choice
<1>5. CASE Matches = {}
  BY <1>2, <1>5 DEF Choice, Platforms, Unknown
<1>6. CASE Matches # {}
  BY <1>2, <1>3, <1>4, <1>6 DEF Platforms
<1> QED BY <1>5, <1>6

\* The choice depends on the keyboard and the configuration alone.
LEMMA ChoiceFixed ==
  ASSUME fixed' = fixed PROVE Choice' = Choice /\ Table' = Table
BY DEF Choice, Matches, Readable, Table

-----------------------------------------------------------------------------
(* The types *)

\* No step changes the keyboard's firmware or the configuration.
LEMMA Constant ==
  ASSUME [Next]_vars PROVE fixed' = fixed
BY DEF Next, Probe, Ensure, World, Idle, vars, keyboard, ByHand, OtherWrites,
       OpenSession, FindMulti, GetInfos, GetDescriptor, MultiFails, FindDual,
       ProbeLost, Named, NoOption, StartCall, FindHosts, AskHost, ReadPlatform,
       WritePlatform, VerifyPlatform, Unconfirmed, CallFails, WriteFails, CallLost,
       Killed, Hop, Replug, TearDown

\* What the steps below need of the types and the constants.
LEMMA Given ==
  ASSUME DeviceInv, [Next]_vars
  PROVE  /\ Table' = Table /\ Table \subseteq Platforms /\ fixed' = fixed
         /\ Choice' = Choice
         /\ Choice \in Platforms \cup {Unknown} /\ (Choice # Unknown => Choice \in Table)
         /\ Len(fixed.table) \in Int /\ MaxFaults \in Nat /\ MaxMoves \in Nat
         /\ RecordsOK /\ ScalarsOK /\ OwnChoice
BY Constant, ChoiceType, ChoiceFixed, DeviceAssumption
   DEF DeviceInv, TypeOK, Setups, RecordsOK, ScalarsOK, Objects, Calls, Ghosts

\* The updates of what the properties remember.
LEMMA GhostUpdate ==
  ASSUME NEW g \in Ghosts, NEW b \in BOOLEAN
  PROVE  /\ [g EXCEPT !.clean = b] \in Ghosts /\ [g EXCEPT !.erred = b] \in Ghosts
         /\ [g EXCEPT !.causes = @ + 1, !.clean = b] \in Ghosts
<1>1. ASSUME NEW c \in Nat PROVE [g EXCEPT !.causes = c, !.clean = b] \in Ghosts
  BY Zenon DEF Ghosts
<1>2. g.causes + 1 \in Nat
  <2>1. g.causes \in Nat
    BY DEF Ghosts
  <2> QED BY <2>1
<1> QED BY <1>1, <1>2, Zenon DEF Ghosts

\* Every step keeps the types of what is neither a flag nor a record.
LEMMA ScalarStep ==
  ASSUME DeviceInv, [Next]_vars
  PROVE  ScalarsOK'
<1> USE DEF ScalarsOK, OwnChoice, InCall, Records, Platforms, Unknown, keyboard, bounds
<1>0. /\ Table' = Table /\ Table \subseteq Platforms /\ fixed' = fixed
      /\ Choice \in Platforms \cup {Unknown} /\ (Choice # Unknown => Choice \in Table)
      /\ MaxFaults \in Nat /\ MaxMoves \in Nat /\ ScalarsOK /\ OwnChoice
      /\ call.next \in {"read", "write", "check"}
  BY Given DEF RecordsOK, Calls
<1>1. CASE OpenSession
  BY <1>0, <1>1 DEF OpenSession, Fresh, NoCall
<1>2. CASE FindMulti
  BY <1>0, <1>2 DEF FindMulti, Answered
<1>3. CASE GetInfos
  BY <1>0, <1>3 DEF GetInfos, Answered
<1>4. CASE GetDescriptor
  BY <1>0, <1>4 DEF GetDescriptor, Answered
<1>5. CASE MultiFails
  BY <1>0, <1>5 DEF MultiFails, Silent, Erred, Fault
<1>6. CASE FindDual
  BY <1>0, <1>6 DEF FindDual, Answered, Silent, Erred, Fault
<1>7. CASE ProbeLost
  BY <1>0, <1>7 DEF ProbeLost
<1>8. CASE Named
  BY <1>0, <1>8 DEF Named
<1>9. CASE NoOption
  BY <1>0, <1>9 DEF NoOption, vars
<1>10. CASE StartCall
  BY <1>0, <1>10 DEF StartCall, Address, HostKnown
<1>11. CASE FindHosts
  BY <1>0, <1>11 DEF FindHosts, Answered, Erred, Fault
<1>12. CASE AskHost
  BY <1>0, <1>12 DEF AskHost, Answered, Erred, Fault
<1>13. CASE ReadPlatform
  BY <1>0, <1>13 DEF ReadPlatform, Address, HostKnown, Read, Noted, Answered
<1>14. CASE WritePlatform
  BY <1>0, <1>14 DEF WritePlatform, Address, HostKnown, Fault, Authors
<1>15. CASE VerifyPlatform
  BY <1>0, <1>15 DEF VerifyPlatform, Read, Noted, Answered
<1>16. CASE Unconfirmed
  BY <1>0, <1>16 DEF Unconfirmed, Silent, Erred, Fault
<1>17. CASE CallFails
  BY <1>0, <1>17 DEF CallFails, Silent, Erred, Fault
<1>18. CASE WriteFails
  BY <1>0, <1>18 DEF WriteFails, Silent, Erred, Fault, Authors
<1>19. CASE CallLost
  BY <1>0, <1>19 DEF CallLost
<1>20. CASE Killed
  BY <1>0, <1>20 DEF Killed, Fault, Fresh, NoCall
<1>21. CASE Hop
  BY <1>0, <1>21 DEF Hop, Move
<1>22. CASE Replug
  BY <1>0, <1>22 DEF Replug, Move
<1>23. CASE TearDown
  BY <1>0, <1>23 DEF TearDown, Move
<1>24. ASSUME NEW p \in Table, NEW a \in Authors,
            ByHand([platform |-> p, by |-> a])
     PROVE  ScalarsOK'
  BY <1>0, <1>24 DEF ByHand, Move, Authors
<1>25. ASSUME NEW p \in Table, NEW a \in Authors,
            OtherWrites([platform |-> p, by |-> a])
     PROVE  ScalarsOK'
  BY <1>0, <1>25 DEF OtherWrites, Move, Authors
<1>26. CASE Idle \/ UNCHANGED vars
  BY <1>0, <1>26 DEF Idle, vars
<1> QED
  BY <1>1, <1>2, <1>3, <1>4, <1>5, <1>6, <1>7, <1>8, <1>9, <1>10, <1>11, <1>12, <1>13,
     <1>14, <1>15, <1>16, <1>17, <1>18, <1>19, <1>20, <1>21, <1>22, <1>23, <1>24,
     <1>25, <1>26 DEF Next, Probe, Ensure, World

\* _note_host_record leaves a device object of the same type.
LEMMA NotedType ==
  ASSUME NEW o \in Objects, NEW r \in Records PROVE Noted(o, r) \in Objects
<1>1. ASSUME NEW n \in Nat PROVE [o EXCEPT !.seen = r, !.foreign = n] \in Objects
  BY Zenon DEF Objects
<1>2. o.foreign \in Nat /\ o.foreign + 1 \in Nat
  <2>1. o.foreign \in Nat
    BY DEF Objects
  <2> QED BY <2>1
<1> QED BY <1>1, <1>2, Zenon DEF Noted

\* The updates of the other two records.
LEMMA RecordUpdate ==
  /\ Fresh \in Objects /\ NoCall \in Calls
  /\ \A o \in Objects :
       /\ \A f \in {"none", "multi", "dual"} : [o EXCEPT !.feature = f] \in Objects
       /\ \A h \in {"unasked", "absent", "present"} : [o EXCEPT !.hi = h] \in Objects
       /\ \A b \in BOOLEAN : [o EXCEPT !.host = b] \in Objects
       /\ \A w \in Platforms \cup {Unknown} : [o EXCEPT !.wrote = w] \in Objects
  /\ \A c \in Calls, b \in BOOLEAN :
       /\ [c EXCEPT !.i = @ + 1] \in Calls
       /\ [c EXCEPT !.byNumber = b] \in Calls
       /\ \A n \in {"read", "write", "check"} : [c EXCEPT !.next = n, !.byNumber = b] \in Calls
<1>1. Fresh \in Objects
  <2>1. 0 \in Nat
    OBVIOUS
  <2> QED BY <2>1, Zenon DEF Fresh, Objects
<1>2. NoCall \in Calls
  <2>1. 1 \in Nat \ {0}
    OBVIOUS
  <2> QED BY <2>1, Zenon DEF NoCall, Calls
<1>3. \A c \in Calls : [c EXCEPT !.i = @ + 1] \in Calls
  <2>1. TAKE c \in Calls
  <2>2. c.i + 1 \in Nat \ {0}
    <3>1. c.i \in Nat
      BY DEF Calls
    <3> QED BY <3>1
  <2> QED BY <2>2, Zenon DEF Calls
<1>4. \A o \in Objects :
       /\ \A f \in {"none", "multi", "dual"} : [o EXCEPT !.feature = f] \in Objects
       /\ \A h \in {"unasked", "absent", "present"} : [o EXCEPT !.hi = h] \in Objects
       /\ \A b \in BOOLEAN : [o EXCEPT !.host = b] \in Objects
       /\ \A w \in Platforms \cup {Unknown} : [o EXCEPT !.wrote = w] \in Objects
  BY Zenon DEF Objects
<1>5. \A c \in Calls, b \in BOOLEAN :
       /\ [c EXCEPT !.byNumber = b] \in Calls
       /\ \A n \in {"read", "write", "check"} : [c EXCEPT !.next = n, !.byNumber = b] \in Calls
  BY Zenon DEF Calls
<1> QED BY <1>1, <1>2, <1>3, <1>4, <1>5

\* Every step keeps the types of the flags and the records.
LEMMA RecordStep ==
  ASSUME DeviceInv, [Next]_vars
  PROVE  RecordsOK'
<1> USE DEF RecordsOK, keyboard, bounds
<1>0. /\ here \in BOOLEAN /\ live \in BOOLEAN
      /\ obj \in Objects /\ call \in Calls /\ ghost \in Ghosts
      /\ kbd \in Records /\ Choice \in Platforms \cup {Unknown}
      /\ lastWritten \in Platforms \cup {Unknown}
      /\ HostKnown \in BOOLEAN /\ Read(obj) \in Objects
  BY Given, NotedType DEF RecordsOK, ScalarsOK, HostKnown, Read
<1>1. CASE OpenSession
  BY <1>0, <1>1, RecordUpdate, GhostUpdate, Zenon DEF OpenSession
<1>2. CASE FindMulti
  BY <1>0, <1>2, RecordUpdate, GhostUpdate, Zenon DEF FindMulti, Answered
<1>3. CASE GetInfos
  BY <1>0, <1>3, RecordUpdate, GhostUpdate, Zenon DEF GetInfos, Answered
<1>4. CASE GetDescriptor
  BY <1>0, <1>4, RecordUpdate, GhostUpdate, Zenon DEF GetDescriptor, Answered
<1>5. CASE MultiFails
  BY <1>0, <1>5, RecordUpdate, GhostUpdate, Zenon DEF MultiFails, Silent, Erred, Fault
<1>6. CASE FindDual
  BY <1>0, <1>6, RecordUpdate, GhostUpdate, Zenon DEF FindDual, Answered, Silent, Erred, Fault
<1>7. CASE ProbeLost
  BY <1>0, <1>7, RecordUpdate, GhostUpdate, Zenon DEF ProbeLost
<1>8. CASE Named
  BY <1>0, <1>8, RecordUpdate, GhostUpdate, Zenon DEF Named
<1>9. CASE NoOption
  BY <1>0, <1>9, RecordUpdate, GhostUpdate, Zenon DEF NoOption, vars
<1>10. CASE StartCall
  BY <1>0, <1>10, RecordUpdate, GhostUpdate, Zenon DEF StartCall, Address
<1>11. CASE FindHosts
  BY <1>0, <1>11, RecordUpdate, GhostUpdate, Zenon DEF FindHosts, Answered, Erred, Fault
<1>12. CASE AskHost
  BY <1>0, <1>12, RecordUpdate, GhostUpdate, Zenon DEF AskHost, Answered, Erred, Fault
<1>13. CASE ReadPlatform
  BY <1>0, <1>13, RecordUpdate, GhostUpdate, Zenon DEF ReadPlatform, Address, Answered
<1>14. CASE WritePlatform
  BY <1>0, <1>14, RecordUpdate, GhostUpdate, Zenon DEF WritePlatform, Address, Fault
<1>15. CASE VerifyPlatform
  BY <1>0, <1>15, RecordUpdate, GhostUpdate, Zenon DEF VerifyPlatform, Answered
<1>16. CASE Unconfirmed
  BY <1>0, <1>16, RecordUpdate, GhostUpdate, Zenon DEF Unconfirmed, Silent, Erred, Fault
<1>17. CASE CallFails
  BY <1>0, <1>17, RecordUpdate, GhostUpdate, Zenon DEF CallFails, Silent, Erred, Fault
<1>18. CASE WriteFails
  BY <1>0, <1>18, RecordUpdate, GhostUpdate, Zenon DEF WriteFails, Silent, Erred, Fault
<1>19. CASE CallLost
  BY <1>0, <1>19, RecordUpdate, GhostUpdate, Zenon DEF CallLost
<1>20. CASE Killed
  BY <1>0, <1>20, RecordUpdate, GhostUpdate, Zenon DEF Killed, Fault
<1>21. CASE Hop
  BY <1>0, <1>21, RecordUpdate, GhostUpdate, Zenon DEF Hop, Move
<1>22. CASE Replug
  BY <1>0, <1>22, RecordUpdate, GhostUpdate, Zenon DEF Replug, Move
<1>23. CASE TearDown
  BY <1>0, <1>23, RecordUpdate, GhostUpdate, Zenon DEF TearDown, Move
<1>24. ASSUME NEW p \in Table, NEW a \in Authors,
            ByHand([platform |-> p, by |-> a])
     PROVE  RecordsOK'
  BY <1>0, <1>24, RecordUpdate, GhostUpdate, Zenon DEF ByHand, Move, Authors
<1>25. ASSUME NEW p \in Table, NEW a \in Authors,
            OtherWrites([platform |-> p, by |-> a])
     PROVE  RecordsOK'
  BY <1>0, <1>25, RecordUpdate, GhostUpdate, Zenon DEF OtherWrites, Move, Authors
<1>26. CASE Idle \/ UNCHANGED vars
  BY <1>0, <1>26, RecordUpdate, GhostUpdate, Zenon DEF Idle, vars
<1> QED
  BY <1>1, <1>2, <1>3, <1>4, <1>5, <1>6, <1>7, <1>8, <1>9, <1>10, <1>11, <1>12, <1>13,
     <1>14, <1>15, <1>16, <1>17, <1>18, <1>19, <1>20, <1>21, <1>22, <1>23, <1>24,
     <1>25, <1>26 DEF Next, Probe, Ensure, World

-----------------------------------------------------------------------------
(* The invariant *)

\* Every step keeps to the choice.
LEMMA OwnChoiceStep ==
  ASSUME DeviceInv, [Next]_vars
  PROVE  OwnChoice'
<1> USE DEF OwnChoice, InCall, Checking, Objects, Calls, Unknown, keyboard, bounds
<1>0. /\ Choice' = Choice /\ fixed' = fixed /\ OwnChoice
      /\ obj \in Objects /\ call \in Calls
      /\ Checking \in BOOLEAN /\ Checking' \in BOOLEAN
  BY Given DEF RecordsOK, Checking
<1>1. CASE OpenSession
  BY <1>0, <1>1 DEF OpenSession, Fresh, NoCall
<1>2. CASE GetDescriptor
  BY <1>0, <1>2 DEF GetDescriptor, Answered
<1>3. CASE FindDual
  BY <1>0, <1>3 DEF FindDual, Answered, Silent, Erred, Fault
<1>4. CASE Named
  BY <1>0, <1>4 DEF Named
<1>5. CASE StartCall
  BY <1>0, <1>5 DEF StartCall, Address, HostKnown
<1>6. CASE FindHosts
  BY <1>0, <1>6 DEF FindHosts, Answered, Erred, Fault
<1>7. CASE AskHost
  BY <1>0, <1>7 DEF AskHost, Answered, Erred, Fault
<1>8. CASE ReadPlatform
  BY <1>0, <1>8 DEF ReadPlatform, Address, HostKnown, Read, Noted, Answered
<1>9. CASE WritePlatform
  BY <1>0, <1>9 DEF WritePlatform, Address, HostKnown, Fault
<1>10. CASE VerifyPlatform
  BY <1>0, <1>10 DEF VerifyPlatform, Read, Noted, Answered
<1>11. CASE Unconfirmed
  BY <1>0, <1>11 DEF Unconfirmed, Silent, Erred, Fault
<1>12. CASE WriteFails
  BY <1>0, <1>12 DEF WriteFails, Silent, Erred, Fault
<1>13. CASE Killed
  BY <1>0, <1>13 DEF Killed, Fault, Fresh, NoCall
<1>14. ASSUME NEW p \in Table, NEW a \in Authors,
            ByHand([platform |-> p, by |-> a])
     PROVE  OwnChoice'
  BY <1>0, <1>14 DEF ByHand, Move, Authors
<1>15. ASSUME NEW p \in Table, NEW a \in Authors,
            OtherWrites([platform |-> p, by |-> a])
     PROVE  OwnChoice'
  BY <1>0, <1>15 DEF OtherWrites, Move, Authors
<1>16. CASE FindMulti \/ GetInfos \/ MultiFails \/ ProbeLost \/ NoOption \/ CallFails
            \/ CallLost \/ Hop \/ Replug \/ TearDown
  BY <1>0, <1>16 DEF FindMulti, Answered, GetInfos, MultiFails, Silent, Erred, Fault,
     ProbeLost, NoOption, vars, CallFails, CallLost, Hop, Move, Replug, TearDown
<1>17. CASE Idle \/ UNCHANGED vars
  BY <1>0, <1>17 DEF Idle, vars
<1> QED
  BY <1>1, <1>2, <1>3, <1>4, <1>5, <1>6, <1>7, <1>8, <1>9, <1>10, <1>11, <1>12, <1>13,
     <1>14, <1>15, <1>16, <1>17 DEF Next, Probe, Ensure, World

\* Every step keeps the addressing right.
LEMMA AddressedStep ==
  ASSUME DeviceInv, [Next]_vars
  PROVE  AddressedRight'
<1> USE DEF AddressedRight, Objects, Calls, Ghosts, keyboard, bounds
<1>0. /\ fixed' = fixed /\ AddressedRight /\ (fixed.quirk => fixed.hosts = "full")
      /\ obj \in Objects /\ call \in Calls /\ ghost \in Ghosts
  BY Given, DeviceAssumption DEF RecordsOK, ScalarsOK, DeviceInv
<1>1. CASE OpenSession
  BY <1>0, <1>1 DEF OpenSession, Fresh, NoCall
<1>2. CASE GetDescriptor
  BY <1>0, <1>2 DEF GetDescriptor, Answered
<1>3. CASE FindDual
  BY <1>0, <1>3 DEF FindDual, Answered, Silent, Erred, Fault
<1>4. CASE Named
  BY <1>0, <1>4 DEF Named
<1>5. CASE StartCall
  BY <1>0, <1>5 DEF StartCall, Address, HostKnown
<1>6. CASE FindHosts
  BY <1>0, <1>6 DEF FindHosts, Answered, Erred, Fault
<1>7. CASE AskHost
  BY <1>0, <1>7 DEF AskHost, Answered, Erred, Fault
<1>8. CASE ReadPlatform
  BY <1>0, <1>8 DEF ReadPlatform, Address, HostKnown, Read, Noted, Answered
<1>9. CASE WritePlatform
  BY <1>0, <1>9 DEF WritePlatform, Address, HostKnown, Fault
<1>10. CASE VerifyPlatform
  BY <1>0, <1>10 DEF VerifyPlatform, Read, Noted, Answered
<1>11. CASE Unconfirmed
  BY <1>0, <1>11 DEF Unconfirmed, Silent, Erred, Fault
<1>12. CASE WriteFails
  BY <1>0, <1>12 DEF WriteFails, Silent, Erred, Fault
<1>13. CASE Killed
  BY <1>0, <1>13 DEF Killed, Fault, Fresh, NoCall
<1>14. ASSUME NEW p \in Table, NEW a \in Authors,
            ByHand([platform |-> p, by |-> a])
     PROVE  AddressedRight'
  BY <1>0, <1>14 DEF ByHand, Move, Authors
<1>15. ASSUME NEW p \in Table, NEW a \in Authors,
            OtherWrites([platform |-> p, by |-> a])
     PROVE  AddressedRight'
  BY <1>0, <1>15 DEF OtherWrites, Move, Authors
<1>16. CASE FindMulti \/ GetInfos \/ MultiFails \/ ProbeLost \/ NoOption \/ CallFails
            \/ CallLost \/ Hop \/ Replug \/ TearDown
  BY <1>0, <1>16 DEF FindMulti, Answered, GetInfos, MultiFails, Silent, Erred, Fault,
     ProbeLost, NoOption, vars, CallFails, CallLost, Hop, Move, Replug, TearDown
<1>17. CASE Idle \/ UNCHANGED vars
  BY <1>0, <1>17 DEF Idle, vars
<1> QED
  BY <1>1, <1>2, <1>3, <1>4, <1>5, <1>6, <1>7, <1>8, <1>9, <1>10, <1>11, <1>12, <1>13,
     <1>14, <1>15, <1>16, <1>17 DEF Next, Probe, Ensure, World

\* Every step keeps a write that nothing spoilt.
LEMMA CleanStep ==
  ASSUME DeviceInv, [Next]_vars
  PROVE  CleanIsRight'
<1> USE DEF CleanIsRight, AddressedRight, Records, Ghosts, keyboard, bounds
<1>0. /\ Choice' = Choice /\ fixed' = fixed /\ CleanIsRight /\ AddressedRight
      /\ kbd \in Records /\ ghost \in Ghosts
  BY Given DEF RecordsOK, ScalarsOK, DeviceInv
<1>1. CASE OpenSession
  BY <1>0, <1>1 DEF OpenSession, Fresh, NoCall
<1>2. CASE GetDescriptor
  BY <1>0, <1>2 DEF GetDescriptor, Answered
<1>3. CASE FindDual
  BY <1>0, <1>3 DEF FindDual, Answered, Silent, Erred, Fault
<1>4. CASE Named
  BY <1>0, <1>4 DEF Named
<1>5. CASE StartCall
  BY <1>0, <1>5 DEF StartCall, Address, HostKnown
<1>6. CASE FindHosts
  BY <1>0, <1>6 DEF FindHosts, Answered, Erred, Fault
<1>7. CASE AskHost
  BY <1>0, <1>7 DEF AskHost, Answered, Erred, Fault
<1>8. CASE ReadPlatform
  BY <1>0, <1>8 DEF ReadPlatform, Address, HostKnown, Read, Noted, Answered
<1>9. CASE WritePlatform
  <2>1. CASE kbd' = [platform |-> Choice, by |-> "software"]
    BY <1>0, <2>1
  <2>2. CASE ghost' = [ghost EXCEPT !.causes = @ + 1, !.clean = FALSE]
    <3>1. ~ghost'.clean
      BY <1>0, <2>2, Zenon
    <3> QED BY <3>1
  <2>3. CASE /\ fixed.quirk /\ ~call.byNumber
             /\ ghost' = [ghost EXCEPT !.causes = @ + 1, !.clean = ~ghost.erred]
    <3>1. ghost.erred
      BY <1>0, <1>9, <2>3 DEF WritePlatform
    <3>2. ~ghost'.clean
      BY <1>0, <2>3, <3>1, Zenon
    <3> QED BY <3>2
  <2>4. \/ kbd' = [platform |-> Choice, by |-> "software"]
        \/ ghost' = [ghost EXCEPT !.causes = @ + 1, !.clean = FALSE]
        \/ /\ fixed.quirk /\ ~call.byNumber
           /\ ghost' = [ghost EXCEPT !.causes = @ + 1, !.clean = ~ghost.erred]
    BY <1>9, Zenon DEF WritePlatform
  <2> QED BY <2>1, <2>2, <2>3, <2>4
<1>10. CASE VerifyPlatform
  BY <1>0, <1>10 DEF VerifyPlatform, Read, Noted, Answered
<1>11. CASE Unconfirmed
  BY <1>0, <1>11 DEF Unconfirmed, Silent, Erred, Fault
<1>12. CASE WriteFails
  BY <1>0, <1>12 DEF WriteFails, Silent, Erred, Fault
<1>13. CASE Killed
  BY <1>0, <1>13 DEF Killed, Fault, Fresh, NoCall
<1>14. ASSUME NEW p \in Table, NEW a \in Authors,
            ByHand([platform |-> p, by |-> a])
     PROVE  CleanIsRight'
  BY <1>0, <1>14 DEF ByHand, Move, Authors
<1>15. ASSUME NEW p \in Table, NEW a \in Authors,
            OtherWrites([platform |-> p, by |-> a])
     PROVE  CleanIsRight'
  BY <1>0, <1>15 DEF OtherWrites, Move, Authors
<1>16. CASE FindMulti \/ GetInfos \/ MultiFails \/ ProbeLost \/ NoOption \/ CallFails
            \/ CallLost \/ Hop \/ Replug \/ TearDown
  BY <1>0, <1>16 DEF FindMulti, Answered, GetInfos, MultiFails, Silent, Erred, Fault,
     ProbeLost, NoOption, vars, CallFails, CallLost, Hop, Move, Replug, TearDown
<1>17. CASE Idle \/ UNCHANGED vars
  BY <1>0, <1>17 DEF Idle, vars
<1> QED
  BY <1>1, <1>2, <1>3, <1>4, <1>5, <1>6, <1>7, <1>8, <1>9, <1>10, <1>11, <1>12, <1>13,
     <1>14, <1>15, <1>16, <1>17 DEF Next, Probe, Ensure, World

\* Every step keeps the count of foreign writes backed by causes.
LEMMA BackedStep ==
  ASSUME DeviceInv, [Next]_vars
  PROVE  Backed'
<1> USE DEF Backed, WouldCount, OwnChoice, Objects, Unknown, keyboard, bounds
<1>0. /\ Choice' = Choice /\ fixed' = fixed /\ Backed /\ OwnChoice
      /\ obj \in Objects /\ ghost.causes \in Nat /\ kbd \in Records /\ ghost \in Ghosts
  BY Given DEF RecordsOK, ScalarsOK, DeviceInv, Ghosts
<1>1. CASE OpenSession
  BY <1>0, <1>1 DEF OpenSession, Fresh, NoCall
<1>2. CASE GetDescriptor
  BY <1>0, <1>2 DEF GetDescriptor, Answered
<1>3. CASE FindDual
  BY <1>0, <1>3 DEF FindDual, Answered, Silent, Erred, Fault
<1>4. CASE Named
  BY <1>0, <1>4 DEF Named
<1>5. CASE StartCall
  BY <1>0, <1>5 DEF StartCall, Address, HostKnown
<1>6. CASE FindHosts
  <2>1. ghost'.causes = ghost.causes
    BY <1>0, <1>6, Zenon DEF FindHosts, Ghosts
  <2>2. /\ obj'.foreign = obj.foreign /\ obj'.wrote = obj.wrote /\ obj'.seen = obj.seen
    BY <1>0, <1>6, Zenon DEF FindHosts
  <2>3. kbd' = kbd /\ lastWritten' = lastWritten
    BY <1>6 DEF FindHosts
  <2>4. pc' \notin {"multi", "infos", "descr", "dual", "name"}
    <3>1. call.next \in {"read", "write", "check"}
      BY Given DEF RecordsOK, Calls
    <3>2. pc' = call.next \/ pc' = "ask"
      BY <1>6, Zenon DEF FindHosts
    <3> QED BY <3>1, <3>2
  <2> QED BY <1>0, <2>1, <2>2, <2>3, <2>4
<1>7. CASE AskHost
  <2>1. ghost'.causes = ghost.causes
    BY <1>0, <1>7, Zenon DEF AskHost, Ghosts
  <2>2. /\ obj'.foreign = obj.foreign /\ obj'.wrote = obj.wrote /\ obj'.seen = obj.seen
    BY <1>0, <1>7, Zenon DEF AskHost
  <2>3. kbd' = kbd /\ lastWritten' = lastWritten
    BY <1>7 DEF AskHost
  <2>4. pc' \notin {"multi", "infos", "descr", "dual", "name"}
    <3>1. call.next \in {"read", "write", "check"}
      BY Given DEF RecordsOK, Calls
    <3>2. pc' = call.next \/ pc' = "ask"
      BY <1>7, Zenon DEF AskHost
    <3> QED BY <3>1, <3>2
  <2> QED BY <1>0, <2>1, <2>2, <2>3, <2>4
<1>8. CASE ReadPlatform
  <2>1. ghost'.causes = ghost.causes
    BY <1>0, <1>8, Zenon DEF ReadPlatform, Ghosts
  <2>2. kbd' = kbd /\ lastWritten' = lastWritten /\ obj' = Read(obj)
    BY <1>8 DEF ReadPlatform
  <2>3. pc' \notin {"multi", "infos", "descr", "dual", "name"}
    BY <1>8 DEF ReadPlatform, Address
  <2> QED BY <1>0, <2>1, <2>2, <2>3 DEF Read, Noted
<1>9. CASE WritePlatform
  <2>1. \/ kbd' = [platform |-> Choice, by |-> "software"] /\ ghost'.causes = ghost.causes
        \/ kbd' = kbd /\ ghost'.causes = ghost.causes + 1
    BY <1>0, <1>9, Zenon DEF WritePlatform, Ghosts
  <2>2. /\ obj' = [obj EXCEPT !.wrote = Choice] /\ lastWritten' = lastWritten
        /\ pc' \notin {"multi", "infos", "descr", "dual", "name"}
    BY <1>9 DEF WritePlatform, Address
  <2> QED BY <1>0, <2>1, <2>2
<1>10. CASE VerifyPlatform
  <2>1. ghost' = ghost /\ kbd' = kbd /\ obj' = Read(obj) /\ lastWritten' = Choice
    BY <1>10 DEF VerifyPlatform
  <2>2. pc' = "idle" /\ obj.wrote # Unknown
    BY <1>0, <1>10 DEF VerifyPlatform, Checking
  <2> QED BY <1>0, <2>1, <2>2 DEF Read, Noted
<1>11. CASE Unconfirmed
  BY <1>0, <1>11 DEF Unconfirmed, Silent, Erred, Fault
<1>12. CASE WriteFails
  BY <1>0, <1>12 DEF WriteFails, Silent, Erred, Fault
<1>13. CASE Killed
  BY <1>0, <1>13 DEF Killed, Fault, Fresh, NoCall
<1>14. ASSUME NEW p \in Table, NEW a \in Authors,
            ByHand([platform |-> p, by |-> a])
     PROVE  Backed'
  BY <1>0, <1>14 DEF ByHand, Move, Authors
<1>15. ASSUME NEW p \in Table, NEW a \in Authors,
            OtherWrites([platform |-> p, by |-> a])
     PROVE  Backed'
  BY <1>0, <1>15 DEF OtherWrites, Move, Authors
<1>16. CASE FindMulti \/ GetInfos \/ MultiFails \/ ProbeLost \/ NoOption \/ CallFails
            \/ CallLost \/ Hop \/ Replug \/ TearDown
  BY <1>0, <1>16 DEF FindMulti, Answered, GetInfos, MultiFails, Silent, Erred, Fault,
     ProbeLost, NoOption, vars, CallFails, CallLost, Hop, Move, Replug, TearDown
<1>17. CASE Idle \/ UNCHANGED vars
  BY <1>0, <1>17 DEF Idle, vars
<1> QED
  BY <1>1, <1>2, <1>3, <1>4, <1>5, <1>6, <1>7, <1>8, <1>9, <1>10, <1>11, <1>12, <1>13,
     <1>14, <1>15, <1>16, <1>17 DEF Next, Probe, Ensure, World
\* DeviceInv holds at first.
LEMMA InvInit == Init => DeviceInv
<1> SUFFICES ASSUME Init PROVE DeviceInv
  OBVIOUS
<1>1. /\ Table \subseteq Platforms /\ Choice \in Platforms \cup {Unknown}
      /\ MaxFaults \in Nat /\ MaxMoves \in Nat
  BY ChoiceType, DeviceAssumption DEF Init
<1>2. obj \in Objects /\ call \in Calls /\ ghost \in Ghosts
  <2>1. ghost \in Ghosts
    <3>1. 0 \in Nat
      OBVIOUS
    <3> QED BY <3>1, Zenon DEF Init, Ghosts
  <2> QED BY <2>1, RecordUpdate DEF Init
<1>3. TypeOK
  <2>1. ScalarsOK
    BY <1>1 DEF Init, ScalarsOK, Table, Unknown
  <2>2. here \in BOOLEAN /\ live \in BOOLEAN
    BY Zenon DEF Init
  <2> QED BY <1>2, <2>1, <2>2 DEF ScalarsOK, TypeOK, Objects, Calls, Ghosts
<1>4. OwnChoice /\ AddressedRight /\ CleanIsRight
  BY DEF Init, OwnChoice, InCall, Checking, AddressedRight, CleanIsRight, Fresh
<1>5. Backed
  BY DEF Init, Backed, WouldCount, Fresh
<1> QED BY <1>3, <1>4, <1>5 DEF DeviceInv

\* DeviceInv is inductive.
LEMMA InvStep == DeviceInv /\ [Next]_vars => DeviceInv'
<1> SUFFICES ASSUME DeviceInv, [Next]_vars PROVE DeviceInv'
  OBVIOUS
<1>1. TypeOK'
  BY ScalarStep, RecordStep DEF TypeOK, ScalarsOK, RecordsOK, Objects, Calls, Ghosts
<1> QED BY <1>1, OwnChoiceStep, AddressedStep, CleanStep, BackedStep DEF DeviceInv

\* HidppDevice keeps its invariant, whatever the keyboard and however many faults.
THEOREM InvCorrect == Spec => []DeviceInv
BY InvInit, InvStep, PTL DEF Spec

\* The device object, the call and the session keep their types.
THEOREM TypeCorrect == Spec => []TypeOK
BY InvCorrect, PTL DEF DeviceInv

\* A write the keyboard acknowledged holds until somebody else changes the platform.
THEOREM WritesStick == Spec => []WriteSticks
<1>1. DeviceInv => WriteSticks
  BY DEF DeviceInv, OwnChoice, CleanIsRight, WriteSticks, Unknown
<1> QED BY <1>1, InvCorrect, PTL

\* A device object never counts a foreign write that nobody and nothing caused.
THEOREM ForeignBacked == Spec => []ForeignReal
<1>1. DeviceInv => ForeignReal
  <2> SUFFICES ASSUME DeviceInv PROVE ForeignReal
    OBVIOUS
  <2>1. obj.foreign \in Nat /\ ghost.causes \in Nat
    BY DEF DeviceInv, TypeOK
  <2> QED BY <2>1 DEF DeviceInv, Backed, ForeignReal
<1> QED BY <1>1, InvCorrect, PTL
-----------------------------------------------------------------------------
(* ensure_os implements Correction *)

\* A step as Correction sees it, kbd.platform, Choice and Phase being all it sees.
Mapped ==
  LET same == kbd'.platform = kbd.platform
      own == kbd'.platform \in {kbd.platform, Choice}
  IN  \/ Phase' = Phase
      \/ Phase = "idle" /\ Phase' = "looking" /\ same
      \/ Phase = "looking" /\ Phase' = "differs" /\ kbd.platform # Choice /\ same
      \/ Phase = "differs" /\ Phase' = "written" /\ own
      \/ Phase = "differs" /\ Phase' = "idle" /\ own
      \/ Phase # "idle" /\ Phase' = "idle" /\ same

\* Such a step is one Correction allows.
LEMMA MappedAllowed ==
  ASSUME DeviceInv, DeviceInv', Choice' = Choice, Mapped
  PROVE  [C!Next]_(C!cvars)
<1>1. kbd'.platform \in Platforms \cup {Unknown}
  BY DEF DeviceInv, TypeOK, Records
<1> QED
  BY <1>1 DEF Mapped, C!Next, C!cvars, C!Begin, C!Look, C!Write, C!WriteLost,
              C!Check, C!Fail, C!World

\* Every step of the code is a step of the call, of the world, or none.
LEMMA StepMapped ==
  ASSUME DeviceInv, [Next]_vars
  PROVE  Mapped
<1> USE DEF Mapped, Phase, Checking, OwnChoice, InCall, Calls, Records, keyboard, bounds
<1>0. /\ Choice' = Choice /\ fixed' = fixed /\ OwnChoice
      /\ call \in Calls /\ kbd \in Records
  BY Given DEF RecordsOK, ScalarsOK
<1>1. CASE OpenSession
  BY <1>0, <1>1 DEF OpenSession, Fresh, NoCall
<1>2. CASE GetDescriptor
  BY <1>0, <1>2 DEF GetDescriptor, Answered
<1>3. CASE FindDual
  BY <1>0, <1>3 DEF FindDual, Answered, Silent, Erred, Fault
<1>4. CASE Named
  BY <1>0, <1>4 DEF Named
<1>5. CASE StartCall
  BY <1>0, <1>5 DEF StartCall, Address, HostKnown
<1>6. CASE FindHosts
  BY <1>0, <1>6 DEF FindHosts, Answered, Erred, Fault
<1>7. CASE AskHost
  BY <1>0, <1>7 DEF AskHost, Answered, Erred, Fault
<1>8. CASE ReadPlatform
  BY <1>0, <1>8 DEF ReadPlatform, Address, HostKnown, Read, Noted, Answered
<1>9. CASE WritePlatform
  BY <1>0, <1>9 DEF WritePlatform, Address, HostKnown, Fault
<1>10. CASE VerifyPlatform
  BY <1>0, <1>10 DEF VerifyPlatform, Read, Noted, Answered
<1>11. CASE Unconfirmed
  BY <1>0, <1>11 DEF Unconfirmed, Silent, Erred, Fault
<1>12. CASE WriteFails
  BY <1>0, <1>12 DEF WriteFails, Silent, Erred, Fault
<1>13. CASE Killed
  BY <1>0, <1>13 DEF Killed, Fault, Fresh, NoCall
<1>14. ASSUME NEW p \in Table, NEW a \in Authors,
            ByHand([platform |-> p, by |-> a])
     PROVE  Mapped
  BY <1>0, <1>14 DEF ByHand, Move, Authors
<1>15. ASSUME NEW p \in Table, NEW a \in Authors,
            OtherWrites([platform |-> p, by |-> a])
     PROVE  Mapped
  BY <1>0, <1>15 DEF OtherWrites, Move, Authors
<1>16. CASE FindMulti \/ GetInfos \/ MultiFails \/ ProbeLost \/ NoOption \/ CallFails
            \/ CallLost \/ Hop \/ Replug \/ TearDown
  BY <1>0, <1>16 DEF FindMulti, Answered, GetInfos, MultiFails, Silent, Erred, Fault,
     ProbeLost, NoOption, vars, CallFails, CallLost, Hop, Move, Replug, TearDown
<1>17. CASE Idle \/ UNCHANGED vars
  BY <1>0, <1>17 DEF Idle, vars
<1> QED
  BY <1>1, <1>2, <1>3, <1>4, <1>5, <1>6, <1>7, <1>8, <1>9, <1>10, <1>11, <1>12, <1>13,
     <1>14, <1>15, <1>16, <1>17 DEF Next, Probe, Ensure, World

\* Every call on the keyboard writes at most once, the wanted platform, and only after
\* it has read another one.
THEOREM Implements == Spec => Corrects
<1>1. Init => C!Init
  BY InvInit, ChoiceType DEF C!Init, Init, DeviceInv, TypeOK, Records, Phase, Checking
<1>2. DeviceInv /\ [Next]_vars => [C!Next]_(C!cvars)
  BY InvStep, Given, StepMapped, MappedAllowed
<1> QED BY <1>1, <1>2, InvCorrect, PTL DEF Spec, Corrects, C!Spec
=============================================================================
