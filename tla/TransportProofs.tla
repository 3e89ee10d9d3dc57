--------------------------- MODULE TransportProofs ---------------------------
(***************************************************************************)
(* Theorems about Transport, for any queries, rotation, readers and bounds.*)
(***************************************************************************)
EXTENDS Transport, TLAPS

USE DEF Ids, SwIds, Keys, Frames, NoFrame, Exchanges, Replies

-----------------------------------------------------------------------------
(* The rotation.                                                           *)

\* A software id is one of the rotation.
LEMMA SwIdType == ASSUME NEW t \in Nat PROVE SwId(t) \in SwIds
BY TransportAssumption DEF SwId

\* A positive multiple of n is at least n.
LEMMA Multiple ==
    ASSUME NEW n \in Nat \ {0}, NEW k \in Int, n * k > 0 PROVE n * k >= n
<1>1. CASE k <= 0
  <2>1. n * k <= 0  BY <1>1
  <2>. QED          BY <2>1
<1>2. CASE k >= 1
  <2>1. n * k = n + n * (k - 1)  OBVIOUS
  <2>2. n * (k - 1) >= 0         BY <1>2
  <2>. QED                       BY <2>1, <2>2
<1>. QED  BY <1>1, <1>2

\* Two turns that stamp the same software id are a whole rotation apart.
LEMMA SameSwId ==
    ASSUME NEW a \in Nat, NEW b \in Nat, a < b, SwId(a) = SwId(b)
    PROVE  b - a >= NumSwIds
<1>. DEFINE n == NumSwIds
            k == (b \div n) - (a \div n)
<1>1. n \in Nat \ {0}  BY TransportAssumption
<1>. HIDE DEF n
<1>2. a = n * (a \div n) + (a % n) /\ a % n \in Nat /\ a \div n \in Int  BY <1>1
<1>3. b = n * (b \div n) + (b % n) /\ b \div n \in Int                   BY <1>1
<1>4. k \in Int                                BY <1>2, <1>3
<1>5. n * (b \div n) - n * (a \div n) = n * k  BY <1>1, <1>2, <1>3
<1>6. a % n = b % n                            BY DEF SwId, n
<1>7. b - a = n * k                            BY <1>1, <1>2, <1>3, <1>5, <1>6
<1>. HIDE DEF k
<1>8. b - a >= n                               BY <1>1, <1>4, <1>7, Multiple
<1>. QED                                       BY <1>8 DEF n

-----------------------------------------------------------------------------
(* Types.                                                                  *)

\* The exchanges made so far have the type of an exchange.
LEMMA AskedType ==
    ASSUME AskingType, NEW i \in 1..Len(asked)
    PROVE  i \in Ids /\ asked[i] \in Exchanges
<1>. HIDE DEF Exchanges
<1>1. Len(asked) \in Nat /\ Len(asked) <= MaxExchanges /\ asked \in Seq(Exchanges)
  BY DEF AskingType
<1>. QED  BY <1>1, TransportAssumption

\* While a call is under way its exchange is the last one made.
LEMMA CurrentMade ==
    ASSUME AskingType, SinkHeld, caller.pc # "idle"
    PROVE  Current \in 1..Len(asked)
BY DEF AskingType, SinkHeld, Current

\* The types in the initial state.
LEMMA InitType == Init => TypeOK
<1>. SUFFICES ASSUME Init PROVE TypeOK  OBVIOUS
<1>. USE TransportAssumption DEF Init
<1>1. AskingType    BY DEF AskingType, CallerStates
<1>2. LedgerType    BY DEF LedgerType
<1>3. SinkType      BY DEF SinkType
<1>4. SinkHeld      BY DEF SinkHeld
<1>5. WireType      BY DEF WireType, Listening, ReaderStates
<1>6. HistoryType   BY DEF HistoryType
<1>7. ClosingType   BY DEF ClosingType, CloserStates
<1>. QED  BY <1>1, <1>2, <1>3, <1>4, <1>5, <1>6, <1>7 DEF TypeOK

\* What an action leaves alone keeps its type.
LEMMA TypeKept ==
    ASSUME TypeOK
    PROVE  /\ UNCHANGED callerVars => AskingType' /\ SinkHeld'
           /\ UNCHANGED ledgerVars => LedgerType'
           /\ UNCHANGED sinkVars => SinkType'
           /\ UNCHANGED historyVars => HistoryType'
           /\ UNCHANGED <<dead, handles, listed, closer>> => ClosingType'
           /\ UNCHANGED <<asked, owed, reader, noise>> => WireType'
BY DEF TypeOK, AskingType, LedgerType, SinkType, SinkHeld, WireType, HistoryType,
       ClosingType, callerVars, ledgerVars, sinkVars, historyVars

\* Filing a frame nobody waited for.
LEMMA NoteOrphanType ==
    ASSUME LedgerType, HistoryType, NEW f \in Frames, NoteOrphan(f)
    PROVE  hot' \in SUBSET SwIds /\ misfiled' \in SUBSET (Ids \X Queries)
<1>1. f.sw \in SwIds  OBVIOUS
<1>2. f.from # 0 => <<f.from, f.q>> \in Ids \X Queries
  BY TransportAssumption
<1>. HIDE DEF Frames, Ids, SwIds
<1>. QED  BY <1>1, <1>2 DEF NoteOrphan, LedgerType, HistoryType

\* What stamping an exchange leaves behind.
LEMMA StampType ==
    ASSUME TypeOK, NEW kind \in {"request", "scan"}, NEW qs \in SUBSET Queries,
           caller.pc = "idle", Stamp(kind, qs), probing' \in SUBSET Queries
    PROVE  TypeOK'
<1>. USE TransportAssumption DEF TypeOK, AskingType, Stamp
<1>1. turn' \in Nat  OBVIOUS
<1>2. asked' \in Seq(Exchanges) /\ Len(asked') = Len(asked) + 1  BY <1>1
<1>3. caller' \in [pc : CallerStates, unsent : SUBSET Queries,
                  raised : {"none", "timeout", "closed", "crash"}]
  BY DEF CallerStates
<1>4. AskingType'  BY <1>1, <1>2, <1>3
<1>5. LedgerType'
  <2>1. SwId(turn') \in SwIds  BY <1>1, SwIdType
  <2>. QED  BY <2>1 DEF LedgerType
<1>6. SinkHeld'    BY <1>2 DEF SinkHeld
<1>7. WireType'    BY <1>2 DEF WireType
<1>8. SinkType' /\ HistoryType' /\ ClosingType'  BY TypeKept
<1>. QED  BY <1>4, <1>5, <1>6, <1>7, <1>8

\* The ledger keys of the exchange under way.
LEMMA CurrentKeys ==
    ASSUME TypeOK, caller.pc # "idle"
    PROVE  KeysOf(Current) \subseteq Keys /\ Current \in Ids
<1>1. Current \in Ids /\ asked[Current] \in Exchanges
  BY CurrentMade, AskedType DEF TypeOK
<1>2. SwId(asked[Current].turn) \in SwIds  BY <1>1, SwIdType
<1>. QED  BY <1>1, <1>2 DEF KeysOf, Key

\* Every step keeps the types; one case per action.
LEMMA NextType == ASSUME TypeOK, [Next]_vars PROVE TypeOK'
<1>. USE TransportAssumption, TypeKept DEF TypeOK
<1>1. CASE CallerNext
  <2>. USE DEF AskingType, SinkHeld, CallerStates
  <2>1. ASSUME NEW q \in Queries, Request(q) PROVE TypeOK'
    BY <2>1, StampType DEF Request, Idle
  <2>2. ASSUME NEW qs \in SUBSET Pings \ {{}}, Scan(qs) PROVE TypeOK'
    BY <2>2, StampType DEF Scan, Idle
  <2>3. ASSUME NEW q \in probing, Retry(q) PROVE TypeOK'
    BY <2>3, StampType DEF Retry, Idle
  <2>4. CASE RetryRefused  BY <2>4 DEF RetryRefused
  <2>5. CASE Install       BY <2>5 DEF Install, Current
  <2>6. ASSUME NEW q \in caller.unsent, Write(q) PROVE TypeOK'
    <3>1. AskingType' /\ SinkHeld'  BY <2>6 DEF Write
    <3>2. Current \in 1..Len(asked)  BY <2>6, CurrentMade DEF Write
    <3>3. <<Current, q>> \in (1..Len(asked)) \X Queries  BY <3>2
    <3>4. WireType'  BY <2>6, <3>3 DEF Write, WireType
    <3>. QED  BY <2>6, <3>1, <3>4 DEF Write
  <2>7. CASE WriteFails
    <3>1. AskingType' /\ SinkHeld'  BY <2>7 DEF WriteFails
    <3>2. ClosingType'  BY <2>7 DEF WriteFails, ClosingType
    <3>. QED  BY <2>7, <3>1, <3>2 DEF WriteFails
  <2>8. CASE TimesOut
    <3>1. AskingType' /\ SinkHeld'  BY <2>8 DEF TimesOut
    <3>. QED  BY <2>8, <3>1 DEF TimesOut
  <2>9. CASE Abandon
    <3>1. AskingType' /\ SinkHeld'  BY <2>9 DEF Abandon
    <3>2. KeysOf(Current) \subseteq Keys  BY <2>9, CurrentKeys DEF Abandon
    <3>3. LedgerType'  BY <2>9, <3>2 DEF Abandon, LedgerType
    <3>4. HistoryType'  BY <2>9 DEF Abandon, HistoryType, Current
    <3>. QED  BY <2>9, <3>1, <3>3, <3>4 DEF Abandon
  <2>10. CASE Clear
    <3>1. AskingType' /\ SinkHeld'  BY <2>10 DEF Clear
    <3>. QED  BY <2>10, <3>1 DEF Clear
  <2>11. CASE Return
    <3>1. asked[Current].qs \in SUBSET Queries
      BY <2>11, CurrentMade, AskedType DEF Return
    <3>2. AskingType' /\ SinkHeld'  BY <2>11, <3>1 DEF Return
    <3>3. LedgerType'  BY <2>11 DEF Return, LedgerType
    <3>. QED  BY <2>11, <3>2, <3>3 DEF Return
  <2>. QED  BY <1>1, <2>1, <2>2, <2>3, <2>4, <2>5, <2>6, <2>7, <2>8, <2>9, <2>10,
               <2>11 DEF CallerNext
<1>2. ASSUME NEW r \in Readers, ReaderNext(r) PROVE TypeOK'
  <2>. USE DEF WireType, ReaderStates
  <2>1. CASE Read(r)
    <3>1. PICK o \in owed, kind \in Kinds :
            /\ owed' = owed \ {o}
            /\ Hears(r, [q |-> o[2], sw |-> SwId(asked[o[1]].turn),
                         from |-> o[1], kind |-> kind])
      BY <2>1 DEF Read
    <3>2. asked[o[1]] \in Exchanges /\ o[1] \in Ids /\ o[2] \in Queries
      BY AskedType
    <3>3. SwId(asked[o[1]].turn) \in SwIds  BY <3>2, SwIdType
    <3>4. [q |-> o[2], sw |-> SwId(asked[o[1]].turn), from |-> o[1],
           kind |-> kind] \in Frames
      BY <3>2, <3>3
    <3>5. reader' \in [Readers -> ReaderStates]  BY <3>1, <3>4 DEF Hears
    <3>6. WireType'  BY <2>1, <3>1, <3>5 DEF Read, callerVars
    <3>. QED  BY <2>1, <3>6 DEF Read
  <2>2. CASE ReadForeign(r)
    <3>1. WireType'  BY <2>2 DEF ReadForeign, Hears, callerVars
    <3>. QED  BY <2>2, <3>1 DEF ReadForeign
  <2>3. CASE CheckAbandoned(r)
    <3>. DEFINE f == reader[r].frame
    <3>1. f \in Frames  BY <2>3 DEF CheckAbandoned
    <3>2. WireType'  BY <2>3, <3>1 DEF CheckAbandoned, Resumed, Listening, callerVars
    <3>3. /\ abandoned' \in SUBSET Keys /\ unguarded' \in SUBSET Ids
      BY <2>3, AskedType DEF CheckAbandoned, UsedUp, LedgerType, HistoryType
    <3>4. hot' \in SUBSET SwIds /\ misfiled' \in SUBSET (Ids \X Queries)
      BY <2>3, <3>1, NoteOrphanType DEF CheckAbandoned, LedgerType, HistoryType
    <3>5. LedgerType' /\ HistoryType'
      BY <2>3, <3>3, <3>4 DEF CheckAbandoned, LedgerType, HistoryType
    <3>. QED  BY <2>3, <3>2, <3>5 DEF CheckAbandoned
  <2>4. CASE TakeSink(r)
    <3>1. reader[r].frame \in Frames  BY <2>4 DEF TakeSink
    <3>2. sink \in 0..MaxExchanges    BY DEF SinkHeld, AskingType
    <3>3. [pc |-> "offer", frame |-> reader[r].frame, sink |-> sink] \in ReaderStates
      BY <3>1, <3>2
    <3>4. WireType'  BY <2>4, <3>3 DEF TakeSink, callerVars
    <3>. QED  BY <2>4, <3>4 DEF TakeSink
  <2>5. CASE Offer(r)
    <3>. DEFINE f == reader[r].frame
                i == reader[r].sink
    <3>1. f \in Frames /\ i \in 0..MaxExchanges  BY <2>5 DEF Offer
    <3>2. WireType'  BY <2>5 DEF Offer, Resumed, Listening, callerVars
    <3>3. ASSUME NEW q \in TakenFor(i, f), i # 0, Accept(i, f, q), UNCHANGED <<hot, misfiled>>
          PROVE  TypeOK'
      <4>1. i \in Ids  BY <3>1, <3>3
      <4>2. frames' \in [Ids -> [Queries -> Replies \cup {NoFrame}]]
        <5>1. [q |-> f.q, from |-> f.from, kind |-> f.kind] \in Replies  BY <3>1
        <5>. DEFINE kept == IF asked[i].kind = "scan" /\ frames[i][q] # NoFrame
                              THEN frames[i][q]
                              ELSE [q |-> f.q, from |-> f.from, kind |-> f.kind]
        <5>2. frames' = [frames EXCEPT ![i][q] = kept]  BY <3>3 DEF Accept
        <5>3. q \in Queries => kept \in Replies \cup {NoFrame}
          BY <4>1, <5>1 DEF SinkType
        <5>4. frames \in [Ids -> [Queries -> Replies \cup {NoFrame}]]  BY DEF SinkType
        <5>. HIDE DEF kept, NoFrame, Replies, Ids, i
        <5>. QED  BY <4>1, <5>2, <5>3, <5>4
      <4>3. SinkType'  BY <3>3, <4>1, <4>2 DEF Accept, SinkType
      <4>4. LedgerType' /\ HistoryType'
        BY <2>5, <3>3 DEF Offer, LedgerType, HistoryType
      <4>. QED  BY <2>5, <3>2, <4>3, <4>4 DEF Offer
    <3>4. CASE NoteOrphan(f) /\ UNCHANGED sinkVars
      <4>1. hot' \in SUBSET SwIds /\ misfiled' \in SUBSET (Ids \X Queries)
        BY <3>1, <3>4, NoteOrphanType
      <4>2. LedgerType' /\ HistoryType'
        BY <2>5, <4>1 DEF Offer, LedgerType, HistoryType
      <4>. QED  BY <2>5, <3>2, <3>4, <4>2 DEF Offer
    <3>. QED  BY <2>5, <3>3, <3>4 DEF Offer
  <2>6. CASE ReadFails(r)
    <3>1. WireType'  BY <2>6 DEF ReadFails, callerVars
    <3>2. SinkType'
      BY <2>6 DEF ReadFails, FailPending, SinkType, SinkHeld, AskingType
    <3>3. ClosingType'  BY <2>6 DEF ReadFails, ClosingType
    <3>. QED  BY <2>6, <3>1, <3>2, <3>3 DEF ReadFails
  <2>7. CASE ReaderExits(r)
    <3>1. WireType'  BY <2>7 DEF ReaderExits, callerVars
    <3>. QED  BY <2>7, <3>1 DEF ReaderExits
  <2>8. CASE AbandonRaced(r)
    <3>. DEFINE f == reader[r].frame
    <3>1. f \in Frames  BY <2>8 DEF AbandonRaced
    <3>2. WireType'  BY <2>8, <3>1 DEF AbandonRaced, Resumed, Listening
    <3>3. AskingType' /\ SinkHeld'
      BY <2>8 DEF AbandonRaced, AskingType, SinkHeld, CallerStates
    <3>4. KeysOf(Current) \subseteq Keys /\ Current \in Ids
      BY <2>8, CurrentKeys DEF AbandonRaced
    <3>5. UsedUp(f) \subseteq Ids  BY AskedType DEF UsedUp
    <3>6. /\ abandoned' \in SUBSET Keys /\ unguarded' \in SUBSET Ids
      BY <2>8, <3>4, <3>5 DEF AbandonRaced, LedgerType, HistoryType
    <3>7. hot' \in SUBSET SwIds /\ misfiled' \in SUBSET (Ids \X Queries)
      BY <2>8, <3>1, NoteOrphanType DEF AbandonRaced, LedgerType, HistoryType
    <3>8. LedgerType' /\ HistoryType'
      BY <2>8, <3>6, <3>7 DEF AbandonRaced, LedgerType, HistoryType
    <3>. QED  BY <2>8, <3>2, <3>3, <3>8 DEF AbandonRaced
  <2>. QED  BY <1>2, <2>1, <2>2, <2>3, <2>4, <2>5, <2>6, <2>7, <2>8 DEF ReaderNext
<1>3. ASSUME NEW c \in Closers, CloserNext(c) PROVE TypeOK'
  <2>. USE DEF CloserStep, ClosingType, CloserStates
  <2>1. CASE CloseBegins(c)
    <3>1. SinkType'
      BY <2>1 DEF CloseBegins, FailPending, SinkType, SinkHeld, AskingType
    <3>. QED  BY <2>1, <3>1 DEF CloseBegins, callerVars
  <2>2. CASE Judge(c)          BY <2>2 DEF Judge, Judged, callerVars
  <2>3. CASE ForgetReaders(c)  BY <2>3 DEF ForgetReaders, callerVars
  <2>4. CASE CloseHandles(c)   BY <2>4 DEF CloseHandles, callerVars
  <2>5. CASE CloseClears(c)    BY <2>5 DEF CloseClears, callerVars
  <2>. QED  BY <1>3, <2>1, <2>2, <2>3, <2>4, <2>5 DEF CloserNext
<1>4. CASE ClockNext
  <2>1. ASSUME NEW k \in abandoned, AbandonedExpires(k) PROVE TypeOK'
    <3>1. LedgerType'  BY <2>1 DEF AbandonedExpires, LedgerType
    <3>2. HistoryType'
      BY <2>1, AskedType DEF AbandonedExpires, HistoryType
    <3>. QED  BY <2>1, <3>1, <3>2 DEF AbandonedExpires, callerVars
  <2>2. ASSUME NEW s \in hot, ForeignCools(s) PROVE TypeOK'
    <3>1. LedgerType'  BY <2>2 DEF ForeignCools, LedgerType
    <3>. QED  BY <2>2, <3>1 DEF ForeignCools, callerVars
  <2>. QED  BY <1>4, <2>1, <2>2 DEF ClockNext
<1>5. CASE Finished \/ UNCHANGED vars
  BY <1>5 DEF Finished, vars, callerVars
<1>. QED  BY <1>1, <1>2, <1>3, <1>4, <1>5 DEF Next

\* Transport keeps its types.
THEOREM TypeCorrect == Spec => []TypeOK
<1>1. TypeOK /\ [Next]_vars => TypeOK'  BY NextType
<1>. QED  BY InitType, <1>1, PTL DEF Spec

-----------------------------------------------------------------------------
(* Late replies.                                                           *)

\* The inductive invariant in the initial state: nothing asked, nothing heard.
LEMMA InitInv == Init => TransportInv
<1>. SUFFICES ASSUME Init PROVE TransportInv  OBVIOUS
<1>1. TypeOK  BY InitType
<1>2. TurnsAscend /\ HeardTrue /\ SinkTaken /\ AbandonedTrue
  BY DEF Init, TurnsAscend, HeardTrue, SinkTaken, AbandonedTrue, Listening
<1>3. CreditedTrue  BY DEF Init, CreditedTrue
<1>. QED  BY <1>1, <1>2, <1>3 DEF TransportInv

\* Only stamping an exchange touches the turn and the exchanges made.
LEMMA OnlyStamps ==
    ASSUME [Next]_vars
    PROVE  \/ UNCHANGED <<turn, asked>>
           \/ \E kind, qs : Stamp(kind, qs) /\ Idle
BY DEF Next, CallerNext, Request, Scan, Retry, RetryRefused, Install, Write,
       WriteFails, TimesOut, Abandon, Clear, Return, ReaderNext, Read,
       ReadForeign, CheckAbandoned, AbandonRaced, TakeSink, Offer, ReadFails,
       ReaderExits, CloserNext, CloseBegins, Judge, Judged, ForgetReaders, CloseHandles, CloseClears,
       CloserStep, ClockNext, AbandonedExpires, ForeignCools, Finished, vars,
       callerVars

\* Exchanges once made do not change.
LEMMA AskedGrows ==
    ASSUME TypeOK, [Next]_vars
    PROVE  /\ Len(asked) \in Nat /\ Len(asked') \in Nat /\ Len(asked) <= Len(asked')
           /\ \A i \in 1..Len(asked) : asked'[i] = asked[i]
<1>1. asked \in Seq(Exchanges) /\ Len(asked) \in Nat  BY DEF TypeOK, AskingType
<1>2. ASSUME NEW kind, NEW qs, Stamp(kind, qs)
      PROVE  /\ Len(asked') = Len(asked) + 1
             /\ \A i \in 1..Len(asked) : asked'[i] = asked[i]
  BY <1>1, <1>2 DEF Stamp
<1>. QED  BY <1>1, <1>2, OnlyStamps

\* _next_sw_id hands out ever later turns.
LEMMA TurnsAscendStep == ASSUME TransportInv, [Next]_vars PROVE TurnsAscend'
<1>. USE DEF TransportInv
<1>1. CASE UNCHANGED <<turn, asked>>  BY <1>1 DEF TurnsAscend
<1>2. ASSUME NEW kind, NEW qs, Stamp(kind, qs) PROVE TurnsAscend'
  <2>. DEFINE n == Len(asked)
  <2>1. turn \in Nat /\ n \in Nat /\ asked \in Seq(Exchanges)
    BY DEF TypeOK, AskingType
  <2>2. turn' \in Nat /\ turn < turn'  BY <1>2, <2>1, TransportAssumption DEF Stamp
  <2>3. Len(asked') = n + 1 /\ asked'[n + 1].turn = turn'  BY <1>2, <2>1 DEF Stamp
  <2>4. \A i \in 1..n : asked'[i] = asked[i] /\ asked[i].turn \in Nat
    BY AskedGrows, AskedType DEF TypeOK
  <2>5. ASSUME NEW i \in 1..Len(asked')
        PROVE  /\ asked'[i].turn <= turn'
               /\ \A j \in 1..(i - 1) : asked'[j].turn < asked'[i].turn
    <3>1. CASE i = n + 1  BY <2>1, <2>2, <2>3, <2>4, <3>1 DEF TurnsAscend
    <3>2. CASE i \in 1..n
      <4>1. asked'[i] = asked[i] /\ asked[i].turn \in Nat /\ asked[i].turn <= turn
        BY <2>4, <3>2 DEF TurnsAscend
      <4>2. \A j \in 1..(i - 1) : j \in 1..n /\ asked[j].turn < asked[i].turn
        BY <2>1, <3>2 DEF TurnsAscend
      <4>3. asked'[i].turn <= turn'
        <5>. DEFINE t == asked[i].turn
        <5>1. t \in Nat /\ t <= turn /\ asked'[i].turn = t  BY <4>1
        <5>. HIDE DEF t
        <5>. QED  BY <5>1, <2>1, <2>2
      <4>4. ASSUME NEW j \in 1..(i - 1) PROVE asked'[j].turn < asked'[i].turn
        <5>1. asked'[j] = asked[j]  BY <4>2, <2>4
        <5>. QED  BY <5>1, <4>1, <4>2
      <4>. QED  BY <4>3, <4>4
    <3>. QED  BY <2>1, <2>3, <3>1, <3>2
  <2>. QED  BY <2>5 DEF TurnsAscend
<1>. QED  BY <1>1, <1>2, OnlyStamps

\* What a reader holds changes only by that reader's own steps.
LEMMA ReaderSteps ==
    ASSUME TypeOK, [Next]_vars, NEW r \in Readers
    PROVE  reader'[r] = reader[r] \/ ReaderNext(r)
<1>1. reader \in [Readers -> ReaderStates]  BY DEF TypeOK, WireType
<1>2. ASSUME NEW s \in Readers, ReaderNext(s), s # r PROVE reader'[r] = reader[r]
  BY <1>1, <1>2 DEF ReaderNext, Read, ReadForeign, Hears, CheckAbandoned,
         AbandonRaced, TakeSink, Offer, ReadFails, ReaderExits
<1>. QED
  BY <1>2 DEF Next, CallerNext, Request, Scan, Retry, Stamp, RetryRefused, Install,
         Write, WriteFails, TimesOut, Abandon, Clear, Return, CloserNext,
         CloseBegins, Judge, Judged, ForgetReaders, CloseHandles, CloseClears, CloserStep,
         ClockNext, AbandonedExpires, ForeignCools, Finished, vars

\* A reply carries the stamp of the exchange it answers from the wire to the sink.
LEMMA HeardTrueStep ==
    ASSUME TransportInv, [Next]_vars PROVE HeardTrue' /\ SinkTaken'
<1>. USE AskedGrows DEF TransportInv
<1>. SUFFICES ASSUME NEW r \in Readers
              PROVE /\ reader'[r].pc \in {"check", "take", "offer"} =>
                         LET f == reader'[r].frame
                         IN  f.from # 0 =>
                               /\ f.from <= Len(asked')
                               /\ f.sw = SwId(asked'[f.from].turn)
                               /\ reader'[r].pc = "offer" /\ reader'[r].sink # 0
                                    => f.from <= reader'[r].sink
                    /\ reader'[r].pc = "offer" => reader'[r].sink <= Len(asked')
  BY DEF HeardTrue, SinkTaken
<1>1. reader \in [Readers -> ReaderStates]  BY DEF TypeOK, WireType
<1>2. reader[r].pc \in {"check", "take", "offer"} => reader[r].frame.from \in 0..MaxExchanges
  BY <1>1 DEF ReaderStates
<1>3. reader[r].pc = "offer" => reader[r].sink \in 0..MaxExchanges
  BY <1>1 DEF ReaderStates
<1>4. CASE reader'[r] = reader[r]
  BY <1>2, <1>3, <1>4, TransportAssumption DEF HeardTrue, SinkTaken
<1>5. CASE Read(r)
  <2>1. PICK o \in owed, kind \in Kinds :
          reader'[r] = [pc |-> "check",
                        frame |-> [q |-> o[2], sw |-> SwId(asked[o[1]].turn),
                                   from |-> o[1], kind |-> kind]]
    BY <1>1, <1>5 DEF Read, Hears
  <2>2. o[1] \in 1..Len(asked)  BY DEF TypeOK, WireType
  <2>3. asked' = asked           BY <1>5 DEF Read, callerVars
  <2>. QED  BY <2>1, <2>2, <2>3
<1>6. CASE ReadForeign(r)
  BY <1>1, <1>6 DEF ReadForeign, Hears
<1>7. CASE CheckAbandoned(r)
  <2>1. reader'[r] = Resumed \/ reader'[r] = [pc |-> "take", frame |-> reader[r].frame]
    BY <1>1, <1>7 DEF CheckAbandoned
  <2>2. asked' = asked  BY <1>7 DEF CheckAbandoned, callerVars
  <2>. QED  BY <1>7, <2>1, <2>2 DEF HeardTrue, CheckAbandoned, Resumed, Listening
<1>8. CASE TakeSink(r)
  <2>1. reader'[r] = [pc |-> "offer", frame |-> reader[r].frame, sink |-> sink]
    BY <1>1, <1>8 DEF TakeSink
  <2>2. asked' = asked /\ reader[r].pc = "take"  BY <1>8 DEF TakeSink, callerVars
  <2>3. sink \in {0, Len(asked)}  BY DEF TypeOK, SinkHeld
  <2>. QED  BY <2>1, <2>2, <2>3 DEF HeardTrue
<1>9. CASE AbandonRaced(r) \/ Offer(r) \/ ReadFails(r) \/ ReaderExits(r)
  BY <1>1, <1>9 DEF AbandonRaced, Offer, ReadFails, ReaderExits, Resumed, Listening
<1>. QED  BY <1>4, <1>5, <1>6, <1>7, <1>8, <1>9, ReaderSteps DEF ReaderNext

\* A sink accepts only its own exchange's replies or those of an earlier, colliding one.
LEMMA CreditedTrueStep == ASSUME TransportInv, [Next]_vars PROVE CreditedTrue'
<1>. USE AskedGrows DEF TransportInv
<1>1. CASE UNCHANGED frames
  <2>. SUFFICES ASSUME NEW i \in Ids, NEW q \in Queries, frames[i][q].from \in Ids
                PROVE  i <= Len(asked') /\ Collides(frames[i][q].from, i)'
    BY <1>1 DEF CreditedTrue
  <2>1. i <= Len(asked) /\ Collides(frames[i][q].from, i)  BY DEF CreditedTrue
  <2>. QED  BY <1>1, <2>1, TransportAssumption DEF Collides
<1>2. ASSUME NEW r \in Readers, Offer(r), ~UNCHANGED frames PROVE CreditedTrue'
  <2>. DEFINE f == reader[r].frame
              s == reader[r].sink
  <2>1. PICK p \in TakenFor(s, f) : s # 0 /\ Accept(s, f, p) /\ asked' = asked
    BY <1>2 DEF Offer, sinkVars, callerVars
  <2>2. f \in Frames /\ s \in 0..MaxExchanges
    BY <1>2 DEF Offer, TypeOK, WireType, ReaderStates
  <2>3. s \in Ids /\ s <= Len(asked)
    BY <1>2, <2>1, <2>2, TransportAssumption DEF SinkTaken, Offer
  <2>4. f.from \in Ids => Collides(f.from, s)
    <3>1. f.sw = SwId(asked[s].turn)  BY <2>1 DEF TakenFor
    <3>2. f.from \in Ids =>
            f.sw = SwId(asked[f.from].turn) /\ f.from <= s
      BY <1>2, <2>3, TransportAssumption DEF HeardTrue, Offer
    <3>. QED  BY <3>1, <3>2 DEF Collides
  <2>5. ASSUME NEW i \in Ids, NEW q \in Queries
        PROVE  \/ frames'[i][q] = frames[i][q]
               \/ i = s /\ frames'[i][q].from = f.from
    BY <2>1, <2>2, <2>3 DEF Accept, TypeOK, SinkType
  <2>6. ASSUME NEW i \in Ids, NEW q \in Queries, frames'[i][q].from \in Ids
        PROVE  i <= Len(asked) /\ Collides(frames'[i][q].from, i)
    BY <2>3, <2>4, <2>5, <2>6 DEF CreditedTrue
  <2>. QED  BY <2>1, <2>6 DEF CreditedTrue, Collides
<1>3. \/ UNCHANGED frames
      \/ \E r \in Readers : Offer(r)
  BY DEF Next, CallerNext, Request, Scan, Retry, Stamp, RetryRefused, Install,
         Write, WriteFails, TimesOut, Abandon, Clear, Return, ReaderNext, Read,
         ReadForeign, CheckAbandoned, AbandonRaced, TakeSink, ReadFails, FailPending,
         ReaderExits, CloserNext, CloseBegins, Judge, Judged, ForgetReaders, CloseHandles,
         CloseClears, CloserStep, ClockNext, AbandonedExpires, ForeignCools,
         Finished, vars, sinkVars
<1>. QED  BY <1>1, <1>2, <1>3

\* An entry of the ledger is left by a call that gave up, and only by such.
LEMMA AbandonedTrueStep == ASSUME TransportInv, [Next]_vars PROVE AbandonedTrue'
<1>. USE AskedGrows DEF TransportInv
<1>. DEFINE GivesUp == /\ caller.pc = "abandon" /\ caller'.pc = "clear"
                       /\ asked' = asked
                       /\ abandoned' \subseteq abandoned \cup KeysOf(Current)
<1>1. CASE GivesUp
  <2>1. Current \in 1..Len(asked)  BY <1>1, CurrentMade DEF TypeOK
  <2>2. /\ asked' = asked /\ abandoned' \subseteq abandoned \cup KeysOf(Current)
        /\ caller'.pc = "clear"
    BY <1>1
  <2>. QED  BY <2>1, <2>2 DEF AbandonedTrue, KeysOf, Key, Current
<1>2. ASSUME NEW kind, NEW qs, Stamp(kind, qs), Idle PROVE AbandonedTrue'
  <2>1. abandoned' = abandoned /\ Len(asked') = Len(asked) + 1
    BY <1>2 DEF Stamp, TypeOK, AskingType
  <2>. QED  BY <2>1 DEF AbandonedTrue, KeysOf, Key, Current
<1>. DEFINE Waiting == {"stamped", "write", "wait"}
            Keeps   == /\ UNCHANGED asked
                       /\ abandoned' \subseteq abandoned
                       /\ caller'.pc \in Waiting => caller.pc \in Waiting
<1>3. CASE Keeps  BY <1>3 DEF AbandonedTrue, KeysOf, Key, Current
<1>4. Keeps \/ GivesUp \/ \E kind, qs : Stamp(kind, qs) /\ Idle
  <2>. USE DEF callerVars, ledgerVars
  <2>1. CASE CallerNext
    <3>1. CASE RetryRefused \/ Install \/ (\E q \in caller.unsent : Write(q))
      BY <3>1 DEF RetryRefused, Install, Write, TypeOK, AskingType
    <3>2. CASE WriteFails \/ TimesOut \/ Clear \/ Return
      BY <3>2 DEF WriteFails, TimesOut, Clear, Return, TypeOK, AskingType
    <3>3. CASE Abandon  BY <3>3 DEF Abandon, TypeOK, AskingType
    <3>. QED  BY <2>1, <3>1, <3>2, <3>3 DEF CallerNext, Request, Scan, Retry
  <2>2. ASSUME NEW r \in Readers, ReaderNext(r) PROVE Keeps \/ GivesUp
    <3>1. CASE AbandonRaced(r)  BY <3>1 DEF AbandonRaced, TypeOK, AskingType
    <3>. QED
      BY <2>2, <3>1 DEF ReaderNext, Read, ReadForeign, CheckAbandoned, TakeSink,
         Offer, ReadFails, ReaderExits
  <2>3. CASE (\E c \in Closers : CloserNext(c)) \/ ClockNext \/ Finished \/ UNCHANGED vars
    BY <2>3 DEF CloserNext, CloseBegins, Judge, Judged, ForgetReaders, CloseHandles, CloseClears,
       CloserStep, ClockNext, AbandonedExpires, ForeignCools, Finished, vars
  <2>. QED  BY <2>1, <2>2, <2>3 DEF Next
<1>. QED  BY <1>1, <1>2, <1>3, <1>4

\* Every step keeps the inductive invariant.
LEMMA NextInv == ASSUME TransportInv, [Next]_vars PROVE TransportInv'
<1>1. TypeOK'  BY NextType DEF TransportInv
<1>. QED
  BY <1>1, TurnsAscendStep, HeardTrueStep, CreditedTrueStep, AbandonedTrueStep
  DEF TransportInv

\* Turns ascend, frames stay true to the exchange they answer and the ledger holds only
\* what was given up, in every reachable state of the transport.
THEOREM InvCorrect == Spec => []TransportInv
<1>1. TransportInv /\ [Next]_vars => TransportInv'  BY NextInv
<1>. QED  BY InitInv, <1>1, PTL DEF Spec

\* A late reply is credited to no exchange of the same turn of the rotation.
THEOREM LateRepliesSeparated == Spec => []CreditedWithinTurn
<1>1. TransportInv => CreditedWithinTurn
  <2>. SUFFICES ASSUME TransportInv, NEW i \in Ids, NEW q \in Queries,
                       frames[i][q].from \in Ids \ {i}
                PROVE  TurnApart(frames[i][q].from, i)
    BY DEF CreditedWithinTurn
  <2>. DEFINE j == frames[i][q].from
  <2>1. i \in 1..Len(asked) /\ Collides(j, i)
    BY DEF TransportInv, CreditedTrue, TypeOK, AskingType
  <2>2. j \in 1..(i - 1) /\ j \in 1..Len(asked)
    BY <2>1 DEF Collides, TransportInv, TypeOK, AskingType
  <2>3. asked[i].turn \in Nat /\ asked[j].turn \in Nat
    BY <2>1, <2>2, AskedType DEF TransportInv, TypeOK
  <2>4. asked[j].turn < asked[i].turn  BY <2>1, <2>2 DEF TransportInv, TurnsAscend
  <2>. QED  BY <2>1, <2>3, <2>4, SameSwId DEF Collides, TurnApart
<1>. QED  BY InvCorrect, <1>1, PTL

\* The ledger swallows no answer to a call younger than a whole turn.
THEOREM LiveRepliesHeard == Spec => []LiveReplyNotSwallowed
<1>1. TransportInv => LiveReplyNotSwallowed
  <2>. SUFFICES ASSUME TransportInv, caller.pc \in {"write", "wait"},
                       NEW q \in asked[Current].qs, Key(Current, q) \in abandoned
                PROVE  \E j \in 1..(Current - 1) :
                          q \in asked[j].qs /\ TurnApart(j, Current)
    BY DEF LiveReplyNotSwallowed
  <2>1. PICK j \in 1..Len(asked) : Key(Current, q) \in KeysOf(j) /\ j # Current
    BY DEF TransportInv, AbandonedTrue
  <2>2. q \in asked[j].qs /\ SwId(asked[j].turn) = SwId(asked[Current].turn)
    BY <2>1 DEF KeysOf, Key
  <2>3. Current \in 1..Len(asked) /\ j \in 1..(Current - 1)
    BY <2>1, CurrentMade DEF TransportInv, TypeOK, AskingType, Current
  <2>4. asked[Current].turn \in Nat /\ asked[j].turn \in Nat
    BY <2>1, <2>3, AskedType DEF TransportInv, TypeOK
  <2>5. asked[j].turn < asked[Current].turn  BY <2>3 DEF TransportInv, TurnsAscend
  <2>. QED  BY <2>2, <2>3, <2>4, <2>5, SameSwId DEF TurnApart
<1>. QED  BY InvCorrect, <1>1, PTL

-----------------------------------------------------------------------------
(* The ledger: what each step does to the state it stands on.              *)

\* An exchange is stamped as a request with one question, or as a scan.
LEMMA StampKinds ==
    ASSUME TypeOK, [Next]_vars
    PROVE  \/ UNCHANGED asked
           \/ \E q \in Queries : Stamp("request", {q}) /\ Idle
           \/ \E qs \in SUBSET Queries : Stamp("scan", qs) /\ Idle
<1>1. CASE CallerNext
  <2>1. probing \subseteq Queries  BY DEF TypeOK, AskingType
  <2>2. Pings \subseteq Queries    BY TransportAssumption
  <2>. QED
    BY <1>1, <2>1, <2>2 DEF CallerNext, Request, Scan, Retry, RetryRefused, Install,
       Write, WriteFails, TimesOut, Abandon, Clear, Return
<1>. QED
  BY <1>1 DEF Next, ReaderNext, Read, ReadForeign, CheckAbandoned, AbandonRaced, TakeSink,
     Offer, ReadFails, ReaderExits, CloserNext, CloseBegins, Judge, Judged, ForgetReaders, CloseHandles,
     CloseClears, CloserStep, ClockNext, AbandonedExpires, ForeignCools, Finished, vars,
     callerVars

\* A new exchange is the last one.
LEMMA StampLast ==
    ASSUME TypeOK, NEW kind, NEW qs, Stamp(kind, qs)
    PROVE  /\ Len(asked') = Len(asked) + 1 /\ Len(asked) \in Nat
           /\ Len(asked) + 1 \in Ids
           /\ asked'[Len(asked) + 1] = [kind |-> kind, qs |-> qs, turn |-> turn']
BY TransportAssumption DEF Stamp, TypeOK, AskingType

\* The keys of an exchange once made stay what they are.
LEMMA KeysStay ==
    ASSUME TypeOK, [Next]_vars, NEW i \in 1..Len(asked)
    PROVE  /\ i \in 1..Len(asked') /\ i \in Ids /\ asked'[i] = asked[i]
           /\ KeysOf(i)' = KeysOf(i)
           /\ \A q : Key(i, q)' = Key(i, q)
<1>1. i \in 1..Len(asked') /\ asked'[i] = asked[i]  BY AskedGrows
<1>2. i \in Ids  BY AskedType DEF TypeOK
<1>. QED  BY <1>1, <1>2 DEF KeysOf, Key

\* Only a sink's offer adds a frame to it, and it keeps what it has.
LEMMA FramesStep ==
    ASSUME TypeOK, [Next]_vars
    PROVE  \/ UNCHANGED frames
           \/ \E r \in Readers :
                /\ Offer(r) /\ reader[r].sink \in Ids
                /\ reader[r].frame \in Frames
                /\ \E q \in TakenFor(reader[r].sink, reader[r].frame) :
                     Accept(reader[r].sink, reader[r].frame, q)
<1>1. ASSUME NEW r \in Readers, Offer(r), ~UNCHANGED frames
      PROVE  /\ reader[r].sink \in Ids /\ reader[r].frame \in Frames
             /\ \E q \in TakenFor(reader[r].sink, reader[r].frame) :
                  Accept(reader[r].sink, reader[r].frame, q)
  <2>1. /\ reader[r].sink # 0
        /\ \E q \in TakenFor(reader[r].sink, reader[r].frame) :
             Accept(reader[r].sink, reader[r].frame, q)
    BY <1>1 DEF Offer, sinkVars
  <2>2. reader[r].frame \in Frames /\ reader[r].sink \in 0..MaxExchanges
    BY <1>1 DEF Offer, TypeOK, WireType, ReaderStates
  <2>. QED  BY <2>1, <2>2, TransportAssumption
<1>2. UNCHANGED frames \/ \E r \in Readers : Offer(r)
  BY DEF Next, CallerNext, Request, Scan, Retry, Stamp, RetryRefused, Install,
         Write, WriteFails, TimesOut, Abandon, Clear, Return, ReaderNext, Read,
         ReadForeign, CheckAbandoned, AbandonRaced, TakeSink, ReadFails, FailPending,
         ReaderExits, CloserNext, CloseBegins, Judge, Judged, ForgetReaders, CloseHandles,
         CloseClears, CloserStep, ClockNext, AbandonedExpires, ForeignCools,
         Finished, vars, sinkVars
<1>. QED  BY <1>1, <1>2

\* What an accepted frame changes in the sinks.
LEMMA AcceptDoes ==
    ASSUME TypeOK, NEW i \in Ids, NEW f \in Frames, NEW q \in Queries, Accept(i, f, q)
    PROVE  /\ frames'[i][q] # NoFrame
           /\ \/ frames'[i][q] = frames[i][q]
              \/ frames'[i][q] = [q |-> f.q, from |-> f.from, kind |-> f.kind]
           /\ \A j \in Ids, p \in Queries :
                ~(j = i /\ p = q) => frames'[j][p] = frames[j][p]
<1>1. f.from \in Nat  BY TransportAssumption
<1>2. frames \in [Ids -> [Queries -> Replies \cup {NoFrame}]]  BY DEF TypeOK, SinkType
<1>. DEFINE new  == [q |-> f.q, from |-> f.from, kind |-> f.kind]
            kept == IF asked[i].kind = "scan" /\ frames[i][q] # NoFrame
                      THEN frames[i][q] ELSE new
<1>3. frames' = [frames EXCEPT ![i][q] = kept]  BY DEF Accept
<1>4. kept # NoFrame
  <2>1. new.from # NoFrame.from  BY <1>1
  <2>2. new # NoFrame            BY <2>1
  <2>. QED  BY <2>2
<1>5. kept \in {frames[i][q], new}  OBVIOUS
<1>. HIDE DEF kept, NoFrame, Ids, Replies, Frames
<1>. QED  BY <1>2, <1>3, <1>4, <1>5

\* A failed sink is failed for good, unless a request's own error reply replaces that.
LEMMA FailedStep ==
    ASSUME TypeOK, [Next]_vars, NEW i \in failed, i \notin failed'
    PROVE  \E r \in Readers :
             /\ i = reader[r].sink /\ i \in Ids /\ reader[r].frame \in Frames
             /\ asked[i].kind = "request"
             /\ \E q \in TakenFor(i, reader[r].frame) : Accept(i, reader[r].frame, q)
<1>1. UNCHANGED failed \/ failed \subseteq failed' \/ \E r \in Readers : Offer(r)
  BY DEF Next, CallerNext, Request, Scan, Retry, Stamp, RetryRefused, Install,
         Write, WriteFails, TimesOut, Abandon, Clear, Return, ReaderNext, Read,
         ReadForeign, CheckAbandoned, AbandonRaced, TakeSink, ReadFails, FailPending,
         ReaderExits, CloserNext, CloseBegins, Judge, Judged, ForgetReaders, CloseHandles,
         CloseClears, CloserStep, ClockNext, AbandonedExpires, ForeignCools,
         Finished, vars, sinkVars
<1>2. PICK r \in Readers : Offer(r)  BY <1>1
<1>. DEFINE s == reader[r].sink
            f == reader[r].frame
<1>3. s # 0 /\ \E q \in TakenFor(s, f) : Accept(s, f, q)  BY <1>2 DEF Offer, sinkVars
<1>4. f \in Frames  BY <1>2 DEF Offer, TypeOK, WireType, ReaderStates
<1>5. i = s /\ asked[s].kind = "request"  BY <1>3 DEF Accept
<1>6. i \in Ids  BY DEF TypeOK, SinkType
<1>. QED  BY <1>3, <1>4, <1>5, <1>6

\* A question once settled stays settled.
LEMMA SettledStays ==
    ASSUME TypeOK, RequestsAskOne, [Next]_vars, NEW i \in 1..Len(asked),
           NEW q \in asked[i].qs, Settled(i, q)
    PROVE  Settled(i, q)'
<1>1. i \in Ids /\ q \in Queries  BY AskedType DEF TypeOK
<1>2. CASE frames[i][q] # NoFrame
  <2>1. CASE UNCHANGED frames  BY <1>2, <2>1 DEF Settled
  <2>2. ASSUME NEW k \in Ids, NEW f \in Frames, NEW p, Accept(k, f, p)
        PROVE  Settled(i, q)'
    <3>. HIDE DEF NoFrame, Frames, Ids
    <3>1. CASE k = i /\ p = q
      <4>1. Accept(i, f, q)  BY <2>2, <3>1
      <4>. QED  BY <1>1, <4>1, AcceptDoes DEF Settled
    <3>2. CASE ~(k = i /\ p = q)
      <4>1. frames'[i][q] = frames[i][q]
        BY <1>1, <2>2, <3>2 DEF Accept, TypeOK, SinkType
      <4>. QED  BY <1>2, <4>1 DEF Settled
    <3>. QED  BY <3>1, <3>2
  <2>. QED  BY <2>1, <2>2, FramesStep
<1>3. CASE i \in failed /\ i \notin failed'
  <2>1. PICK r \in Readers, p \in asked[i].qs :
          /\ i = reader[r].sink /\ reader[r].frame \in Frames
          /\ Accept(i, reader[r].frame, p)
          /\ asked[i].kind = "request"
    BY <1>3, FailedStep DEF TakenFor
  <2>2. p = q  BY <2>1 DEF RequestsAskOne
  <2>3. PICK f \in Frames : Accept(i, f, q)  BY <2>1, <2>2
  <2>4. frames'[i][q] # NoFrame
    <3>. HIDE DEF NoFrame, Frames, Ids
    <3>. QED  BY <1>1, <2>3, AcceptDoes
  <2>. QED  BY <2>4 DEF Settled
<1>. QED  BY <1>2, <1>3 DEF Settled

\* A request has one question.
LEMMA RequestsAskOneStep ==
    ASSUME TypeOK, RequestsAskOne, [Next]_vars PROVE RequestsAskOne'
<1>1. CASE UNCHANGED asked  BY <1>1 DEF RequestsAskOne
<1>2. ASSUME NEW kind \in {"request", "scan"}, NEW qs, Stamp(kind, qs),
             kind = "request" => \E q \in Queries : qs = {q}
      PROVE  RequestsAskOne'
  <2>1. ASSUME NEW i \in 1..Len(asked'), asked'[i].kind = "request"
        PROVE  \E q \in Queries : asked'[i].qs = {q}
    <3>. DEFINE n == Len(asked)
    <3>1. /\ n \in Nat /\ Len(asked') = n + 1
          /\ asked'[n + 1] = [kind |-> kind, qs |-> qs, turn |-> turn']
      BY <1>2, StampLast
    <3>2. CASE i \in 1..n      BY <2>1, <3>2, KeysStay DEF RequestsAskOne
    <3>3. CASE i = n + 1       BY <1>2, <2>1, <3>1, <3>3
    <3>4. i \in 1..n \/ i = n + 1
      <4>. HIDE DEF n
      <4>. QED  BY <3>1
    <3>. QED  BY <3>2, <3>3, <3>4
  <2>. QED  BY <2>1 DEF RequestsAskOne
<1>. QED  BY <1>1, <1>2, StampKinds

\* A call wakes on an answer to everything it asked, or on a failure.
LEMMA EventSettledStep ==
    ASSUME TypeOK, SinkTaken, RequestsAskOne, EventSettled, [Next]_vars
    PROVE  EventSettled'
<1>. SUFFICES ASSUME NEW i \in event'
              PROVE  /\ i <= Len(asked')
                     /\ asked'[i].kind = "request" =>
                          \A q \in asked'[i].qs : Settled(i, q)'
  BY DEF EventSettled
<1>1. i \in Ids
  BY NextType DEF TypeOK, SinkType
<1>2. CASE i \in event
  <2>1. i \in 1..Len(asked)  BY <1>1, <1>2 DEF EventSettled, TypeOK, AskingType
  <2>2. i \in 1..Len(asked') /\ asked'[i] = asked[i]  BY <2>1, KeysStay
  <2>. QED  BY <1>2, <2>1, <2>2, SettledStays DEF EventSettled
<1>3. CASE sink # 0 /\ i = sink /\ i \in failed' /\ UNCHANGED asked
  BY <1>3 DEF Settled, TypeOK, SinkHeld, AskingType
<1>4. ASSUME NEW r \in Readers, Offer(r), i \notin event PROVE i <= Len(asked')
             /\ (asked'[i].kind = "request" => \A q \in asked'[i].qs : Settled(i, q)')
  <2>. DEFINE s == reader[r].sink
              f == reader[r].frame
  <2>1. PICK p \in TakenFor(s, f) : s # 0 /\ Accept(s, f, p) /\ asked' = asked
    BY <1>4 DEF Offer, sinkVars, callerVars
  <2>2. f \in Frames /\ s \in 0..MaxExchanges
    BY <1>4 DEF Offer, TypeOK, WireType, ReaderStates
  <2>3. i = s /\ asked[s].qs \subseteq Answered(s) \cup {p}
    BY <1>4, <2>1 DEF Accept
  <2>4. s \in 1..Len(asked)
    <3>1. s <= Len(asked)  BY <1>4 DEF SinkTaken, Offer
    <3>. QED  BY <2>1, <2>2, <3>1, TransportAssumption DEF TypeOK, AskingType
  <2>5. ASSUME NEW q \in asked[i].qs PROVE Settled(i, q)'
    <3>1. CASE q = p
      <4>1. q \in Queries  BY <2>3, <2>4, AskedType DEF TypeOK
      <4>2. Accept(i, f, q) /\ f \in Frames  BY <2>1, <2>2, <2>3, <3>1
      <4>. HIDE DEF NoFrame, Frames, Ids, f
      <4>. QED  BY <1>1, <4>1, <4>2, AcceptDoes DEF Settled
    <3>2. CASE q # p
      <4>1. Settled(i, q)  BY <2>3, <3>2 DEF Answered, Settled
      <4>. QED  BY <2>3, <2>4, <4>1, SettledStays
    <3>. QED  BY <3>1, <3>2
  <2>. QED  BY <2>1, <2>3, <2>4, <2>5 DEF TypeOK, AskingType
<1>5. \/ i \in event \/ (sink # 0 /\ i = sink /\ i \in failed' /\ UNCHANGED asked)
      \/ \E r \in Readers : Offer(r)
  <2>1. CASE CallerNext
    BY <2>1 DEF CallerNext, Request, Scan, Retry, Stamp, RetryRefused, Install,
       Write, WriteFails, TimesOut, Abandon, Clear, Return, sinkVars
  <2>2. ASSUME FailPending, UNCHANGED asked, i \notin event
        PROVE  sink # 0 /\ i = sink /\ i \in failed'
    BY <2>2 DEF FailPending
  <2>3. CASE \E r \in Readers : ReaderNext(r)
    BY <2>2, <2>3 DEF ReaderNext, Read, ReadForeign, CheckAbandoned, AbandonRaced, TakeSink,
       ReadFails, ReaderExits, sinkVars, callerVars
  <2>4. CASE \E c \in Closers : CloserNext(c)
    BY <2>2, <2>4 DEF CloserNext, CloseBegins, Judge, Judged, ForgetReaders, CloseHandles,
       CloseClears, CloserStep, sinkVars, callerVars
  <2>5. CASE ClockNext \/ Finished \/ UNCHANGED vars
    BY <2>5 DEF ClockNext, AbandonedExpires, ForeignCools, Finished, vars, sinkVars
  <2>. QED  BY <2>1, <2>3, <2>4, <2>5 DEF Next
<1>. QED  BY <1>2, <1>3, <1>4, <1>5

\* How a reply comes into a reader's hands and moves on in them.
LEMMA HoldingStep ==
    ASSUME TypeOK, [Next]_vars, NEW r \in Readers, NEW i \in Ids, NEW q \in Queries,
           Holding(r, i, q)'
    PROVE  \/ Holding(r, i, q) /\ reader'[r] = reader[r]
           \/ /\ <<i, q>> \in owed /\ <<i, q>> \notin owed' /\ owed' \subseteq owed
              /\ reader'[r].pc = "check"
              /\ UNCHANGED <<abandoned, caller, asked>>
              /\ \A s \in Readers \ {r} : reader'[s] = reader[s]
           \/ /\ Holding(r, i, q) /\ reader[r].pc = "check"
              /\ FrameKey(reader[r].frame) \notin abandoned
           \/ Holding(r, i, q) /\ reader[r].pc = "take"
<1>1. reader \in [Readers -> ReaderStates]  BY DEF TypeOK, WireType
<1>2. CASE reader'[r] = reader[r]  BY <1>2 DEF Holding
<1>3. CASE Read(r)
  <2>1. PICK o \in owed, kind \in Kinds :
          /\ owed' = owed \ {o}
          /\ Hears(r, [q |-> o[2], sw |-> SwId(asked[o[1]].turn),
                       from |-> o[1], kind |-> kind])
    BY <1>3 DEF Read
  <2>2. o = <<o[1], o[2]>>  BY DEF TypeOK, WireType
  <2>3. /\ reader'[r].pc = "check"
        /\ reader'[r].frame.from = o[1] /\ reader'[r].frame.q = o[2]
        /\ \A s \in Readers \ {r} : reader'[s] = reader[s]
    BY <1>1, <2>1 DEF Hears
  <2>4. o = <<i, q>>  BY <2>2, <2>3 DEF Holding
  <2>. QED  BY <1>3, <2>1, <2>3, <2>4 DEF Read, ledgerVars, callerVars
<1>4. CASE ReadForeign(r)
  <2>1. reader'[r].frame.from = 0  BY <1>1, <1>4 DEF ReadForeign, Hears
  <2>. QED  BY <2>1, TransportAssumption DEF Holding
<1>5. CASE CheckAbandoned(r)
  <2>1. CASE FrameKey(reader[r].frame) \in abandoned
    <3>1. reader'[r].pc \in {"reading", "exited"}
      BY <1>1, <1>5, <2>1 DEF CheckAbandoned, Resumed, Listening
    <3>. QED  BY <3>1 DEF Holding
  <2>2. CASE FrameKey(reader[r].frame) \notin abandoned
    <3>1. reader[r].pc = "check" /\ reader'[r].frame = reader[r].frame
      BY <1>1, <1>5, <2>2 DEF CheckAbandoned
    <3>. QED  BY <2>2, <3>1 DEF Holding
  <2>. QED  BY <2>1, <2>2
<1>6. CASE TakeSink(r)
  <2>1. reader[r].pc = "take" /\ reader'[r].frame = reader[r].frame
    BY <1>1, <1>6 DEF TakeSink
  <2>. QED  BY <2>1 DEF Holding
<1>7. CASE AbandonRaced(r) \/ Offer(r) \/ ReadFails(r) \/ ReaderExits(r)
  <2>1. reader'[r].pc \in {"reading", "exited"}
    BY <1>1, <1>7 DEF AbandonRaced, Offer, ReadFails, ReaderExits, Resumed, Listening
  <2>. QED  BY <2>1 DEF Holding
<1>. QED  BY <1>2, <1>3, <1>4, <1>5, <1>6, <1>7, ReaderSteps DEF ReaderNext

\* Only a write asks the receiver for more.
LEMMA OwedStep ==
    ASSUME TypeOK, [Next]_vars
    PROVE  \/ owed' \subseteq owed
           \/ \E q \in caller.unsent : Write(q) /\ owed' = owed \cup {<<Current, q>>}
BY DEF Next, CallerNext, Request, Scan, Retry, Stamp, RetryRefused, Install,
       Write, WriteFails, TimesOut, Abandon, Clear, Return, ReaderNext, Read,
       ReadForeign, CheckAbandoned, AbandonRaced, TakeSink, Offer, ReadFails,
       ReaderExits, CloserNext, CloseBegins, Judge, Judged, ForgetReaders, CloseHandles,
       CloseClears, CloserStep, ClockNext, AbandonedExpires, ForeignCools, Finished, vars

\* Replies answer what was asked, on the wire, in hand and in the sinks.
LEMMA WireTrueStep ==
    ASSUME LedgerInv, [Next]_vars PROVE WireTrue'
<1>. USE DEF LedgerInv, TransportInv
<1>. DEFINE Made(i, q) == i \in 1..Len(asked) /\ q \in asked[i].qs
<1>. SUFFICES ASSUME NEW i \in Ids, NEW q \in Queries,
                     \/ <<i, q>> \in owed' \/ frames'[i][q] # NoFrame
                     \/ \E r \in Readers : Holding(r, i, q)'
                     \/ \E j \in Ids, p \in Queries :
                          frames'[j][p].from = i /\ frames'[j][p].q = q
              PROVE  i <= Len(asked') /\ q \in asked'[i].qs
  BY DEF WireTrue
<1>1. ASSUME Made(i, q) PROVE i <= Len(asked') /\ q \in asked'[i].qs
  BY <1>1, KeysStay DEF TypeOK, AskingType
<1>2. ASSUME \/ <<i, q>> \in owed \/ frames[i][q] # NoFrame
             \/ \E r \in Readers : Holding(r, i, q)
             \/ \E j \in Ids, p \in Queries : frames[j][p].from = i /\ frames[j][p].q = q
      PROVE  Made(i, q)
  BY <1>2 DEF WireTrue, TypeOK, AskingType
<1>3. CASE <<i, q>> \in owed'
  <2>1. CASE <<i, q>> \in owed  BY <1>1, <1>2, <2>1
  <2>2. ASSUME NEW p \in caller.unsent, Write(p), <<i, q>> = <<Current, p>>
        PROVE  Made(i, q)
    <3>1. i = Current /\ q = p /\ caller.pc = "write"  BY <2>2 DEF Write
    <3>2. Current \in 1..Len(asked)  BY <3>1, CurrentMade DEF TypeOK
    <3>. QED  BY <3>1, <3>2 DEF UnsentQuiet
  <2>. QED  BY <1>1, <1>3, <2>1, <2>2, OwedStep
<1>4. ASSUME NEW r \in Readers, Holding(r, i, q)' PROVE Made(i, q)
  BY <1>2, <1>4, HoldingStep DEF TypeOK
<1>. DEFINE Credited == \E j \in Ids, p \in Queries : frames'[j][p].from = i /\ frames'[j][p].q = q
<1>5. CASE UNCHANGED frames /\ (frames'[i][q] # NoFrame \/ Credited)
  BY <1>1, <1>2, <1>5
<1>6. ASSUME NEW r \in Readers, Offer(r), reader[r].sink \in Ids, reader[r].frame \in Frames,
             NEW w \in TakenFor(reader[r].sink, reader[r].frame),
             Accept(reader[r].sink, reader[r].frame, w),
             frames'[i][q] # NoFrame \/ Credited
      PROVE  Made(i, q)
  <2>. DEFINE s == reader[r].sink
              f == reader[r].frame
  <2>1. s \in 1..Len(asked)  BY <1>6 DEF SinkTaken, Offer, TypeOK, AskingType
  <2>2. w \in asked[s].qs /\ w \in Queries  BY <1>6, <2>1, AskedType DEF TakenFor, TypeOK
  <2>3. CASE frames[i][q] # NoFrame  BY <1>2, <2>3
  <2>4. CASE frames'[i][q] # NoFrame /\ frames[i][q] = NoFrame
    <3>1. i = s /\ q = w
      <4>1. frames'[i][q] # frames[i][q]  BY <2>4
      <4>. QED  BY <1>6, <4>1 DEF Accept, TypeOK, SinkType
    <3>. QED  BY <2>1, <2>2, <3>1
  <2>5. ASSUME NEW j \in Ids, NEW p \in Queries, frames'[j][p].from = i, frames'[j][p].q = q
        PROVE  Made(i, q)
    <3>1. CASE frames'[j][p] = frames[j][p]  BY <1>2, <2>5, <3>1
    <3>2. CASE frames'[j][p] # frames[j][p]
      <4>1. /\ j = s /\ p = w
            /\ frames'[j][p] = [q |-> f.q, from |-> f.from, kind |-> f.kind]
        <5>. HIDE DEF NoFrame, Frames, Ids
        <5>. QED  BY <1>6, <2>2, <2>5, <3>2, AcceptDoes
      <4>2. frames'[j][p] = [q |-> f.q, from |-> f.from, kind |-> f.kind]
        BY <4>1
      <4>3. f.from = i /\ f.q = q  BY <2>5, <4>2
      <4>4. Holding(r, i, q)  BY <1>6, <4>3 DEF Holding, Offer
      <4>. QED  BY <1>2, <4>4
    <3>. QED  BY <3>1, <3>2
  <2>. QED  BY <1>6, <2>3, <2>4, <2>5
<1>. QED  BY <1>1, <1>3, <1>4, <1>5, <1>6, FramesStep

\* A question is answered once.
LEMMA HeardOnceStep ==
    ASSUME LedgerInv, [Next]_vars PROVE HeardOnce'
<1>. USE DEF LedgerInv, TransportInv
<1>. SUFFICES ASSUME NEW i \in Ids, NEW q \in Queries, NEW r \in Readers, Holding(r, i, q)'
              PROVE  <<i, q>> \notin owed' /\ \A s \in Readers \ {r} : ~Holding(s, i, q)'
  BY DEF HeardOnce
<1>1. CASE Holding(r, i, q)
  <2>1. <<i, q>> \notin owed /\ \A s \in Readers \ {r} : ~Holding(s, i, q)
    BY <1>1 DEF HeardOnce
  <2>2. <<i, q>> \notin owed'
    <3>1. ASSUME NEW p \in caller.unsent, Write(p), <<i, q>> = <<Current, p>> PROVE FALSE
      <4>1. i = Current /\ q = p /\ caller.pc = "write"  BY <3>1 DEF Write
      <4>. QED  BY <1>1, <4>1 DEF UnsentQuiet
    <3>. QED  BY <2>1, <3>1, OwedStep
  <2>. QED  BY <2>1, <2>2, HoldingStep
<1>2. CASE ~Holding(r, i, q)
  <2>1. /\ <<i, q>> \in owed /\ <<i, q>> \notin owed'
        /\ \A s \in Readers \ {r} : reader'[s] = reader[s]
    BY <1>2, HoldingStep
  <2>. QED  BY <2>1 DEF HeardOnce, Holding
<1>. QED  BY <1>1, <1>2

\* What the caller has still to send was never heard.
LEMMA UnsentQuietStep ==
    ASSUME LedgerInv, [Next]_vars PROVE UnsentQuiet'
<1>. USE DEF LedgerInv, TransportInv
<1>1. ASSUME NEW kind \in {"request", "scan"}, NEW qs, Stamp(kind, qs) PROVE UnsentQuiet'
  <2>1. /\ Len(asked) \in Nat /\ Len(asked) + 1 \in Ids /\ Len(asked') = Len(asked) + 1
        /\ asked'[Len(asked) + 1] = [kind |-> kind, qs |-> qs, turn |-> turn']
    BY <1>1, StampLast
  <2>2. caller'.unsent = qs /\ UNCHANGED <<owed, reader>>  BY <1>1 DEF Stamp
  <2>3. PICK n \in Ids : n = Len(asked) + 1  BY <2>1
  <2>4. n = Current' /\ asked'[n].qs = qs  BY <2>1, <2>3 DEF Current
  <2>5. \A q : <<n, q>> \notin owed
    BY <2>1, <2>3 DEF TypeOK, WireType
  <2>6. \A q : \A r \in Readers : ~Holding(r, n, q)
    <3>1. \A r \in Readers : reader[r].pc \in {"check", "take", "offer"} =>
            reader[r].frame.from # n
      BY <2>1, <2>3 DEF HeardTrue
    <3>. QED  BY <3>1 DEF Holding
  <2>7. ASSUME NEW q \in qs
        PROVE  <<n, q>> \notin owed' /\ \A r \in Readers : ~Holding(r, n, q)'
    <3>1. owed' = owed /\ reader' = reader  BY <2>2
    <3>2. <<n, q>> \notin owed'  BY <2>5, <3>1
    <3>3. ASSUME NEW r \in Readers PROVE ~Holding(r, n, q)'
      <4>1. ~Holding(r, n, q)  BY <2>6
      <4>. QED  BY <3>1, <4>1 DEF Holding
    <3>. QED  BY <3>2, <3>3
  <2>8. \A q \in qs : /\ <<Current', q>> \notin owed'
                    /\ \A r \in Readers : ~Holding(r, Current, q)'
    BY <2>4, <2>7 DEF Holding
  <2>. QED  BY <2>2, <2>4, <2>8 DEF UnsentQuiet
<1>2. ASSUME UNCHANGED asked, owed' \subseteq owed,
             caller'.pc \in {"stamped", "write"} =>
               caller.pc \in {"stamped", "write"} /\ caller'.unsent = caller.unsent
      PROVE  UnsentQuiet'
  <2>. SUFFICES ASSUME caller'.pc \in {"stamped", "write"} PROVE UnsentQuiet'
    BY DEF UnsentQuiet
  <2>1. Current' = Current /\ caller'.unsent = caller.unsent  BY <1>2 DEF Current
  <2>2. Current \in Ids /\ caller.unsent \subseteq Queries
    BY <1>2, CurrentMade, AskedType DEF TypeOK, AskingType
  <2>3. ASSUME NEW q \in caller.unsent, NEW r \in Readers, Holding(r, Current, q)'
        PROVE  FALSE
    <3>. DEFINE i == Len(asked)
    <3>1. i \in Ids /\ q \in Queries /\ Len(asked') = i  BY <1>2, <2>2 DEF Current
    <3>2. Holding(r, i, q)'  BY <2>3, <3>1 DEF Holding, Current
    <3>3. Holding(r, i, q) \/ <<i, q>> \in owed  BY <3>1, <3>2, HoldingStep
    <3>. QED  BY <1>2, <3>3 DEF UnsentQuiet, Current
  <2>. QED  BY <1>2, <2>1, <2>3 DEF UnsentQuiet
<1>3. ASSUME NEW p \in caller.unsent, Write(p) PROVE UnsentQuiet'
  <2>1. /\ caller.pc = "write" /\ UNCHANGED <<asked, reader>>
        /\ owed' = owed \cup {<<Current, p>>}
        /\ caller'.unsent = caller.unsent \ {p}
        /\ caller'.pc = "write" => caller.unsent # {p}
        /\ caller'.pc # "stamped"
    BY <1>3 DEF Write, TypeOK, AskingType
  <2>2. Current' = Current  BY <2>1 DEF Current
  <2>3. Current \in 1..Len(asked)  BY <2>1, CurrentMade DEF TypeOK
  <2>4. asked[Current].kind = "request" => caller'.pc # "write"
    BY <2>1, <2>3 DEF UnsentQuiet, RequestsAskOne
  <2>. QED  BY <2>1, <2>2, <2>4 DEF UnsentQuiet, Holding
<1>4. \/ \E kind \in {"request", "scan"}, qs \in SUBSET Queries : Stamp(kind, qs)
      \/ UNCHANGED asked
  BY StampKinds
<1>5. ASSUME UNCHANGED asked
      PROVE  \/ \E p \in caller.unsent : Write(p)
             \/ caller'.pc \in {"stamped", "write"} =>
                  caller.pc \in {"stamped", "write"} /\ caller'.unsent = caller.unsent
  <2>1. caller \in [pc : CallerStates, unsent : SUBSET Queries,
                   raised : {"none", "timeout", "closed", "crash"}]
    BY DEF TypeOK, AskingType
  <2>2. ASSUME NEW kind, NEW qs, Stamp(kind, qs) PROVE FALSE
    <3>1. Len(asked') = Len(asked) + 1 /\ Len(asked) \in Nat  BY <2>2, StampLast
    <3>2. Len(asked') = Len(asked)  BY <1>5
    <3>. QED  BY <3>1, <3>2
  <2>3. CASE CallerNext
    <3>1. CASE RetryRefused \/ Install
      BY <2>1, <3>1 DEF RetryRefused, Install
    <3>2. CASE WriteFails \/ Abandon \/ Clear
      BY <2>1, <3>2 DEF WriteFails, Abandon, Clear
    <3>3. CASE TimesOut  BY <2>1, <3>3 DEF TimesOut
    <3>4. CASE Return    BY <2>1, <3>4 DEF Return
    <3>. QED
      BY <2>2, <2>3, <3>1, <3>2, <3>3, <3>4 DEF CallerNext, Request, Scan, Retry
  <2>4. CASE \E r \in Readers : ReaderNext(r)
    BY <2>1, <2>4 DEF ReaderNext, Read, ReadForeign, CheckAbandoned, AbandonRaced,
       TakeSink, Offer, ReadFails, ReaderExits, callerVars
  <2>5. CASE (\E c \in Closers : CloserNext(c)) \/ ClockNext \/ Finished \/ UNCHANGED vars
    BY <2>5 DEF CloserNext, CloseBegins, Judge, Judged, ForgetReaders, CloseHandles, CloseClears,
       CloserStep, ClockNext, AbandonedExpires, ForeignCools, Finished, vars, callerVars
  <2>. QED  BY <2>3, <2>4, <2>5 DEF Next
<1>6. CASE \E p \in caller.unsent : Write(p)  BY <1>3, <1>6
<1>. QED  BY <1>1, <1>2, <1>4, <1>5, <1>6, OwedStep

\* What loses its guard does not get it back.
LEMMA UnguardedGrows == ASSUME [Next]_vars PROVE unguarded \subseteq unguarded'
BY DEF Next, CallerNext, Request, Scan, Retry, Stamp, RetryRefused, Install,
       Write, WriteFails, TimesOut, Abandon, Clear, Return, ReaderNext, Read,
       ReadForeign, CheckAbandoned, AbandonRaced, TakeSink, Offer, ReadFails,
       ReaderExits, CloserNext, CloseBegins, Judge, Judged, ForgetReaders, CloseHandles,
       CloseClears, CloserStep, ClockNext, AbandonedExpires, ForeignCools,
       Finished, vars, historyVars

\* An entry leaves the ledger with the very reply it stood for, or whatever it guarded
\* is on record as unguarded.
LEMMA EntryLeaves ==
    ASSUME TypeOK, HeardTrue, [Next]_vars, NEW i \in 1..Len(asked), NEW q \in asked[i].qs,
           Key(i, q) \in abandoned, Key(i, q) \notin abandoned'
    PROVE  \/ i \in unguarded'
           \/ \E r \in Readers : Holding(r, i, q) /\ reader'[r] = Resumed
<1>1. Key(i, q) \in KeysOf(i) /\ q \in Queries  BY AskedType DEF KeysOf, TypeOK
<1>2. reader \in [Readers -> ReaderStates]  BY DEF TypeOK, WireType
<1>3. CASE \E k \in abandoned : AbandonedExpires(k)
  BY <1>1, <1>3 DEF AbandonedExpires
<1>4. ASSUME NEW r \in Readers, reader[r].pc = "check",
             reader'[r] = Resumed, Key(i, q) = FrameKey(reader[r].frame),
             UsedUp(reader[r].frame) \subseteq unguarded'
      PROVE  i \in unguarded' \/ (Holding(r, i, q) /\ reader'[r] = Resumed)
  <2>. DEFINE f == reader[r].frame
  <2>1. f.q = q  BY <1>4 DEF Key, FrameKey
  <2>2. CASE i = f.from  BY <1>4, <2>1, <2>2 DEF Holding
  <2>3. CASE i # f.from  BY <1>1, <1>4, <2>3 DEF UsedUp
  <2>. QED  BY <2>2, <2>3
<1>5. ASSUME NEW r \in Readers, CheckAbandoned(r)
      PROVE  i \in unguarded' \/ (Holding(r, i, q) /\ reader'[r] = Resumed)
  <2>1. /\ reader[r].pc = "check" /\ reader'[r] = Resumed
        /\ Key(i, q) = FrameKey(reader[r].frame)
        /\ UsedUp(reader[r].frame) \subseteq unguarded'
    BY <1>2, <1>5 DEF CheckAbandoned
  <2>. QED  BY <1>4, <2>1
<1>6. ASSUME NEW r \in Readers, AbandonRaced(r)
      PROVE  i \in unguarded' \/ (Holding(r, i, q) /\ reader'[r] = Resumed)
  <2>1. /\ reader[r].pc = "check" /\ reader'[r] = Resumed
        /\ Key(i, q) = FrameKey(reader[r].frame)
        /\ UsedUp(reader[r].frame) \subseteq unguarded'
    BY <1>2, <1>6 DEF AbandonRaced
  <2>. QED  BY <1>4, <2>1
<1>7. \/ abandoned \subseteq abandoned' \/ \E k \in abandoned : AbandonedExpires(k)
      \/ \E r \in Readers : CheckAbandoned(r) \/ AbandonRaced(r)
  BY DEF Next, CallerNext, Request, Scan, Retry, Stamp, RetryRefused, Install,
         Write, WriteFails, TimesOut, Abandon, Clear, Return, ReaderNext, Read,
         ReadForeign, TakeSink, Offer, ReadFails, ReaderExits, CloserNext,
         CloseBegins, Judge, Judged, ForgetReaders, CloseHandles, CloseClears, CloserStep, ClockNext,
         ForeignCools, Finished, vars, ledgerVars
<1>. QED  BY <1>3, <1>5, <1>6, <1>7

\* How a call comes to be over.
LEMMA OverStep ==
    ASSUME TypeOK, SinkHeld, [Next]_vars, NEW i \in 1..Len(asked), ~Over(i), Over(i)'
    PROVE  /\ i = Current
           /\ \/ WriteFails \/ Abandon
              \/ TimesOut /\ asked[i].kind = "scan"
              \/ caller.pc = "wait" /\ i \in event
              \/ \E r \in Readers : AbandonRaced(r)
<1>1. i = Current /\ caller.pc \notin {"idle", "clear", "return"}
  BY DEF Over, Current, TypeOK, AskingType
<1>2. caller \in [pc : CallerStates, unsent : SUBSET Queries,
                 raised : {"none", "timeout", "closed", "crash"}]
  BY DEF TypeOK, AskingType
<1>3. UNCHANGED asked
  <2>1. ASSUME NEW kind, NEW qs, Stamp(kind, qs), Idle PROVE FALSE
    BY <1>1, <2>1 DEF Idle
  <2>. QED  BY <2>1, StampKinds
<1>4. caller'.pc \in {"idle", "clear", "return"}
  BY <1>1, <1>3 DEF Over, Current, TypeOK, AskingType
<1>5. CASE CallerNext
  <2>1. CASE RetryRefused \/ Install \/ Return \/ (\E q \in caller.unsent : Write(q))
    BY <1>1, <1>2, <1>4, <2>1 DEF RetryRefused, Install, Return, Write
  <2>2. CASE TimesOut  BY <1>1, <1>2, <1>4, <2>2 DEF TimesOut
  <2>3. CASE Clear     BY <1>1, <2>3 DEF Clear
  <2>. QED
    BY <1>1, <1>5, <2>1, <2>2, <2>3 DEF CallerNext, Request, Scan, Retry, Idle
<1>6. CASE \E r \in Readers : ReaderNext(r)
  BY <1>1, <1>4, <1>6 DEF ReaderNext, Read, ReadForeign, CheckAbandoned, TakeSink, Offer,
     ReadFails, ReaderExits, callerVars
<1>7. CASE (\E c \in Closers : CloserNext(c)) \/ ClockNext \/ Finished \/ UNCHANGED vars
  BY <1>1, <1>4, <1>7 DEF CloserNext, CloseBegins, Judge, Judged, ForgetReaders, CloseHandles, CloseClears,
     CloserStep, ClockNext, AbandonedExpires, ForeignCools, Finished, vars, callerVars
<1>. QED  BY <1>1, <1>5, <1>6, <1>7 DEF Next

\* A reply in a reader's hands carries the key it was asked under.
LEMMA HeldKey ==
    ASSUME TypeOK, HeardTrue, NEW r \in Readers, NEW i \in Ids, NEW q \in Queries,
           Holding(r, i, q)
    PROVE  FrameKey(reader[r].frame) = Key(i, q)
<1>1. reader[r].frame.from # 0  BY DEF Holding
<1>2. reader[r].frame.sw = SwId(asked[i].turn)  BY <1>1 DEF HeardTrue, Holding
<1>. QED  BY <1>2 DEF Holding, FrameKey, Key

\* The ledger stands guard over every request that gave up.
LEMMA GuardStandsStep ==
    ASSUME LedgerInv, [Next]_vars PROVE GuardStands'
<1>. USE DEF LedgerInv, TransportInv
<1>. SUFFICES ASSUME NEW i \in 1..Len(asked'), NEW q \in asked'[i].qs,
                     asked'[i].kind = "request", Over(i)', ~Settled(i, q)',
                     i \notin unguarded'
              PROVE  /\ <<i, q>> \in owed' => Key(i, q)' \in abandoned'
                     /\ \A r \in Readers : Holding(r, i, q)' =>
                          reader'[r].pc = "check" /\ Key(i, q)' \in abandoned'
  BY DEF GuardStands
<1>1. i \in 1..Len(asked)
  <2>1. ASSUME NEW kind, NEW qs, Stamp(kind, qs), i \notin 1..Len(asked) PROVE FALSE
    <3>1. /\ Len(asked') = Len(asked) + 1 /\ Len(asked) \in Nat /\ caller'.pc = "stamped"
      BY <2>1, StampLast DEF Stamp
    <3>2. i = Len(asked')  BY <2>1, <3>1
    <3>. QED  BY <3>1, <3>2 DEF Over, Current
  <2>. QED  BY <2>1, StampKinds
<1>2. /\ i \in Ids /\ asked'[i] = asked[i] /\ Key(i, q)' = Key(i, q)
      /\ KeysOf(i)' = KeysOf(i) /\ q \in Queries
  BY <1>1, KeysStay, AskedType DEF TypeOK
<1>3. ~Settled(i, q) /\ i \notin unguarded /\ asked[i].kind = "request" /\ q \in asked[i].qs
  BY <1>1, <1>2, SettledStays, UnguardedGrows
<1>4. Key(i, q) \in KeysOf(i)  BY <1>3 DEF KeysOf
<1>5. CASE Over(i)
  <2>1. /\ <<i, q>> \in owed => Key(i, q) \in abandoned
        /\ \A r \in Readers : Holding(r, i, q) =>
             reader[r].pc = "check" /\ Key(i, q) \in abandoned
    BY <1>1, <1>3, <1>5 DEF GuardStands
  <2>2. <<i, q>> \in owed' => <<i, q>> \in owed
    <3>1. ASSUME NEW p \in caller.unsent, Write(p), <<i, q>> = <<Current, p>> PROVE FALSE
      BY <1>5, <3>1 DEF Write, Over, Current, TypeOK, AskingType
    <3>. QED  BY <3>1, OwedStep
  <2>3. CASE Key(i, q) \in abandoned /\ Key(i, q) \notin abandoned'
    <3>1. PICK s \in Readers : Holding(s, i, q) /\ reader'[s] = Resumed
      BY <1>1, <1>3, <2>3, EntryLeaves
    <3>2. <<i, q>> \notin owed /\ \A r \in Readers \ {s} : ~Holding(r, i, q)
      BY <1>2, <3>1 DEF HeardOnce
    <3>3. ~Holding(s, i, q)'  BY <3>1 DEF Holding, Resumed, Listening
    <3>4. \A r \in Readers : ~Holding(r, i, q)'
      BY <1>2, <3>2, <3>3, HoldingStep
    <3>. QED  BY <2>2, <3>2, <3>4
  <2>4. CASE Key(i, q) \in abandoned => Key(i, q) \in abandoned'
    <3>1. ASSUME NEW r \in Readers, Holding(r, i, q)'
          PROVE  reader'[r].pc = "check" /\ Key(i, q) \in abandoned'
      <4>1. \/ Holding(r, i, q) /\ reader'[r] = reader[r]
            \/ /\ <<i, q>> \in owed /\ reader'[r].pc = "check"
            \/ /\ Holding(r, i, q) /\ reader[r].pc = "check"
               /\ FrameKey(reader[r].frame) \notin abandoned
            \/ Holding(r, i, q) /\ reader[r].pc = "take"
        BY <1>2, <3>1, HoldingStep
      <4>2. Holding(r, i, q) => FrameKey(reader[r].frame) \in abandoned
        BY <1>2, <2>1, HeldKey
      <4>. QED  BY <2>1, <2>4, <4>1, <4>2
    <3>. QED  BY <1>2, <2>1, <2>2, <2>4, <3>1
  <2>. QED  BY <2>3, <2>4
<1>6. CASE ~Over(i)
  <2>1. i = Current  BY <1>1, <1>6, OverStep DEF TypeOK
  <2>2. CASE WriteFails
    <3>1. caller.pc = "write" /\ UNCHANGED <<owed, reader>>  BY <2>2 DEF WriteFails
    <3>2. <<i, q>> \notin owed /\ \A r \in Readers : ~Holding(r, i, q)
      BY <1>3, <2>1, <3>1 DEF UnsentQuiet
    <3>. QED  BY <3>1, <3>2 DEF Holding
  <2>3. ASSUME KeysOf(i) \subseteq abandoned', PastCheck(i) => i \in unguarded',
               \A r \in Readers : reader'[r] = reader[r] \/ reader'[r] = Resumed
        PROVE  /\ <<i, q>> \in owed' => Key(i, q)' \in abandoned'
               /\ \A r \in Readers : Holding(r, i, q)' =>
                    reader'[r].pc = "check" /\ Key(i, q)' \in abandoned'
    <3>1. Key(i, q)' \in abandoned'  BY <1>2, <1>4, <2>3
    <3>2. ASSUME NEW r \in Readers, Holding(r, i, q)' PROVE reader'[r].pc = "check"
      <4>1. reader'[r] = reader[r]  BY <2>3, <3>2 DEF Holding, Resumed, Listening
      <4>2. reader[r].pc \in {"check", "take", "offer"} /\ reader[r].frame.from = i
        BY <3>2, <4>1 DEF Holding
      <4>3. ~PastCheck(i)  BY <2>3
      <4>. QED  BY <4>1, <4>2, <4>3 DEF PastCheck
    <3>. QED  BY <3>1, <3>2
  <2>4. CASE Abandon
    BY <2>1, <2>3, <2>4 DEF Abandon
  <2>5. ASSUME NEW r \in Readers, AbandonRaced(r)
        PROVE  /\ KeysOf(i) \subseteq abandoned' /\ (PastCheck(i) => i \in unguarded')
               /\ \A s \in Readers : reader'[s] = reader[s] \/ reader'[s] = Resumed
    BY <2>1, <2>5 DEF AbandonRaced, TypeOK, WireType
  <2>6. CASE caller.pc = "wait" /\ i \in event
    BY <1>3, <2>6 DEF EventSettled
  <2>7. \/ WriteFails \/ Abandon \/ (TimesOut /\ asked[i].kind = "scan")
        \/ caller.pc = "wait" /\ i \in event
        \/ \E r \in Readers : AbandonRaced(r)
    BY <1>1, <1>6, OverStep DEF TypeOK
  <2>. QED  BY <1>3, <2>2, <2>3, <2>4, <2>5, <2>6, <2>7
<1>. QED  BY <1>5, <1>6

\* A reply, wherever it is, answers an exchange that was made and its question.
LEMMA ReplyMade ==
    ASSUME TypeOK, WireTrue, NEW i \in Ids, NEW q \in Queries,
           \/ \E r \in Readers : Holding(r, i, q)
           \/ \E j \in Ids, p \in Queries : frames[j][p].from = i /\ frames[j][p].q = q
    PROVE  i \in 1..Len(asked) /\ q \in asked[i].qs
<1>1. i <= Len(asked) /\ q \in asked[i].qs  BY DEF WireTrue
<1>2. Len(asked) \in Nat                    BY DEF TypeOK, AskingType
<1>. QED  BY <1>1, <1>2

\* What was asked is forgotten only once it is settled.
LEMMA AskedRememberedStep ==
    ASSUME LedgerInv, [Next]_vars PROVE AskedRemembered'
<1>. USE DEF LedgerInv, TransportInv
<1>. SUFFICES ASSUME NEW i \in 1..Len(asked'), NEW q \in asked'[i].qs
              PROVE  \/ Key(i, q)' \in recent'
                     \/ \E j \in i..Len(asked') : Key(i, q)' \in KeysOf(j)' /\ Settled(j, q)'
  BY DEF AskedRemembered
<1>1. CASE i \in 1..Len(asked)
  <2>1. asked'[i] = asked[i] /\ Key(i, q)' = Key(i, q) /\ q \in asked[i].qs
    BY <1>1, KeysStay
  <2>2. ASSUME NEW j \in i..Len(asked), Key(i, q) \in KeysOf(j), Settled(j, q)
        PROVE  \E k \in i..Len(asked') : Key(i, q)' \in KeysOf(k)' /\ Settled(k, q)'
    <3>1. j \in 1..Len(asked)  BY <1>1 DEF TypeOK, AskingType
    <3>2. q \in asked[j].qs    BY <2>2 DEF KeysOf, Key
    <3>3. Settled(j, q)' /\ KeysOf(j)' = KeysOf(j)
      BY <2>2, <3>1, <3>2, SettledStays, KeysStay
    <3>4. j \in i..Len(asked')  BY AskedGrows DEF TypeOK, AskingType
    <3>. QED  BY <2>1, <2>2, <3>3, <3>4
  <2>3. CASE Key(i, q) \in recent /\ Key(i, q) \notin recent'
    <3>1. Return
      BY <2>3 DEF Next, CallerNext, Request, Scan, Retry, Stamp, RetryRefused, Install,
         Write, WriteFails, TimesOut, Abandon, Clear, ReaderNext, Read, ReadForeign,
         CheckAbandoned, AbandonRaced, TakeSink, Offer, ReadFails, ReaderExits,
         CloserNext, CloseBegins, Judge, Judged, ForgetReaders, CloseHandles, CloseClears, CloserStep,
         ClockNext, AbandonedExpires, ForeignCools, Finished, vars, ledgerVars
    <3>2. Key(i, q) \in Forgotten /\ Current \in 1..Len(asked)
      BY <2>3, <3>1, CurrentMade DEF Return, TypeOK
    <3>3. q \in asked[Current].qs /\ Key(i, q) \in KeysOf(Current) /\ Settled(Current, q)
      <4>1. Current \in Ids /\ asked[Current] \in Exchanges
        BY <3>2, AskedType DEF TypeOK
      <4>2. CASE asked[Current].kind = "scan"
        <5>1. PICK p \in Answered(Current) : Key(i, q) = Key(Current, p)
          BY <3>2, <4>2 DEF Forgotten
        <5>2. p = q /\ q \in Queries /\ frames[Current][q] # NoFrame
          BY <5>1 DEF Key, Answered
        <5>3. q \in asked[Current].qs  BY <4>1, <5>2 DEF WireTrue
        <5>. QED  BY <5>1, <5>2, <5>3 DEF KeysOf, Settled
      <4>3. CASE asked[Current].kind = "request"
        <5>1. Key(i, q) \in KeysOf(Current) /\ Current \in event
          BY <3>2, <4>3 DEF Forgotten
        <5>2. q \in asked[Current].qs  BY <5>1 DEF KeysOf, Key
        <5>. QED  BY <4>3, <5>1, <5>2 DEF EventSettled
      <4>. QED  BY <4>1, <4>2, <4>3
    <3>4. i <= Current
      <4>. DEFINE n == Len(asked)
      <4>1. i \in 1..n  BY <1>1
      <4>. QED  BY <4>1 DEF Current, TypeOK, AskingType
    <3>. QED  BY <1>1, <2>2, <3>2, <3>3, <3>4 DEF Current
  <2>. QED  BY <1>1, <2>1, <2>2, <2>3 DEF AskedRemembered
<1>2. CASE i \notin 1..Len(asked)
  <2>1. PICK kind, qs : Stamp(kind, qs)  BY <1>2, StampKinds
  <2>2. /\ Len(asked') = Len(asked) + 1 /\ Len(asked) \in Nat
        /\ asked'[Len(asked) + 1] = [kind |-> kind, qs |-> qs, turn |-> turn']
    BY <2>1, StampLast
  <2>3. i = Len(asked) + 1  BY <1>2, <2>2
  <2>4. asked'[i].turn = turn' /\ asked'[i].qs = qs  BY <2>2, <2>3
  <2>5. <<q, SwId(turn')>> \in recent'  BY <2>1, <2>4 DEF Stamp
  <2>6. Key(i, q)' = <<q, SwId(turn')>>  BY <2>4 DEF Key, SwId
  <2>. QED  BY <2>5, <2>6
<1>. QED  BY <1>1, <1>2

\* A reply is credited elsewhere only when nothing guards its exchange any more.
LEMMA StragglersStep ==
    ASSUME LedgerInv, [Next]_vars PROVE StragglersRejected'
<1>. USE DEF LedgerInv, TransportInv
<1>. SUFFICES ASSUME NEW i \in Ids, NEW q \in Queries, NEW j \in Ids \ {i},
                     frames'[i][q].from = j, asked'[j].kind = "request",
                     ~Settled(j, frames[i][q].q)', j \notin unguarded'
              PROVE  FALSE
  BY DEF StragglersRejected
<1>. DEFINE p == frames'[i][q].q
<1>1. j \notin unguarded  BY UnguardedGrows
<1>2. ASSUME j \in 1..Len(asked), p \in asked[j].qs
      PROVE  asked[j].kind = "request" /\ ~Settled(j, p)
  <2>1. p \in Queries  BY <1>2, AskedType DEF TypeOK
  <2>2. ASSUME Settled(j, p) PROVE FALSE
    <3>1. PICK w \in asked[j].qs : w = p  BY <1>2
    <3>2. Settled(j, w)'  BY <1>2, <2>2, <3>1, SettledStays
    <3>. QED  BY <3>1, <3>2 DEF Settled
  <2>. QED  BY <1>2, <2>2, KeysStay
<1>3. p \in Queries
  <2>1. frames'[i][q] \in Replies \cup {NoFrame}
    <3>1. SinkType'  BY NextType DEF TypeOK
    <3>2. frames' \in [Ids -> [Queries -> Replies \cup {NoFrame}]]  BY <3>1 DEF SinkType
    <3>. HIDE DEF Replies, NoFrame, Ids
    <3>. QED  BY <3>2
  <2>. QED  BY <2>1
<1>4. CASE frames'[i][q] = frames[i][q]
  <2>1. frames[i][q].from = j /\ frames[i][q].q = p  BY <1>4
  <2>2. j \in 1..Len(asked) /\ p \in asked[j].qs  BY <1>3, <2>1, ReplyMade
  <2>. QED  BY <1>1, <1>2, <2>1, <2>2 DEF StragglersRejected
<1>5. CASE frames'[i][q] # frames[i][q]
  <2>1. PICK r \in Readers :
          /\ Offer(r) /\ reader[r].sink \in Ids /\ reader[r].frame \in Frames
          /\ \E w \in TakenFor(reader[r].sink, reader[r].frame) :
               Accept(reader[r].sink, reader[r].frame, w)
    BY <1>5, FramesStep
  <2>. DEFINE f == reader[r].frame
              s == reader[r].sink
  <2>2. PICK w \in TakenFor(s, f) : Accept(s, f, w)  BY <2>1
  <2>3. i = s /\ q = w
    BY <1>5, <2>1, <2>2 DEF Accept, TypeOK, SinkType
  <2>4. frames'[i][q] = [q |-> f.q, from |-> f.from, kind |-> f.kind]
    BY <1>5, <2>1, <2>2, <2>3, AcceptDoes
  <2>5. f.from = j /\ f.q = p  BY <2>4
  <2>6. Holding(r, j, p) /\ reader[r].pc = "offer"
    BY <2>1, <2>5 DEF Holding, Offer
  <2>7. j \in 1..Len(asked) /\ p \in asked[j].qs  BY <1>3, <2>6, ReplyMade
  <2>8. Over(j)
    <3>1. j <= s /\ s <= Len(asked)
      BY <2>1, <2>5, <2>6 DEF HeardTrue, SinkTaken
    <3>2. j <= i /\ i <= Len(asked)  BY <2>3, <3>1
    <3>3. j < Len(asked)             BY <3>2 DEF TypeOK, AskingType
    <3>. QED  BY <3>3 DEF Over, Current
  <2>. QED  BY <1>1, <1>2, <2>6, <2>7, <2>8 DEF GuardStands
<1>. QED  BY <1>4, <1>5

\* What makes a reply of ours count as another program's.
LEMMA MisfiledStep ==
    ASSUME TypeOK, [Next]_vars, NEW x \in misfiled', x \notin misfiled
    PROVE  \E r \in Readers :
             /\ reader[r].pc \in {"check", "take", "offer"}
             /\ reader[r].frame.from # 0
             /\ x = <<reader[r].frame.from, reader[r].frame.q>>
             /\ FrameKey(reader[r].frame) \notin recent
<1>1. ASSUME NEW f, NoteOrphan(f)
      PROVE  x = <<f.from, f.q>> /\ f.from # 0 /\ FrameKey(f) \notin recent
  BY <1>1 DEF NoteOrphan
<1>2. \E r \in Readers :
        reader[r].pc \in {"check", "take", "offer"} /\ NoteOrphan(reader[r].frame)
  BY DEF Next, CallerNext, Request, Scan, Retry, Stamp, RetryRefused, Install,
         Write, WriteFails, TimesOut, Abandon, Clear, Return, ReaderNext, Read,
         ReadForeign, CheckAbandoned, AbandonRaced, TakeSink, Offer, ReadFails,
         ReaderExits, CloserNext, CloseBegins, Judge, Judged, ForgetReaders, CloseHandles,
         CloseClears, CloserStep, ClockNext, AbandonedExpires, ForeignCools,
         Finished, vars, historyVars
<1>. QED  BY <1>1, <1>2

\* Silence alone never makes another program out of us.
LEMMA OursFiledStep ==
    ASSUME LedgerInv, [Next]_vars PROVE OursFiledAsOurs'
<1>. USE DEF LedgerInv, TransportInv
<1>. SUFFICES ASSUME NEW x \in misfiled'
              PROVE  \E i \in x[1]..Len(asked') :
                       Key(x[1], x[2])' \in KeysOf(i)' /\ Settled(i, x[2])'
  BY DEF OursFiledAsOurs
<1>1. x[1] \in Ids /\ x[2] \in Queries  BY NextType DEF TypeOK, HistoryType
<1>2. ASSUME NEW i \in x[1]..Len(asked), Key(x[1], x[2]) \in KeysOf(i), Settled(i, x[2])
      PROVE  \E k \in x[1]..Len(asked') :
               Key(x[1], x[2])' \in KeysOf(k)' /\ Settled(k, x[2])'
  <2>1. i \in 1..Len(asked) /\ x[1] \in 1..Len(asked)
    BY <1>1 DEF TypeOK, AskingType
  <2>2. x[2] \in asked[i].qs  BY <1>2 DEF KeysOf, Key
  <2>3. Settled(i, x[2])'     BY <1>2, <2>1, <2>2, SettledStays
  <2>4. KeysOf(i)' = KeysOf(i) /\ Key(x[1], x[2])' = Key(x[1], x[2])
    BY <2>1, KeysStay
  <2>5. i \in x[1]..Len(asked')  BY <1>1, <2>1, AskedGrows
  <2>. QED  BY <1>2, <2>3, <2>4, <2>5
<1>3. CASE x \in misfiled  BY <1>2, <1>3 DEF OursFiledAsOurs
<1>4. CASE x \notin misfiled
  <2>1. PICK r \in Readers :
          /\ reader[r].pc \in {"check", "take", "offer"}
          /\ reader[r].frame.from # 0
          /\ x = <<reader[r].frame.from, reader[r].frame.q>>
          /\ FrameKey(reader[r].frame) \notin recent
    BY <1>4, MisfiledStep
  <2>2. Holding(r, x[1], x[2])  BY <2>1 DEF Holding
  <2>3. x[1] \in 1..Len(asked) /\ x[2] \in asked[x[1]].qs
    BY <1>1, <2>2, ReplyMade
  <2>4. Key(x[1], x[2]) \notin recent  BY <1>1, <2>1, <2>2, HeldKey
  <2>. QED  BY <1>2, <2>3, <2>4 DEF AskedRemembered
<1>. QED  BY <1>3, <1>4

\* Nothing is asked, held or forgotten in the initial state.
LEMMA InitLedger == Init => LedgerInv
<1>. SUFFICES ASSUME Init PROVE LedgerInv  OBVIOUS
<1>1. TransportInv  BY InitInv
<1>2. \A r \in Readers : \A i, q : ~Holding(r, i, q)
  BY DEF Init, Listening, Holding
<1>3. \A i \in Ids, q \in Queries : frames[i][q] = NoFrame /\ frames[i][q].from \notin Ids
  BY DEF Init
<1>4. Len(asked) = 0  BY DEF Init
<1>5. RequestsAskOne /\ EventSettled /\ GuardStands /\ AskedRemembered
  BY <1>4 DEF Init, RequestsAskOne, EventSettled, GuardStands, AskedRemembered
<1>6. WireTrue  BY <1>2, <1>3 DEF Init, WireTrue
<1>7. HeardOnce /\ UnsentQuiet  BY <1>2 DEF Init, HeardOnce, UnsentQuiet
<1>8. StragglersRejected /\ OursFiledAsOurs
  BY <1>3 DEF Init, StragglersRejected, OursFiledAsOurs
<1>. QED  BY <1>1, <1>5, <1>6, <1>7, <1>8 DEF LedgerInv

\* Every step keeps what the ledger stands on.
LEMMA NextLedger == ASSUME LedgerInv, [Next]_vars PROVE LedgerInv'
<1>. USE DEF LedgerInv
<1>1. TransportInv'  BY NextInv
<1>2. RequestsAskOne' /\ EventSettled'
  BY RequestsAskOneStep, EventSettledStep DEF TransportInv
<1>. QED
  BY <1>1, <1>2, WireTrueStep, HeardOnceStep, UnsentQuietStep, GuardStandsStep,
     AskedRememberedStep, StragglersStep, OursFiledStep

\* What is on the wire and in the readers' hands answers what was asked, once; a request
\* that gave up is guarded until its reply came, and what was asked is remembered until
\* it was settled.
THEOREM LedgerCorrect == Spec => []LedgerInv
<1>1. LedgerInv /\ [Next]_vars => LedgerInv'  BY NextLedger
<1>. QED  BY InitLedger, <1>1, PTL DEF Spec

\* The reply to a request that gave up is credited to no other exchange while its entry in
\* the ledger stands, for any number of exchanges beyond a turn of the rotation.
THEOREM LedgerRejects == Spec => []StragglersRejected
<1>1. LedgerInv => StragglersRejected  BY DEF LedgerInv
<1>. QED  BY LedgerCorrect, <1>1, PTL

\* No reply of ours is taken for another program's before its key was answered or failed.
THEOREM OursStayOurs == Spec => []OursFiledAsOurs
<1>1. LedgerInv => OursFiledAsOurs  BY DEF LedgerInv
<1>. QED  BY LedgerCorrect, <1>1, PTL

-----------------------------------------------------------------------------
(* Closing.                                                                *)

CloseInv == TypeOK /\ StuckFound /\ ListEmptied

\* No reader comes back.
LEMMA AliveShrinks == ASSUME TypeOK, [Next]_vars PROVE Alive' \subseteq Alive
<1>. SUFFICES ASSUME NEW r \in Readers, reader[r].pc = "exited" PROVE reader'[r].pc = "exited"
  BY DEF Alive
<1>. QED
  BY ReaderSteps DEF ReaderNext, Read, ReadForeign, CheckAbandoned, AbandonRaced, TakeSink,
     Offer, ReadFails, ReaderExits

\* Every step keeps what the closers know of the readers; one case per step of a close().
LEMMA CloseStep == ASSUME CloseInv, [Next]_vars PROVE (StuckFound /\ ListEmptied)'
<1>. USE DEF CloseInv
<1>1. Alive' \subseteq Alive  BY AliveShrinks
<1>2. closer \in [Closers -> [pc : CloserStates, stuck : SUBSET Readers]]
  BY DEF TypeOK, ClosingType
<1>3. CASE UNCHANGED <<handles, listed, closer>>
  BY <1>1, <1>3 DEF StuckFound, ListEmptied
<1>4. ASSUME NEW c \in Closers, CloseBegins(c) \/ Judge(c) PROVE (StuckFound /\ ListEmptied)'
  <2>1. /\ UNCHANGED <<handles, listed, reader>> /\ closer[c].pc \in {"open", "joining"}
        /\ \A d \in Closers \ {c} : closer'[d] = closer[d]
        /\ closer'[c].pc \in {"joining", "judged"}
        /\ closer'[c].pc = "judged" => closer'[c].stuck = listed \cap Alive
    BY <1>2, <1>4 DEF CloseBegins, Judge, Judged, CloserStep
  <2>2. Alive' = Alive  BY <2>1 DEF Alive
  <2>. QED  BY <2>1, <2>2 DEF StuckFound, ListEmptied
<1>5. ASSUME NEW c \in Closers, ForgetReaders(c) PROVE (StuckFound /\ ListEmptied)'
  <2>1. /\ UNCHANGED handles /\ listed' = {} /\ closer[c].pc = "judged"
        /\ \A d \in Closers \ {c} : closer'[d] = closer[d]
        /\ closer'[c].pc # "judged" /\ closer'[c].stuck = closer[c].stuck
        /\ closer[c].stuck # {} => closer'[c].pc = "leaving"
    BY <1>2, <1>5 DEF ForgetReaders, CloserStep
  <2>2. ASSUME handles # "cleared", NEW r \in Alive'
        PROVE  \E d \in Closers : closer'[d].pc = "leaving" /\ r \in closer'[d].stuck
    <3>1. r \in Alive  BY <1>1
    <3>2. CASE r \in listed  BY <2>1, <3>1, <3>2 DEF StuckFound
    <3>3. CASE r \notin listed
      <4>1. PICK d \in Closers : closer[d].pc = "leaving" /\ r \in closer[d].stuck
        BY <2>2, <3>1, <3>3 DEF StuckFound
      <4>. QED  BY <2>1, <4>1
    <3>. QED  BY <3>2, <3>3
  <2>. QED  BY <2>1, <2>2 DEF StuckFound, ListEmptied
<1>6. ASSUME NEW c \in Closers, CloseHandles(c) PROVE (StuckFound /\ ListEmptied)'
  <2>1. /\ UNCHANGED listed /\ closer[c].pc = "closing" /\ closer'[c].pc = "clearing"
        /\ \A d \in Closers \ {c} : closer'[d] = closer[d]
        /\ handles' = "cleared" <=> handles = "cleared"
    BY <1>2, <1>6 DEF CloseHandles, CloserStep
  <2>2. listed = {}  BY <2>1 DEF ListEmptied
  <2>. QED  BY <1>1, <2>1, <2>2 DEF StuckFound, ListEmptied
<1>7. ASSUME NEW c \in Closers, CloseClears(c) PROVE (StuckFound /\ ListEmptied)'
  <2>1. /\ UNCHANGED listed /\ handles' = "cleared" /\ closer'[c].pc = "closed"
        /\ \A d \in Closers \ {c} : closer'[d] = closer[d]
    BY <1>2, <1>7 DEF CloseClears
  <2>. QED  BY <1>1, <2>1 DEF StuckFound, ListEmptied
<1>8. \/ UNCHANGED <<handles, listed, closer>>
      \/ \E c \in Closers : CloserNext(c)
  BY DEF Next, CallerNext, Request, Scan, Retry, Stamp, RetryRefused, Install,
     Write, WriteFails, TimesOut, Abandon, Clear, Return, ReaderNext, Read,
     ReadForeign, CheckAbandoned, AbandonRaced, TakeSink, Offer, ReadFails, ReaderExits,
     ClockNext, AbandonedExpires, ForeignCools, Finished, vars
<1>. QED  BY <1>3, <1>4, <1>5, <1>6, <1>7, <1>8 DEF CloserNext

\* A handle is closed under a reader only between another close() that found it stuck and
\* that one's giving the handles up, for any number of readers and of closing threads.
THEOREM ReadersKnown == Spec => []ReadersOutlived
<1>1. Init => CloseInv
  BY InitType DEF Init, CloseInv, StuckFound, ListEmptied, Alive
<1>2. CloseInv /\ [Next]_vars => CloseInv'
  BY NextType, CloseStep DEF CloseInv
<1>3. CloseInv => ReadersOutlived
  BY DEF CloseInv, StuckFound, ListEmptied, ReadersOutlived
<1>. QED  BY <1>1, <1>2, <1>3, PTL DEF Spec

=============================================================================
