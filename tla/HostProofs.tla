----------------------------- MODULE HostProofs -----------------------------
(***************************************************************************)
(* What one agent process keeps for every value of the constants: the      *)
(* types of Watchers, Notifier and Host together, and the account of the   *)
(* notifications, over any number of threads, kinds and queue slots.       *)
(***************************************************************************)
EXTENDS Host, SumTheorems

-----------------------------------------------------------------------------
(* What a queue of notes tells *)

\* A note tells of one kind, a natural number of times.
LEMMA TellsNat ==
  ASSUME NEW note \in Notes, NEW k
  PROVE  Tells(note, k) \in Nat
BY DEF Notes, Tells

\* Adding a note to a table keeps it one.
LEMMA AddType ==
  ASSUME NEW f \in [NoteKinds -> Nat], NEW note \in Notes
  PROVE  /\ Add(f, note) \in [NoteKinds -> Nat]
         /\ \A k \in NoteKinds : Add(f, note)[k] = f[k] + Tells(note, k)
BY TellsNat DEF Add

\* The queue tells a natural number of occurrences.
LEMMA QueuedNat ==
  ASSUME NEW s \in Seq(Notes), NEW k
  PROVE  Queued(s, k) \in Nat
<1> DEFINE f == [n \in DOMAIN s |-> Tells(s[n], k)]
<1>1. IsFiniteSet(DOMAIN s) /\ DOMAIN f = DOMAIN s
  BY FS_Interval
<1>2. \A n \in DOMAIN s : f[n] \in Nat
  BY TellsNat
<1> HIDE DEF f
<1>3. SumFunctionOnSet(f, DOMAIN s) \in Nat
  BY <1>1, <1>2, SumNat
<1> QED BY <1>1, <1>3 DEF Queued, SumFunction, f

\* An empty queue tells nothing.
LEMMA QueuedEmpty ==
  ASSUME NEW k
  PROVE  Queued(<<>>, k) = 0
<1> DEFINE f == [n \in DOMAIN <<>> |-> Tells(<<>>[n], k)]
<1>1. DOMAIN f = {}
  OBVIOUS
<1> QED BY <1>1, SumEmpty DEF Queued, SumFunction

\* A note that is queued adds what it tells.
LEMMA QueuedAppend ==
  ASSUME NEW s \in Seq(Notes), NEW note \in Notes, NEW k
  PROVE  Queued(Append(s, note), k) = Queued(s, k) + Tells(note, k)
<1> DEFINE t == Append(s, note)
           f == [n \in DOMAIN s |-> Tells(s[n], k)]
           g == [n \in DOMAIN t |-> Tells(t[n], k)]
           m == Len(s) + 1
<1>1. /\ m \notin DOMAIN s /\ DOMAIN t = DOMAIN s \cup {m} /\ t[m] = note
      /\ \A n \in DOMAIN s : t[n] = s[n]
  OBVIOUS
<1>2. IsFiniteSet(DOMAIN s)
  BY FS_Interval
<1>3. /\ DOMAIN f = DOMAIN s /\ DOMAIN g = DOMAIN s \cup {m}
      /\ g[m] = Tells(note, k) /\ g[m] \in Nat
      /\ \A n \in DOMAIN s : g[n] = f[n] /\ g[n] \in Nat
  BY <1>1, TellsNat
<1> HIDE DEF f, g, m
<1>4. SumFunctionOnSet(g, DOMAIN s \cup {m}) = SumFunctionOnSet(g, DOMAIN s) + g[m]
  BY <1>1, <1>2, <1>3, SumAdd
<1>5. SumFunctionOnSet(g, DOMAIN s) = SumFunctionOnSet(f, DOMAIN s)
  BY <1>2, <1>3, SumAgree
<1>6. Queued(s, k) = SumFunctionOnSet(f, DOMAIN s)
  BY <1>3 DEF Queued, SumFunction, f
<1>7. Queued(t, k) = SumFunctionOnSet(g, DOMAIN s \cup {m})
  BY <1>3 DEF Queued, SumFunction, g
<1> QED BY <1>3, <1>4, <1>5, <1>6, <1>7

\* The note that is taken takes what it tells.
LEMMA QueuedTail ==
  ASSUME NEW s \in Seq(Notes), s # <<>>, NEW k
  PROVE  Queued(s, k) = Tells(Head(s), k) + Queued(Tail(s), k)
<1> DEFINE t == Tail(s)
           f == [n \in DOMAIN t |-> Tells(t[n], k)]
           g == [n \in DOMAIN s |-> Tells(s[n], k)]
           b == [n \in DOMAIN t |-> n + 1]
           R == DOMAIN s \ {1}
<1>1. /\ Len(s) \in Nat \ {0} /\ DOMAIN s = 1..Len(s) /\ DOMAIN t = 1..(Len(s) - 1)
      /\ s[1] = Head(s) /\ \A n \in DOMAIN t : t[n] = s[n + 1]
  OBVIOUS
<1>2. IsFiniteSet(DOMAIN s) /\ IsFiniteSet(DOMAIN t)
  BY <1>1, FS_Interval
<1>3. /\ DOMAIN f = DOMAIN t /\ DOMAIN g = DOMAIN s /\ 1 \in DOMAIN s
      /\ g[1] = Tells(Head(s), k)
      /\ \A n \in DOMAIN s : g[n] \in Nat
      /\ \A n \in DOMAIN t : f[n] \in Nat
  BY <1>1, TellsNat
<1>4. \A n \in DOMAIN t : g[b[n]] = f[n]
  BY <1>1
<1>5. \A x, y \in DOMAIN t : b[x] = b[y] => x = y
  BY <1>1
<1>6. {b[n] : n \in DOMAIN t} = R
  <2>1. \A n \in DOMAIN t : b[n] \in R
    BY <1>1
  <2>2. \A n \in R : n - 1 \in DOMAIN t /\ b[n - 1] = n
    BY <1>1
  <2> HIDE DEF b, t, R
  <2> QED BY <2>1, <2>2
<1> HIDE DEF f, g, b, t
<1>7. SumFunctionOnSet(g, R) = SumFunctionOnSet(f, DOMAIN t)
  <2> DEFINE D == DOMAIN t
  <2>1. \A x \in D : f[x] \in Nat /\ g[b[x]] = f[x]
    BY <1>3, <1>4
  <2>2. IsFiniteSet(D) /\ (\A x, y \in D : b[x] = b[y] => x = y)
    BY <1>2, <1>5
  <2>3. R = {b[x] : x \in D}
    BY <1>6
  <2> HIDE DEF D, R
  <2>4. SumFunctionOnSet(g, {b[x] : x \in D}) = SumFunctionOnSet(f, D)
    BY <2>1, <2>2, SumRename
  <2> QED BY <2>3, <2>4 DEF D
<1>8. SumFunctionOnSet(g, DOMAIN s) = g[1] + SumFunctionOnSet(g, R)
  BY <1>2, <1>3, SumRemove
<1>9. Queued(s, k) = SumFunctionOnSet(g, DOMAIN s)
  BY <1>3 DEF Queued, SumFunction, g
<1>10. Queued(t, k) = SumFunctionOnSet(f, DOMAIN t)
  BY <1>3 DEF Queued, SumFunction, f
<1> QED BY <1>3, <1>7, <1>8, <1>9, <1>10 DEF t

-----------------------------------------------------------------------------
(* The account of the notifier *)

\* While the courier is not at a delivery it holds no note.
NoteInv ==
  /\ NoteTypeOK /\ CountedOnce
  /\ courier.pc # "send" => courier.note = Poison

\* Poison is a note that tells nothing.
LEMMA PoisonTells ==
  /\ Poison \in Notes
  /\ \A k \in NoteKinds : Tells(Poison, k) = 0
BY NotifierAssumption DEF Poison, Notes, Tells, Nobody

\* How many threads are between the locks is a natural number.
LEMMA UnderwayNat ==
  ASSUME NEW k
  PROVE  Underway(k) \in Nat
<1>1. IsFiniteSet({t \in Senders : passing[t] = k})
  BY NotifierAssumption, FS_Subset
<1> QED BY <1>1, FS_CardinalityType DEF Underway

\* A thread gets through _allow.
LEMMA UnderwayEnters ==
  ASSUME NoteTypeOK, NEW t \in Senders, NEW k \in NoteKinds, passing[t] = Nobody,
         passing' = [passing EXCEPT ![t] = k], NEW j \in NoteKinds
  PROVE  Underway(j)' = Underway(j) + IF j = k THEN 1 ELSE 0
<1> DEFINE S == {u \in Senders : passing[u] = j}
<1>1. /\ IsFiniteSet(S) /\ t \notin S /\ j # Nobody
      /\ Cardinality(S) \in Nat
  BY NotifierAssumption, FS_Subset, FS_CardinalityType
<1>2. \A u \in Senders : passing'[u] = IF u = t THEN k ELSE passing[u]
  BY DEF NoteTypeOK
<1>3. CASE j = k
  <2>1. {u \in Senders : passing'[u] = j} = S \cup {t}
    BY <1>2, <1>3
  <2> QED BY <1>1, <1>3, <2>1, FS_AddElement DEF Underway
<1>4. CASE j # k
  <2>1. {u \in Senders : passing'[u] = j} = S
    BY <1>1, <1>2, <1>4
  <2>2. Underway(j)' = Cardinality(S) /\ Underway(j) = Cardinality(S)
    BY <2>1 DEF Underway
  <2> QED BY <1>1, <1>4, <2>2
<1> QED BY <1>3, <1>4

\* A thread has queued what it got through with.
LEMMA UnderwayLeaves ==
  ASSUME NoteTypeOK, NEW t \in Senders, passing[t] # Nobody,
         passing' = [passing EXCEPT ![t] = Nobody], NEW j \in NoteKinds
  PROVE  Underway(j) = Underway(j)' + IF j = passing[t] THEN 1 ELSE 0
<1> DEFINE S == {u \in Senders : passing'[u] = j}
<1>1. /\ IsFiniteSet(S) /\ j # Nobody
      /\ Cardinality(S) \in Nat
  BY NotifierAssumption, FS_Subset, FS_CardinalityType
<1>2. \A u \in Senders : passing'[u] = IF u = t THEN Nobody ELSE passing[u]
  BY DEF NoteTypeOK
<1>3. t \notin S
  BY <1>1, <1>2
<1>4. CASE j = passing[t]
  <2>1. {u \in Senders : passing[u] = j} = S \cup {t}
    BY <1>1, <1>2, <1>4
  <2> QED BY <1>1, <1>3, <1>4, <2>1, FS_AddElement DEF Underway
<1>5. CASE j # passing[t]
  <2>1. {u \in Senders : passing[u] = j} = S
    BY <1>1, <1>2, <1>5
  <2> QED BY <1>1, <1>5, <2>1 DEF Underway
<1> QED BY <1>4, <1>5

\* What the account of a kind is made of.
LEMMA AccountTypes ==
  ASSUME NoteInv, NEW k \in NoteKinds
  PROVE  /\ said[k] \in Nat /\ shown[k] \in Nat /\ lost[k] \in Nat /\ suppressed[k] \in Nat
         /\ Tells(courier.note, k) \in Nat /\ Queued(notes, k) \in Nat
         /\ Underway(k) \in Nat
         /\ said[k] = shown[k] + lost[k] + suppressed[k] + Tells(courier.note, k)
                      + Queued(notes, k) + Underway(k)
BY TellsNat, QueuedNat, UnderwayNat DEF NoteInv, NoteTypeOK, CountedOnce

\* A send is throttled and counted, or gets through.
LEMMA AllowCounts ==
  ASSUME NoteInv, NEW t \in Senders, NEW k \in NoteKinds, Allow(t, k)
  PROVE  NoteInv'
<1>0. /\ passing[t] = Nobody /\ said' = [said EXCEPT ![k] = @ + 1]
      /\ notes' = notes /\ courier' = courier /\ hushed' = hushed /\ shown' = shown
      /\ lost' = lost
      /\ {said, suppressed} \subseteq [NoteKinds -> Nat]
  BY DEF Allow, NoteInv, NoteTypeOK
<1>1. CASE k \in muted
  <2>1. /\ suppressed' = [suppressed EXCEPT ![k] = @ + 1]
        /\ muted' = muted /\ passing' = passing
    BY <1>1 DEF Allow
  <2>2. NoteTypeOK'
    BY <1>0, <2>1 DEF NoteInv, NoteTypeOK
  <2>3. ASSUME NEW j \in NoteKinds
        PROVE  said'[j] - said[j] = suppressed'[j] - suppressed[j]
               /\ said'[j] \in Nat /\ suppressed'[j] \in Nat
    BY <1>0, <2>1
  <2>4. \A j \in NoteKinds : Underway(j)' = Underway(j)
    BY <2>1 DEF Underway
  <2>5. CountedOnce'
    BY <1>0, <2>3, <2>4, AccountTypes DEF CountedOnce
  <2> QED BY <1>0, <2>2, <2>5 DEF NoteInv
<1>2. CASE k \notin muted
  <2>1. /\ muted' = muted \cup {k} /\ passing' = [passing EXCEPT ![t] = k]
        /\ suppressed' = suppressed
    BY <1>2 DEF Allow
  <2>2. NoteTypeOK'
    BY <1>0, <2>1 DEF NoteInv, NoteTypeOK
  <2>3. ASSUME NEW j \in NoteKinds
        PROVE  said'[j] = said[j] + IF j = k THEN 1 ELSE 0
    BY <1>0
  <2>4. \A j \in NoteKinds : Underway(j)' = Underway(j) + IF j = k THEN 1 ELSE 0
    BY <1>0, <2>1, UnderwayEnters DEF NoteInv
  <2>5. CountedOnce'
    <3> SUFFICES ASSUME NEW j \in NoteKinds
                 PROVE  said'[j] = shown'[j] + lost'[j] + suppressed'[j]
                                   + Tells(courier'.note, j) + Queued(notes', j)
                                   + Underway(j)'
      BY DEF CountedOnce
    <3>1. /\ said[j] \in Nat /\ shown[j] \in Nat /\ lost[j] \in Nat /\ suppressed[j] \in Nat
          /\ Tells(courier.note, j) \in Nat /\ Queued(notes, j) \in Nat
          /\ Underway(j) \in Nat
          /\ said[j] = shown[j] + lost[j] + suppressed[j] + Tells(courier.note, j)
                       + Queued(notes, j) + Underway(j)
      BY AccountTypes
    <3> QED BY <1>0, <2>1, <2>3, <2>4, <3>1
  <2> QED BY <1>0, <2>2, <2>5 DEF NoteInv
<1> QED BY <1>1, <1>2

\* What was let through is queued with the count of its kind, or lost with it.
LEMMA PostCounts ==
  ASSUME NoteInv, NEW t \in Senders, Post(t)
  PROVE  NoteInv'
<1> DEFINE k == passing[t]
           note == [kind |-> k, hidden |-> suppressed[k]]
<1>0. /\ k \in NoteKinds /\ note \in Notes /\ suppressed[k] \in Nat
      /\ suppressed \in [NoteKinds -> Nat] /\ lost \in [NoteKinds -> Nat]
      /\ notes \in Seq(Notes) /\ Len(notes) <= QueueSize /\ QueueSize \in Nat
  BY NotifierAssumption DEF Post, NoteInv, NoteTypeOK, Notes
<1>1. /\ suppressed' = [suppressed EXCEPT ![k] = 0]
      /\ passing' = [passing EXCEPT ![t] = Nobody] /\ k # Nobody
      /\ muted' = muted /\ courier' = courier /\ hushed' = hushed /\ said' = said
      /\ shown' = shown
      /\ \/ Len(notes) < QueueSize /\ notes' = Append(notes, note) /\ lost' = lost
         \/ notes' = notes /\ lost' = Add(lost, note)
  BY DEF Post
<1>2. \A j \in NoteKinds : Tells(note, j) = IF j = k THEN 1 + suppressed[j] ELSE 0
  BY <1>0 DEF Tells
<1>3. \A j \in NoteKinds : suppressed'[j] = IF j = k THEN 0 ELSE suppressed[j]
  BY <1>0, <1>1
<1>4. \A j \in NoteKinds : Underway(j) = Underway(j)' + IF j = k THEN 1 ELSE 0
  BY <1>1, UnderwayLeaves DEF NoteInv
<1>5. \A j \in NoteKinds : Underway(j)' \in Nat
  <2>1. \A j \in NoteKinds : IsFiniteSet({u \in Senders : passing'[u] = j})
    BY NotifierAssumption, FS_Subset
  <2> QED BY <2>1, FS_CardinalityType DEF Underway
<1>6. suppressed' \in [NoteKinds -> Nat] /\ passing' \in [Senders -> NoteKinds \cup {Nobody}]
  BY <1>0, <1>1 DEF NoteInv, NoteTypeOK
<1> HIDE DEF k, note
<1>7. CASE Len(notes) < QueueSize /\ notes' = Append(notes, note) /\ lost' = lost
  <2>1. notes' \in Seq(Notes) /\ Len(notes') <= QueueSize
    BY <1>0, <1>7
  <2>2. NoteTypeOK'
    BY <1>1, <1>6, <1>7, <2>1 DEF NoteInv, NoteTypeOK
  <2>3. \A j \in NoteKinds : Queued(notes', j) = Queued(notes, j) + Tells(note, j)
    BY <1>0, <1>7, QueuedAppend
  <2>4. CountedOnce'
    <3> SUFFICES ASSUME NEW j \in NoteKinds
                 PROVE  said'[j] = shown'[j] + lost'[j] + suppressed'[j]
                                   + Tells(courier'.note, j) + Queued(notes', j)
                                   + Underway(j)'
      BY DEF CountedOnce
    <3>1. /\ said[j] \in Nat /\ shown[j] \in Nat /\ lost[j] \in Nat /\ suppressed[j] \in Nat
          /\ Tells(courier.note, j) \in Nat /\ Queued(notes, j) \in Nat
          /\ Underway(j) \in Nat
          /\ said[j] = shown[j] + lost[j] + suppressed[j] + Tells(courier.note, j)
                       + Queued(notes, j) + Underway(j)
      BY AccountTypes
    <3>2. /\ Tells(note, j) = IF j = k THEN 1 + suppressed[j] ELSE 0
          /\ suppressed'[j] = IF j = k THEN 0 ELSE suppressed[j]
          /\ Underway(j) = Underway(j)' + IF j = k THEN 1 ELSE 0
          /\ Underway(j)' \in Nat
      BY <1>2, <1>3, <1>4, <1>5
    <3>3. Queued(notes', j) = Queued(notes, j) + Tells(note, j)
      BY <2>3
    <3>4. /\ Tells(courier'.note, j) = Tells(courier.note, j) /\ said'[j] = said[j]
          /\ shown'[j] = shown[j] /\ lost'[j] = lost[j]
      BY <1>1, <1>7
    <3>5. suppressed[j] + Queued(notes, j) + Underway(j)
            = suppressed'[j] + Queued(notes', j) + Underway(j)'
      <4>1. CASE j = k
        BY <4>1, <3>1, <3>2, <3>3
      <4>2. CASE j # k
        BY <4>2, <3>1, <3>2, <3>3
      <4> QED BY <4>1, <4>2
    <3>6. suppressed'[j] \in Nat /\ Queued(notes', j) \in Nat /\ Underway(j)' \in Nat
      BY <3>1, <3>2, <3>3
    <3>7. said[j] = shown[j] + lost[j] + suppressed'[j] + Tells(courier.note, j)
                    + Queued(notes', j) + Underway(j)'
      <4> DEFINE x == suppressed[j] + Queued(notes, j) + Underway(j)
                 y == suppressed'[j] + Queued(notes', j) + Underway(j)'
                 z == shown[j] + lost[j] + Tells(courier.note, j)
      <4>1. said[j] = z + x BY <3>1
      <4>2. x = y BY <3>5
      <4>3. z + y = shown[j] + lost[j] + suppressed'[j] + Tells(courier.note, j)
                    + Queued(notes', j) + Underway(j)'
        BY <3>1, <3>6
      <4> HIDE DEF x, y, z
      <4> QED BY <4>1, <4>2, <4>3
    <3> QED BY <3>4, <3>7
  <2> QED BY <1>1, <2>2, <2>4 DEF NoteInv
<1>8. CASE notes' = notes /\ lost' = Add(lost, note)
  <2>1. /\ lost' \in [NoteKinds -> Nat]
        /\ \A j \in NoteKinds : lost'[j] = lost[j] + Tells(note, j)
    BY <1>0, <1>8, AddType
  <2>2. NoteTypeOK'
    BY <1>1, <1>6, <1>8, <2>1 DEF NoteInv, NoteTypeOK
  <2>3. CountedOnce'
    <3> SUFFICES ASSUME NEW j \in NoteKinds
                 PROVE  said'[j] = shown'[j] + lost'[j] + suppressed'[j]
                                   + Tells(courier'.note, j) + Queued(notes', j)
                                   + Underway(j)'
      BY DEF CountedOnce
    <3>1. /\ said[j] \in Nat /\ shown[j] \in Nat /\ lost[j] \in Nat /\ suppressed[j] \in Nat
          /\ Tells(courier.note, j) \in Nat /\ Queued(notes, j) \in Nat
          /\ Underway(j) \in Nat
          /\ said[j] = shown[j] + lost[j] + suppressed[j] + Tells(courier.note, j)
                       + Queued(notes, j) + Underway(j)
      BY AccountTypes
    <3>2. /\ Tells(note, j) = IF j = k THEN 1 + suppressed[j] ELSE 0
          /\ suppressed'[j] = IF j = k THEN 0 ELSE suppressed[j]
          /\ Underway(j) = Underway(j)' + IF j = k THEN 1 ELSE 0
          /\ Underway(j)' \in Nat
      BY <1>2, <1>3, <1>4, <1>5
    <3>3. /\ lost'[j] = lost[j] + Tells(note, j)
          /\ courier' = courier /\ said' = said /\ shown' = shown /\ notes' = notes
      BY <1>1, <1>8, <2>1
    <3> QED BY <3>1, <3>2, <3>3
  <2> QED BY <1>1, <2>2, <2>3 DEF NoteInv
<1> QED BY <1>1, <1>7, <1>8

\* The courier takes a note, delivers it, or leaves.
LEMMA CourierCounts ==
  ASSUME NoteInv, Courier
  PROVE  NoteInv'
<1>0. /\ courier \in [pc : {"off", "get", "send", "gone"}, note : Notes]
      /\ notes \in Seq(Notes) /\ Len(notes) <= QueueSize /\ QueueSize \in Nat
      /\ shown \in [NoteKinds -> Nat] /\ lost \in [NoteKinds -> Nat]
      /\ courier.pc # "send" => courier.note = Poison
  BY NotifierAssumption DEF NoteInv, NoteTypeOK
<1>1. CASE Leaves
  <2>1. /\ courier'.note = courier.note /\ courier'.pc = "gone" /\ courier.pc # "send"
        /\ courier' \in [pc : {"off", "get", "send", "gone"}, note : Notes]
    BY <1>0, <1>1 DEF Leaves
  <2>2. NoteTypeOK'
    BY <1>1, <2>1 DEF Leaves, NoteInv, NoteTypeOK
  <2>3. CountedOnce'
    BY <1>1, <2>1 DEF Leaves, NoteInv, CountedOnce, Underway
  <2> QED BY <1>0, <2>1, <2>2, <2>3 DEF NoteInv
<1>2. CASE GetNote
  <2>1. /\ courier.pc = "get" /\ courier.note = Poison /\ notes # <<>>
        /\ notes' = Tail(notes) /\ notes' \in Seq(Notes) /\ Len(notes') <= QueueSize
        /\ Head(notes) \in Notes
        /\ \/ Head(notes) = Poison /\ courier' = [courier EXCEPT !.pc = "gone"]
           \/ courier' = [pc |-> "send", note |-> Head(notes)]
        /\ UNCHANGED <<muted, suppressed, passing, hushed, said, shown, lost>>
    BY <1>0, <1>2 DEF GetNote
  <2>2. /\ courier' \in [pc : {"off", "get", "send", "gone"}, note : Notes]
        /\ courier'.pc # "send" => courier'.note = Poison
        /\ courier'.note = Head(notes)
    BY <1>0, <2>1
  <2>3. NoteTypeOK'
    BY <2>1, <2>2 DEF NoteInv, NoteTypeOK
  <2>4. \A k \in NoteKinds : Queued(notes, k) = Tells(Head(notes), k) + Queued(notes', k)
    BY <1>0, <2>1, QueuedTail
  <2>5. \A k \in NoteKinds : Queued(notes', k) \in Nat /\ Tells(Head(notes), k) \in Nat
    BY <2>1, QueuedNat, TellsNat
  <2>6. \A k \in NoteKinds : Tells(courier.note, k) = 0 /\ Underway(k)' = Underway(k)
    BY <2>1, PoisonTells DEF Underway
  <2>7. CountedOnce'
    BY <2>1, <2>2, <2>4, <2>5, <2>6, AccountTypes DEF CountedOnce
  <2> QED BY <2>2, <2>3, <2>7 DEF NoteInv
<1>3. CASE Deliver
  <2>1. /\ courier'.note = Poison
        /\ courier' \in [pc : {"off", "get", "send", "gone"}, note : Notes]
    BY <1>3, PoisonTells DEF Deliver
  <2>2. /\ UNCHANGED <<notes, muted, suppressed, passing, hushed, said>>
        /\ \/ shown' = Add(shown, courier.note) /\ lost' = lost
           \/ lost' = Add(lost, courier.note) /\ shown' = shown
    BY <1>3 DEF Deliver
  <2>3. /\ shown' \in [NoteKinds -> Nat] /\ lost' \in [NoteKinds -> Nat]
        /\ \A k \in NoteKinds :
             shown'[k] + lost'[k] = shown[k] + lost[k] + Tells(courier.note, k)
    <3>1. courier.note \in Notes /\ \A k \in NoteKinds : Tells(courier.note, k) \in Nat
      BY <1>0, TellsNat
    <3>2. CASE shown' = Add(shown, courier.note) /\ lost' = lost
      <4>1. /\ shown' \in [NoteKinds -> Nat]
            /\ \A k \in NoteKinds : shown'[k] = shown[k] + Tells(courier.note, k)
        BY <1>0, <3>1, <3>2, AddType
      <4>2. \A k \in NoteKinds : shown[k] \in Nat /\ lost[k] \in Nat
        BY <1>0
      <4> QED BY <1>0, <3>1, <3>2, <4>1, <4>2
    <3>3. CASE lost' = Add(lost, courier.note) /\ shown' = shown
      <4>1. /\ lost' \in [NoteKinds -> Nat]
            /\ \A k \in NoteKinds : lost'[k] = lost[k] + Tells(courier.note, k)
        BY <1>0, <3>1, <3>3, AddType
      <4>2. \A k \in NoteKinds : shown[k] \in Nat /\ lost[k] \in Nat
        BY <1>0
      <4> QED BY <1>0, <3>1, <3>3, <4>1, <4>2
    <3> QED BY <2>2, <3>2, <3>3
  <2>4. NoteTypeOK'
    BY <2>1, <2>2, <2>3 DEF NoteInv, NoteTypeOK
  <2>5. \A k \in NoteKinds : Tells(courier'.note, k) = 0 /\ Underway(k)' = Underway(k)
    BY <2>1, <2>2, PoisonTells DEF Underway
  <2>6. CountedOnce'
    <3>1. ASSUME NEW k \in NoteKinds PROVE shown'[k] \in Nat /\ lost'[k] \in Nat
      BY <2>3
    <3> QED BY <2>2, <2>3, <2>5, <3>1, AccountTypes DEF CountedOnce
  <2> QED BY <2>1, <2>4, <2>6 DEF NoteInv
<1> QED BY <1>1, <1>2, <1>3 DEF Courier

\* start() and stop() lose and add nothing that was reported.
LEMMA SwitchCounts ==
  ASSUME NoteInv,
         \/ NotifierStarts /\ courier.pc = "off"
         \/ NotifierStops
  PROVE  NoteInv'
<1>0. /\ courier \in [pc : {"off", "get", "send", "gone"}, note : Notes]
      /\ notes \in Seq(Notes) /\ Len(notes) <= QueueSize /\ QueueSize \in Nat
      /\ courier.pc # "send" => courier.note = Poison
  BY NotifierAssumption DEF NoteInv, NoteTypeOK
<1>1. CASE NotifierStarts /\ courier.pc = "off"
  <2>1. /\ courier'.note = courier.note /\ courier'.note = Poison
        /\ courier' \in [pc : {"off", "get", "send", "gone"}, note : Notes]
    BY <1>0, <1>1 DEF NotifierStarts
  <2>2. NoteTypeOK'
    BY <1>1, <2>1 DEF NotifierStarts, NoteInv, NoteTypeOK
  <2>3. CountedOnce'
    BY <1>1, <2>1 DEF NotifierStarts, NoteInv, CountedOnce, Underway
  <2> QED BY <2>1, <2>2, <2>3 DEF NoteInv
<1>2. CASE NotifierStops
  <2>1. /\ UNCHANGED <<muted, suppressed, passing, courier, said, shown, lost>>
        /\ hushed' \in BOOLEAN
        /\ \/ Len(notes) < QueueSize /\ notes' = Append(notes, Poison)
           \/ notes' = notes
    BY <1>2 DEF NotifierStops
  <2>2. notes' \in Seq(Notes) /\ Len(notes') <= QueueSize
    BY <1>0, <2>1, PoisonTells
  <2>3. NoteTypeOK'
    BY <2>1, <2>2 DEF NoteInv, NoteTypeOK
  <2>4. \A k \in NoteKinds : Queued(notes', k) = Queued(notes, k)
    <3>1. ASSUME NEW k \in NoteKinds, notes' = Append(notes, Poison)
          PROVE  Queued(notes', k) = Queued(notes, k)
      BY <1>0, <3>1, PoisonTells, QueuedAppend, QueuedNat
    <3> QED BY <2>1, <3>1
  <2>5. CountedOnce'
    BY <2>1, <2>4 DEF NoteInv, CountedOnce, Underway
  <2> QED BY <2>1, <2>3, <2>5 DEF NoteInv
<1> QED BY <1>1, <1>2

-----------------------------------------------------------------------------
(* The process *)

\* The parts of Host's type invariant.
HostType ==
  /\ main \in {"boot", "launch", "subscribe", "ready", "wait", "join", "hush", "leave",
               "exited"}
  /\ worker \in {"off", "get", "busy", "gone"}
  /\ known \subseteq Interfaces
  /\ stopping \in BOOLEAN /\ due \in BOOLEAN /\ open \in BOOLEAN
  /\ signalled \in BOOLEAN /\ asked \in BOOLEAN

\* The courier is started once, after the boot.
HostInv ==
  /\ WatchTypeOK /\ NoteInv /\ HostType
  /\ main \in {"boot", "launch"} => courier.pc = "off"

\* A put keeps the inbox a queue of events, no longer than it may be.
LEMMA PutType ==
  ASSUME WatchTypeOK, NEW e \in {"changed", "stop"}, Put(e)
  PROVE  inbox' \in Seq({"changed", "stop"}) /\ Len(inbox') <= InboxSize
<1>1. /\ inbox \in Seq({"changed", "stop"}) /\ Len(inbox) <= InboxSize
      /\ InboxSize \in Nat /\ Len(inbox) \in Nat
  BY WatchersAssumption DEF WatchTypeOK
<1>2. CASE Len(inbox) < InboxSize
  BY <1>1, <1>2 DEF Put
<1>3. CASE ~(Len(inbox) < InboxSize)
  BY <1>1, <1>3 DEF Put
<1> QED BY <1>2, <1>3

\* A move is counted.
LEMMA MoveType ==
  ASSUME WatchTypeOK, Move
  PROVE  moves' \in 0..MaxMoves
BY WatchersAssumption DEF WatchTypeOK, Move

\* What the bus does keeps the watchers' types.
LEMMA ChangeType ==
  ASSUME WatchTypeOK, NEW e \in Events, NEW i \in Interfaces, Change(e, i)
  PROVE  WatchTypeOK'
<1>1. moves' \in 0..MaxMoves
  BY MoveType DEF Change
<1>2. present' \subseteq Interfaces /\ owed' \in [Events -> SUBSET Interfaces]
      /\ owing' \in BOOLEAN
  BY DEF Change, WatchTypeOK
<1> QED BY <1>1, <1>2 DEF Change, WatchTypeOK, watchVars

\* So does what the watchers do.
LEMMA HandsType ==
  ASSUME WatchTypeOK, Hands
  PROVE  WatchTypeOK'
<1>1. CASE Register
  BY <1>1 DEF Register, WatchTypeOK, Events
<1>2. CASE RegisterFails
  BY <1>2 DEF RegisterFails, WatchTypeOK
<1>3. ASSUME NEW e \in Events, Emit(e) PROVE WatchTypeOK'
  <2>1. inbox' \in Seq({"changed", "stop"}) /\ Len(inbox') <= InboxSize
    BY <1>3, PutType DEF Emit, WatchTypeOK
  <2>2. owed' \in [Events -> SUBSET Interfaces] /\ primed' \subseteq armed
    BY <1>3 DEF Emit, WatchTypeOK
  <2> QED BY <1>3, <2>1, <2>2 DEF Emit, WatchTypeOK
<1>4. ASSUME NEW e \in Events, NEW i \in Interfaces, OnNotify(e, i) PROVE WatchTypeOK'
  <2>1. inbox' \in Seq({"changed", "stop"}) /\ Len(inbox') <= InboxSize
    BY <1>4, PutType DEF OnNotify
  <2>2. owed' \in [Events -> SUBSET Interfaces]
    BY <1>4 DEF OnNotify, WatchTypeOK
  <2> QED BY <1>4, <2>1, <2>2 DEF OnNotify, WatchTypeOK, watchVars
<1>5. CASE Sample \/ SampleFails
  <2>1. PICK seen \in SUBSET Interfaces : Sees(seen)
    BY <1>5 DEF Sample, SampleFails, WatchTypeOK
  <2>2. moves' \in 0..MaxMoves
    BY <1>5, MoveType DEF Sample, SampleFails, WatchTypeOK
  <2> QED BY <2>1, <2>2 DEF Sees, WatchTypeOK, Events
<1>6. ASSUME NEW c \in tell, Call(c) PROVE WatchTypeOK'
  <2>1. inbox' \in Seq({"changed", "stop"}) /\ Len(inbox') <= InboxSize
    BY <1>6, PutType DEF Call
  <2> QED BY <1>6, <2>1 DEF Call, WatchTypeOK
<1> QED BY <1>1, <1>2, <1>3, <1>4, <1>5, <1>6 DEF Hands

\* A step that leaves the notifier alone keeps its account.
LEMMA NotesSame ==
  ASSUME NoteInv, UNCHANGED noteVars
  PROVE  NoteInv'
BY DEF NoteInv, NoteTypeOK, CountedOnce, Underway, noteVars

\* The start and the end of the process.
LEMMA MainKeeps == HostInv /\ Main => HostInv'
<1> SUFFICES ASSUME HostInv, Main PROVE HostInv'
  OBVIOUS
<1>0. WatchTypeOK /\ NoteInv /\ HostType
  BY DEF HostInv
<1>1. CASE ClearStop
  BY <1>1, <1>0, NotesSame DEF ClearStop, HostInv, HostType, WatchTypeOK, watchVars, busVars,
     workVars, noteVars
<1>2. CASE Launch
  <2>1. NoteInv'
    BY <1>2, SwitchCounts DEF Launch, HostInv
  <2> QED BY <1>2, <1>0, <2>1 DEF Launch, HostInv, HostType, WatchTypeOK, watchVars, busVars
<1>3. CASE Subscribe
  <2>1. WatchTypeOK'
    <3>1. CASE StartsIokit
      BY <1>3, <1>0, <3>1 DEF Subscribe, StartsIokit, WatchTypeOK, busVars
    <3>2. CASE StartsCfgmgr32
      BY <1>3, <1>0, <3>2 DEF Subscribe, StartsCfgmgr32, WatchTypeOK, busVars
    <3>3. CASE StartsPolling
      BY <1>3, <1>0, <3>3 DEF Subscribe, StartsPolling, WatchTypeOK, busVars
    <3> QED BY <1>3, <3>1, <3>2, <3>3 DEF Subscribe
  <2> QED BY <1>3, <1>0, <2>1, NotesSame DEF Subscribe, HostInv, HostType, workVars
<1>4. CASE Ready
  <2>1. WatchTypeOK'
    BY <1>4, <1>0 DEF Ready, WatchTypeOK, busVars
  <2> QED BY <1>4, <1>0, <2>1, NotesSame DEF Ready, HostInv, HostType, workVars
<1>5. CASE FallBack
  <2>1. WatchTypeOK'
    BY <1>5, <1>0 DEF FallBack, StartsPolling, WatchTypeOK, busVars
  <2> QED BY <1>5, <1>0, <2>1, NotesSame DEF FallBack, HostInv, HostType, workVars
<1>6. CASE WaitEnds
  <2>1. WatchTypeOK'
    BY <1>6, <1>0 DEF WaitEnds, Stops, WatchTypeOK, busVars
  <2> QED BY <1>6, <1>0, <2>1, NotesSame DEF WaitEnds, HostInv, HostType, workVars
<1>7. CASE Joined
  BY <1>7, <1>0, NotesSame DEF Joined, HostInv, HostType, WatchTypeOK, watchVars, busVars
<1>8. CASE Hush
  <2>1. NoteInv'
    BY <1>8, SwitchCounts DEF Hush, HostInv
  <2> QED BY <1>8, <1>0, <2>1 DEF Hush, HostInv, HostType, WatchTypeOK, watchVars, busVars,
             workVars
<1>9. CASE Exit
  BY <1>9, <1>0, NotesSame DEF Exit, HostInv, HostType, WatchTypeOK, watchVars, busVars,
     workVars
<1> QED
  BY <1>1, <1>2, <1>3, <1>4, <1>5, <1>6, <1>7, <1>8, <1>9 DEF Main

\* Signals, the worker and its timers.
LEMMA WorkKeeps == HostInv /\ (Signal \/ Work \/ Rearm) => HostInv'
<1> SUFFICES ASSUME HostInv, Signal \/ Work \/ Rearm PROVE HostInv'
  OBVIOUS
<1>0. WatchTypeOK /\ NoteInv /\ HostType
  BY DEF HostInv
<1>1. NoteInv' /\ courier' = courier
  BY <1>0, NotesSame DEF Signal, Work, Rearm, WorkerLeaves, WorkerGets, WorkerLooks,
     WorkerDone, noteVars
<1>2. CASE Signal
  <2>1. moves' \in 0..MaxMoves
    BY <1>0, <1>2, MoveType DEF Signal
  <2>2. inbox' \in Seq({"changed", "stop"}) /\ Len(inbox') <= InboxSize
    BY <1>0, <1>2, PutType DEF Signal, WatchTypeOK
  <2> QED BY <1>0, <1>1, <1>2, <2>1, <2>2 DEF Signal, HostInv, HostType, WatchTypeOK,
             watchVars, workVars
<1>3. CASE WorkerLeaves
  BY <1>0, <1>1, <1>3 DEF WorkerLeaves, HostInv, HostType, WatchTypeOK, watchVars, busVars,
     mainVars
<1>4. CASE WorkerGets
  <2>1. Tail(inbox) \in Seq({"changed", "stop"}) /\ Len(Tail(inbox)) <= InboxSize
    <3>1. /\ inbox \in Seq({"changed", "stop"}) /\ inbox # <<>> /\ Len(inbox) <= InboxSize
          /\ InboxSize \in Nat /\ Len(inbox) \in Nat
      BY <1>0, <1>4, WatchersAssumption DEF WorkerGets, WatchTypeOK
    <3>2. Len(Tail(inbox)) = Len(inbox) - 1
      BY <3>1
    <3> QED BY <3>1, <3>2
  <2>2. WatchTypeOK'
    BY <1>0, <1>4, <2>1 DEF WorkerGets, WatchTypeOK, watchVars
  <2> QED BY <1>0, <1>1, <1>4, <2>2 DEF WorkerGets, HostInv, HostType, mainVars
<1>5. CASE WorkerLooks
  <2>1. known' \subseteq Interfaces /\ owing' \in BOOLEAN
    BY <1>0, <1>5 DEF WorkerLooks, HostType, WatchTypeOK
  <2> QED BY <1>0, <1>1, <1>5, <2>1 DEF WorkerLooks, HostInv, HostType, WatchTypeOK, watchVars,
             mainVars
<1>6. CASE WorkerDone
  <2>1. open \in BOOLEAN /\ (known # {}) \in BOOLEAN /\ open' \in {open, known # {}}
    BY <1>0, <1>6 DEF WorkerDone, HostType
  <2>2. open' \in BOOLEAN
    BY <2>1, Zenon
  <2>3. worker' = "get" /\ UNCHANGED <<watchVars, busVars, mainVars, due, known>>
    BY <1>6 DEF WorkerDone
  <2> QED BY <1>0, <1>1, <2>2, <2>3 DEF HostInv, HostType, WatchTypeOK, watchVars, busVars,
             mainVars
<1>7. CASE Rearm
  BY <1>0, <1>1, <1>7 DEF Rearm, HostInv, HostType, WatchTypeOK, watchVars, busVars, mainVars
<1> QED BY <1>2, <1>3, <1>4, <1>5, <1>6, <1>7 DEF Work

\* The notifications of every thread, and the courier.
LEMMA NotesKeep == HostInv /\ (Sends \/ Posts \/ Delivers) => HostInv'
<1> SUFFICES ASSUME HostInv, Sends \/ Posts \/ Delivers PROVE HostInv'
  OBVIOUS
<1>0. WatchTypeOK /\ NoteInv /\ HostType
  BY DEF HostInv
<1>1. CASE Sends
  <2>1. /\ moves' \in 0..MaxMoves
        /\ UNCHANGED <<watchVars, workVars, mainVars, present, owed, inbox, owing>>
    BY <1>0, <1>1, MoveType DEF Sends, WatchTypeOK
  <2>2. NoteInv' /\ courier' = courier
    <3>1. ASSUME NEW t \in Senders, NEW k \in NoteKinds, Allow(t, k)
          PROVE  NoteInv' /\ courier' = courier
      BY <1>0, <3>1, AllowCounts DEF Allow
    <3>2. ASSUME NEW k \in NoteKinds, CooldownEnds(k)
          PROVE  NoteInv' /\ courier' = courier
      <4>1. NoteTypeOK'
        BY <1>0, <3>2 DEF CooldownEnds, NoteInv, NoteTypeOK
      <4>2. CountedOnce'
        BY <1>0, <3>2 DEF CooldownEnds, NoteInv, CountedOnce, Underway
      <4> QED BY <1>0, <3>2, <4>1, <4>2 DEF CooldownEnds, NoteInv
    <3> QED BY <1>1, <3>1, <3>2 DEF Sends
  <2> QED BY <1>0, <2>1, <2>2 DEF HostInv, HostType, WatchTypeOK, watchVars, workVars, mainVars
<1>2. CASE Posts
  <2>1. NoteInv' /\ courier' = courier
    BY <1>0, <1>2, PostCounts DEF Posts, Post
  <2> QED BY <1>0, <1>2, <2>1 DEF Posts, HostInv, HostType, WatchTypeOK, watchVars, busVars,
             workVars, mainVars
<1>3. CASE Delivers
  <2>1. NoteInv'
    BY <1>0, <1>3, CourierCounts DEF Delivers
  <2>2. main' = main /\ courier.pc # "off"
    BY <1>3 DEF Delivers, Courier, Leaves, GetNote, Deliver, mainVars
  <2> QED BY <1>0, <1>3, <2>1, <2>2 DEF Delivers, HostInv, HostType, WatchTypeOK, watchVars,
             busVars, workVars, mainVars
<1> QED BY <1>1, <1>2, <1>3

\* The watchers and the bus.
LEMMA WatchesKeep == HostInv /\ (Watches \/ Bus) => HostInv'
<1> SUFFICES ASSUME HostInv, Watches \/ Bus PROVE HostInv'
  OBVIOUS
<1>1. WatchTypeOK'
  BY ChangeType, HandsType DEF Watches, Bus, HostInv
<1>2. UNCHANGED <<noteVars, workVars, mainVars>>
  BY DEF Watches, Bus
<1>3. NoteInv' /\ courier' = courier
  BY <1>2, NotesSame DEF HostInv, noteVars
<1> QED BY <1>1, <1>2, <1>3 DEF HostInv, HostType, workVars, mainVars

\* The invariant in Init.
LEMMA InitInv == Init => HostInv
<1> SUFFICES ASSUME Init PROVE HostInv
  OBVIOUS
<1>1. WatchTypeOK
  <2>1. inbox \in Seq({"changed", "stop"}) /\ Len(inbox) <= InboxSize
    <3>1. inbox = <<>>
      BY DEF Init, WatchInit
    <3>2. inbox \in Seq({"changed", "stop"}) /\ Len(inbox) = 0
      BY <3>1
    <3> QED BY <3>2, WatchersAssumption
  <2>2. 0 \in 0..MaxMoves
    BY WatchersAssumption
  <2> QED BY <2>1, <2>2 DEF Init, WatchInit, WatchTypeOK
<1>2. NoteTypeOK
  <2>1. notes \in Seq(Notes) /\ Len(notes) <= QueueSize
    <3>1. notes = <<>>
      BY DEF Init, NoteInit
    <3>2. notes \in Seq(Notes) /\ Len(notes) = 0
      BY <3>1
    <3> QED BY <3>2, NotifierAssumption
  <2>2. {suppressed, said, shown, lost} \subseteq [NoteKinds -> Nat]
    BY DEF Init, NoteInit, PerKind
  <2>3. passing \in [Senders -> NoteKinds \cup {Nobody}]
    BY DEF Init, NoteInit
  <2>4. courier \in [pc : {"off", "get", "send", "gone"}, note : Notes]
    <3>1. Poison \in Notes
      BY PoisonTells
    <3> QED BY <3>1 DEF Init, NoteInit
  <2>5. muted \subseteq NoteKinds /\ hushed \in BOOLEAN
    BY DEF Init, NoteInit
  <2> QED BY <2>1, <2>2, <2>3, <2>4, <2>5 DEF NoteTypeOK
<1>3. CountedOnce
  <2> SUFFICES ASSUME NEW k \in NoteKinds
               PROVE  said[k] = shown[k] + lost[k] + suppressed[k] + Tells(courier.note, k)
                                + Queued(notes, k) + Underway(k)
    BY DEF CountedOnce
  <2>1. said[k] = 0 /\ shown[k] = 0 /\ lost[k] = 0 /\ suppressed[k] = 0
    BY DEF Init, NoteInit, PerKind
  <2>2. Tells(courier.note, k) = 0 /\ Queued(notes, k) = 0
    BY PoisonTells, QueuedEmpty DEF Init, NoteInit
  <2>3. Underway(k) = 0
    <3>1. {t \in Senders : passing[t] = k} = {}
      BY NotifierAssumption DEF Init, NoteInit
    <3> QED BY <3>1, FS_EmptySet DEF Underway
  <2> QED BY <2>1, <2>2, <2>3
<1>4. HostType /\ courier.pc = "off" /\ courier.note = Poison
  BY DEF Init, NoteInit, HostType
<1> QED BY <1>1, <1>2, <1>3, <1>4 DEF HostInv, NoteInv

\* The three parts of a process hold together in every reachable state.
THEOREM InvCorrect == Spec => []HostInv
<1>1. HostInv /\ [Next]_vars => HostInv'
  <2> SUFFICES ASSUME HostInv, [Next]_vars PROVE HostInv'
    OBVIOUS
  <2>1. CASE UNCHANGED vars
    BY <2>1, NotesSame DEF vars, HostInv, HostType, WatchTypeOK, watchVars, busVars, noteVars,
       workVars, mainVars
  <2> QED BY <2>1, MainKeeps, WorkKeeps, NotesKeep, WatchesKeep DEF Next
<1> QED BY <1>1, InitInv, PTL DEF Spec

\* Every variable of the watchers, the notifier and the process keeps its type, and both
\* queues their bounds.
THEOREM TypeCorrect == Spec => []TypeOK
<1>1. HostInv => TypeOK
  BY DEF HostInv, HostType, NoteInv, TypeOK
<1> QED BY <1>1, InvCorrect, PTL

\* However many threads notify, of however many kinds and through a queue of any length:
\* each reported occurrence is on its way, counted, shown or lost, and only one of these.
THEOREM NothingCountedTwice == Spec => []CountedOnce
<1>1. HostInv => CountedOnce
  BY DEF HostInv, NoteInv
<1> QED BY <1>1, InvCorrect, PTL
=============================================================================
