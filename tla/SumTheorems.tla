---------------------------- MODULE SumTheorems ----------------------------
(***************************************************************************)
(* Facts about SumFunctionOnSet of the community module Functions, which   *)
(* the models use to add up counters. It is defined by a recursion over    *)
(* the subsets of a set; the induction that its properties need is made    *)
(* with sets and not with predicates: a set of counterexamples that is not *)
(* empty has a member that is least for inclusion.                         *)
(***************************************************************************)
EXTENDS Integers, Functions, FiniteSets, FiniteSetTheorems, TLAPS

\* The element that the recursion takes first.
Some(s) == CHOOSE x \in s : TRUE

\* g tabulates the sum of f over every subset of S.
Tabulates(g, f, S) ==
  g = [s \in SUBSET S |-> IF s = {} THEN 0 ELSE f[Some(s)] + g[s \ {Some(s)}]]

-----------------------------------------------------------------------------
(* The recursion has one solution *)

\* A set of subsets of a finite set has a least member.
LEMMA LeastSubset ==
  ASSUME NEW S, IsFiniteSet(S), NEW G, G \subseteq SUBSET S, G # {}
  PROVE  \E T \in G : \A U \in G : U \subseteq T => U = T
<1>1. IsWellFoundedOn(StrictSubsetOrdering(S), SUBSET S)
  BY FS_StrictSubsetOrderingWellFounded, FS_FiniteSubsetsOfFinite
<1>2. \E T \in G : \A U \in G : ~ (<<U, T>> \in StrictSubsetOrdering(S))
  BY <1>1, WFMin
<1>3. PICK T \in G : \A U \in G : ~ (<<U, T>> \in StrictSubsetOrdering(S))
  BY <1>2
<1>4. \A U \in G : U \subseteq T => U = T
  BY <1>3 DEF StrictSubsetOrdering
<1> QED
  BY <1>4

\* What Some takes is there.
LEMMA SomeMember ==
  ASSUME NEW s, s # {}
  PROVE  Some(s) \in s
BY DEF Some

\* Two tables of the same function agree where both are defined.
LEMMA TableUnique ==
  ASSUME NEW f, NEW S, NEW T, NEW g, NEW h, Tabulates(g, f, S), Tabulates(h, f, T),
         NEW V, V \subseteq S, V \subseteq T, IsFiniteSet(V)
  PROVE  g[V] = h[V]
<1> DEFINE G == {U \in SUBSET V : g[U] # h[U]}
<1>1. SUFFICES ASSUME G # {} PROVE FALSE
  OBVIOUS
<1>2. PICK U \in G : \A W \in G : W \subseteq U => W = U
  <2>1. G \subseteq SUBSET V
    OBVIOUS
  <2> HIDE DEF G
  <2> QED
    BY <1>1, <2>1, LeastSubset
<1>3. U \in SUBSET S /\ U \in SUBSET T
  OBVIOUS
<1>4. CASE U = {}
  <2>1. g[{}] = 0 /\ h[{}] = 0
    BY DEF Tabulates
  <2> QED
    BY <2>1, <1>4
<1>5. CASE U # {}
  <2> DEFINE W == U \ {Some(U)}
  <2>1. Some(U) \in U
    BY <1>5, SomeMember
  <2>2. W \notin G
    BY <1>2, <2>1
  <2>3. g[W] = h[W]
    BY <2>2
  <2>4. g[U] = f[Some(U)] + g[W]
    BY <1>3, <1>5 DEF Tabulates
  <2>5. h[U] = f[Some(U)] + h[W]
    BY <1>3, <1>5 DEF Tabulates
  <2> QED
    BY <2>3, <2>4, <2>5
<1> QED
  BY <1>4, <1>5

\* Every function has a table over every finite set.
LEMMA TableExists ==
  ASSUME NEW f, NEW S, IsFiniteSet(S)
  PROVE  \E g : Tabulates(g, f, S)
<1> DEFINE G == {T \in SUBSET S : ~ \E g : Tabulates(g, f, T)}
<1>1. SUFFICES ASSUME G # {} PROVE FALSE
  BY DEF Tabulates
<1>2. PICK T \in G : \A U \in G : U \subseteq T => U = T
  <2>1. G \subseteq SUBSET S
    OBVIOUS
  <2> HIDE DEF G
  <2> QED
    BY <1>1, <2>1, LeastSubset
<1> DEFINE H(U) == CHOOSE h : Tabulates(h, f, U)
           g == [s \in SUBSET T |-> IF s = {} THEN 0
                   ELSE f[Some(s)] + H(s \ {Some(s)})[s \ {Some(s)}]]
<1>3. \A U \in SUBSET T : U # T => Tabulates(H(U), f, U)
  <2> SUFFICES ASSUME NEW U \in SUBSET T, U # T PROVE Tabulates(H(U), f, U)
    OBVIOUS
  <2>1. \E h : Tabulates(h, f, U)
    BY <1>2
  <2> QED
    BY <2>1
<1>4. ASSUME NEW s \in SUBSET T, s # {}
      PROVE  g[s \ {Some(s)}] = H(s \ {Some(s)})[s \ {Some(s)}]
  <2> DEFINE u == s \ {Some(s)}
             v == u \ {Some(u)}
  <2>1. Some(s) \in s /\ u \in SUBSET T /\ u # T
    BY <1>4, SomeMember
  <2>2. Tabulates(H(u), f, u)
    BY <1>3, <2>1
  <2>3. H(u)[u] = IF u = {} THEN 0 ELSE f[Some(u)] + H(u)[v]
    BY <2>2 DEF Tabulates
  <2>4. CASE u = {}
    BY <2>1, <2>3, <2>4
  <2>5. CASE u # {}
    <3>1. v \in SUBSET T /\ v # T /\ v \subseteq u
      BY <2>1
    <3>2. Tabulates(H(v), f, v)
      BY <1>3, <3>1
    <3>3. IsFiniteSet(v)
      BY <3>1, FS_Subset
    <3>4. H(u)[v] = H(v)[v]
      BY <2>2, <3>2, <3>1, <3>3, TableUnique
    <3> HIDE DEF H
    <3>5. g[u] = f[Some(u)] + H(v)[v]
      BY <2>1, <2>5
    <3> QED
      BY <2>3, <2>5, <3>4, <3>5
  <2> QED
    BY <2>4, <2>5
<1>5. Tabulates(g, f, T)
  <2>1. \A s \in SUBSET T : g[s] = IF s = {} THEN 0 ELSE f[Some(s)] + g[s \ {Some(s)}]
    <3> HIDE DEF H
    <3> SUFFICES ASSUME NEW s \in SUBSET T
                 PROVE  g[s] = IF s = {} THEN 0 ELSE f[Some(s)] + g[s \ {Some(s)}]
      OBVIOUS
    <3>1. CASE s = {}
      BY <3>1
    <3>2. CASE s # {}
      <4>1. g[s] = f[Some(s)] + H(s \ {Some(s)})[s \ {Some(s)}]
        BY <3>2
      <4> HIDE DEF g
      <4> QED
        BY <4>1, <3>2, <1>4
    <3> QED
      BY <3>1, <3>2
  <2>2. g = [s \in SUBSET T |-> g[s]]
    OBVIOUS
  <2> HIDE DEF g
  <2> QED
    BY <2>1, <2>2 DEF Tabulates
<1> QED
  BY <1>2, <1>5

-----------------------------------------------------------------------------
(* The sum *)

\* What SumFunctionOnSet chooses is a table, if there is one.
LEMMA SumIsTable ==
  ASSUME NEW f, NEW S, NEW h, Tabulates(h, f, S)
  PROVE  \E g : Tabulates(g, f, S) /\ SumFunctionOnSet(f, S) = g[S]
BY DEF SumFunctionOnSet, FoldFunctionOnSet, MapThenFoldSet, Tabulates, Some

\* The sum, one element at a time in the order of the definition.
LEMMA SumStep ==
  ASSUME NEW f, NEW S, IsFiniteSet(S)
  PROVE  SumFunctionOnSet(f, S) =
           IF S = {} THEN 0 ELSE f[Some(S)] + SumFunctionOnSet(f, S \ {Some(S)})
<1>1. PICK g : Tabulates(g, f, S) /\ SumFunctionOnSet(f, S) = g[S]
  BY TableExists, SumIsTable
<1>2. CASE S = {}
  BY <1>1, <1>2 DEF Tabulates
<1>3. CASE S # {}
  <2> DEFINE R == S \ {Some(S)}
  <2>1. IsFiniteSet(R)
    BY FS_Subset
  <2> HIDE DEF R
  <2>2. PICK h : Tabulates(h, f, R) /\ SumFunctionOnSet(f, R) = h[R]
    BY <2>1, TableExists, SumIsTable
  <2>3. R \subseteq S
    BY DEF R
  <2>4. g[R] = h[R]
    BY <1>1, <2>1, <2>2, <2>3, TableUnique
  <2>5. g[S] = f[Some(S)] + g[R]
    BY <1>1, <1>3 DEF Tabulates, R
  <2> QED
    BY <1>1, <1>3, <2>2, <2>4, <2>5 DEF R
<1> QED
  BY <1>2, <1>3

\* Nothing adds up to zero.
LEMMA SumEmpty ==
  ASSUME NEW f
  PROVE  SumFunctionOnSet(f, {}) = 0
BY SumStep, FS_EmptySet

\* A sum of naturals is a natural.
LEMMA SumNat ==
  ASSUME NEW f, NEW S, IsFiniteSet(S), \A x \in S : f[x] \in Nat
  PROVE  SumFunctionOnSet(f, S) \in Nat
<1> DEFINE G == {T \in SUBSET S : SumFunctionOnSet(f, T) \notin Nat}
<1>1. SUFFICES ASSUME G # {} PROVE FALSE
  OBVIOUS
<1>2. PICK T \in G : \A U \in G : U \subseteq T => U = T
  <2>1. G \subseteq SUBSET S
    OBVIOUS
  <2> HIDE DEF G
  <2> QED
    BY <1>1, <2>1, LeastSubset
<1>3. IsFiniteSet(T) /\ SumFunctionOnSet(f, T) \notin Nat
  BY FS_Subset
<1>4. T # {}
  BY <1>3, SumEmpty
<1>5. Some(T) \in T
  BY <1>4, SomeMember
<1>6. SumFunctionOnSet(f, T \ {Some(T)}) \in Nat
  BY <1>2, <1>5
<1> QED
  BY <1>3, <1>4, <1>5, <1>6, SumStep

\* Functions that agree on a set have the same sum over it.
LEMMA SumAgree ==
  ASSUME NEW f, NEW g, NEW S, IsFiniteSet(S), \A x \in S : f[x] = g[x]
  PROVE  SumFunctionOnSet(f, S) = SumFunctionOnSet(g, S)
<1> DEFINE G == {T \in SUBSET S : SumFunctionOnSet(f, T) # SumFunctionOnSet(g, T)}
<1>1. SUFFICES ASSUME G # {} PROVE FALSE
  OBVIOUS
<1>2. PICK T \in G : \A U \in G : U \subseteq T => U = T
  <2>1. G \subseteq SUBSET S
    OBVIOUS
  <2> HIDE DEF G
  <2> QED
    BY <1>1, <2>1, LeastSubset
<1>3. IsFiniteSet(T) /\ SumFunctionOnSet(f, T) # SumFunctionOnSet(g, T)
  BY FS_Subset
<1>4. T # {}
  BY <1>3, SumEmpty
<1>5. Some(T) \in T
  BY <1>4, SomeMember
<1>6. SumFunctionOnSet(f, T \ {Some(T)}) = SumFunctionOnSet(g, T \ {Some(T)})
  BY <1>2, <1>5
<1> QED
  BY <1>3, <1>4, <1>5, <1>6, SumStep

\* Any element can be taken first: the order does not matter.
LEMMA SumRemove ==
  ASSUME NEW f, NEW S, IsFiniteSet(S), \A y \in S : f[y] \in Nat, NEW x \in S
  PROVE  SumFunctionOnSet(f, S) = f[x] + SumFunctionOnSet(f, S \ {x})
<1> DEFINE Fits(T, z) == SumFunctionOnSet(f, T) = f[z] + SumFunctionOnSet(f, T \ {z})
           G == {T \in SUBSET S : \E z \in T : ~Fits(T, z)}
<1>1. SUFFICES ASSUME G # {} PROVE FALSE
  OBVIOUS
<1>2. PICK T \in G : \A U \in G : U \subseteq T => U = T
  <2>1. G \subseteq SUBSET S
    OBVIOUS
  <2> HIDE DEF G
  <2> QED
    BY <1>1, <2>1, LeastSubset
<1>3. PICK z \in T : ~Fits(T, z)
  OBVIOUS
<1> DEFINE y == Some(T)
           Ty == T \ {y}
           Tz == T \ {z}
           R == Ty \ {z}
<1>4. T # {} /\ y \in T /\ IsFiniteSet(T)
  BY FS_Subset, SomeMember
<1>5. Fits(T, y)
  BY <1>4, SumStep
<1>6. y # z
  BY <1>3, <1>5
<1>7. Ty \notin G /\ Tz \notin G /\ z \in Ty /\ y \in Tz
  BY <1>2, <1>4, <1>6
<1>8. Fits(Ty, z) /\ Fits(Tz, y)
  BY <1>7
<1>9. Tz \ {y} = R /\ IsFiniteSet(R)
  BY <1>4, FS_Subset
<1>10. SumFunctionOnSet(f, R) \in Nat /\ f[y] \in Nat /\ f[z] \in Nat
  BY <1>9, <1>4, SumNat
<1>11. SumFunctionOnSet(f, Ty) = f[z] + SumFunctionOnSet(f, R)
  BY <1>8
<1>12. SumFunctionOnSet(f, Tz) = f[y] + SumFunctionOnSet(f, R)
  BY <1>8, <1>9
<1>13. SumFunctionOnSet(f, T) = f[y] + SumFunctionOnSet(f, Ty)
  BY <1>5
<1>14. SumFunctionOnSet(f, T) # f[z] + SumFunctionOnSet(f, Tz)
  BY <1>3
<1> HIDE DEF Fits, G, y, Ty, Tz, R
<1> QED
  BY <1>10, <1>11, <1>12, <1>13, <1>14

\* Zeros add up to zero.
LEMMA SumZero ==
  ASSUME NEW f, NEW S, IsFiniteSet(S), \A x \in S : f[x] = 0
  PROVE  SumFunctionOnSet(f, S) = 0
<1> DEFINE G == {T \in SUBSET S : SumFunctionOnSet(f, T) # 0}
<1>1. SUFFICES ASSUME G # {} PROVE FALSE
  OBVIOUS
<1>2. PICK T \in G : \A U \in G : U \subseteq T => U = T
  <2>1. G \subseteq SUBSET S
    OBVIOUS
  <2> HIDE DEF G
  <2> QED
    BY <1>1, <2>1, LeastSubset
<1>3. IsFiniteSet(T) /\ T # {} /\ Some(T) \in T
  BY FS_Subset, SumEmpty, SomeMember
<1>4. SumFunctionOnSet(f, T \ {Some(T)}) = 0
  BY <1>2, <1>3
<1> QED
  BY <1>3, <1>4, SumStep

\* Changing one summand changes the sum by as much.
LEMMA SumUpdate ==
  ASSUME NEW f, NEW g, NEW S, IsFiniteSet(S), NEW x \in S,
         \A y \in S : f[y] \in Nat /\ g[y] \in Nat,
         \A y \in S \ {x} : g[y] = f[y]
  PROVE  SumFunctionOnSet(g, S) = SumFunctionOnSet(f, S) - f[x] + g[x]
<1> DEFINE R == S \ {x}
<1>1. IsFiniteSet(R)
  BY FS_Subset
<1>2. SumFunctionOnSet(g, R) = SumFunctionOnSet(f, R)
  BY <1>1, SumAgree
<1>3. SumFunctionOnSet(f, R) \in Nat
  BY <1>1, SumNat
<1>4. SumFunctionOnSet(f, S) = f[x] + SumFunctionOnSet(f, R)
  BY SumRemove
<1>5. SumFunctionOnSet(g, S) = g[x] + SumFunctionOnSet(g, R)
  BY SumRemove
<1> QED
  BY <1>2, <1>3, <1>4, <1>5

\* A new summand is added to the sum.
LEMMA SumAdd ==
  ASSUME NEW f, NEW S, IsFiniteSet(S), NEW x, x \notin S,
         f[x] \in Nat, \A y \in S : f[y] \in Nat
  PROVE  SumFunctionOnSet(f, S \cup {x}) = SumFunctionOnSet(f, S) + f[x]
<1>1. IsFiniteSet(S \cup {x}) /\ (S \cup {x}) \ {x} = S
  BY FS_AddElement
<1>2. SumFunctionOnSet(f, S \cup {x}) = f[x] + SumFunctionOnSet(f, S)
  BY <1>1, SumRemove
<1> QED
  BY <1>2, SumNat

\* The same summands under other names have the same sum.
LEMMA SumRename ==
  ASSUME NEW f, NEW g, NEW S, IsFiniteSet(S), NEW b,
         \A x \in S : f[x] \in Nat /\ g[b[x]] = f[x],
         \A x, y \in S : b[x] = b[y] => x = y
  PROVE  SumFunctionOnSet(g, {b[x] : x \in S}) = SumFunctionOnSet(f, S)
<1> DEFINE Image(T) == {b[x] : x \in T}
           G == {T \in SUBSET S : SumFunctionOnSet(g, Image(T)) # SumFunctionOnSet(f, T)}
<1>1. SUFFICES ASSUME G # {} PROVE FALSE
  OBVIOUS
<1>2. PICK T \in G : \A U \in G : U \subseteq T => U = T
  <2>1. G \subseteq SUBSET S
    OBVIOUS
  <2> HIDE DEF G
  <2> QED
    BY <1>1, <2>1, LeastSubset
<1>3. IsFiniteSet(T) /\ T \subseteq S
  BY FS_Subset
<1>4. T # {}
  <2>1. CASE T = {}
    <3>1. Image(T) = {}
      BY <2>1
    <3> QED
      BY <2>1, <3>1, SumEmpty
  <2> QED
    BY <2>1
<1> DEFINE y == Some(T)
           R == T \ {y}
<1>5. y \in T
  BY <1>4, SomeMember
<1>6. SumFunctionOnSet(g, Image(R)) = SumFunctionOnSet(f, R)
  BY <1>2, <1>5
<1>7. b[y] \in Image(T) /\ Image(T) \ {b[y]} = Image(R)
  BY <1>3, <1>5
<1>8. IsFiniteSet(Image(T))
  <2>1. [x \in T |-> b[x]] \in Surjection(T, Image(T))
    BY DEF Surjection
  <2> QED
    BY <2>1, <1>3, FS_Surjection
<1>9. \A z \in Image(T) : g[z] \in Nat
  BY <1>3
<1>10. SumFunctionOnSet(g, Image(T)) = g[b[y]] + SumFunctionOnSet(g, Image(R))
  <2> HIDE DEF Image
  <2> QED
    BY <1>7, <1>8, <1>9, SumRemove
<1>11. SumFunctionOnSet(f, T) = f[y] + SumFunctionOnSet(f, R)
  BY <1>3, <1>4, SumStep
<1> QED
  BY <1>3, <1>5, <1>6, <1>10, <1>11
=============================================================================
