------------------------ MODULE RegistryPrune_proofs ------------------------
(***************************************************************************)
(* Pruning, for any number of builds, images and failures and any number   *)
(* of builds to keep.  What a plan holds and in which order follows from   *)
(* its blocks, one per doomed index; the rest from the invariant Inv.      *)
(***************************************************************************)
EXTENDS RegistryPrune, FiniteSetTheorems, SequenceTheorems, WellFoundedInduction, TLAPS

-----------------------------------------------------------------------------
(* Sets listed as sequences.                                               *)

(* Induction over the naturals, for a set that the provers can be given.   *)
LEMMA Induction ==
  ASSUME NEW S, 0 \in S, \A n \in Nat : n \in S => n + 1 \in S
  PROVE  \A n \in Nat : n \in S
  <1> DEFINE T == Nat \ S
             R == OpToRel(<, Nat)
  <1> SUFFICES ASSUME T # {} PROVE FALSE
    OBVIOUS
  <1>1. IsWellFoundedOn(R, Nat) /\ T \subseteq Nat
    BY NatLessThanWellFounded
  <1> HIDE DEF T, R
  <1>2. PICK x \in T : \A y \in T : ~(<<y, x>> \in R)
    BY <1>1, WFMin
  <1>3. \A y \in T : ~(y < x)
    BY <1>1, <1>2 DEF R, OpToRel
  <1>4. x \in Nat /\ x \notin S /\ x # 0
    BY DEF T
  <1>5. x - 1 \in Nat /\ x - 1 < x /\ (x - 1) + 1 = x
    BY <1>4
  <1>6. x - 1 \in T
    BY <1>4, <1>5 DEF T
  <1> QED BY <1>3, <1>5, <1>6

(* A set of naturals has a least element.                                  *)
LEMMA Least ==
  ASSUME NEW T \in SUBSET Nat, T # {}
  PROVE  \E x \in T : \A y \in T : x <= y
  <1> DEFINE R == OpToRel(<, Nat)
  <1>1. IsWellFoundedOn(R, Nat)
    BY NatLessThanWellFounded
  <1> HIDE DEF R
  <1>2. PICK x \in T : \A y \in T : ~(<<y, x>> \in R)
    BY <1>1, WFMin
  <1>3. \A y \in T : ~(y < x)
    BY <1>2 DEF R, OpToRel
  <1> QED BY <1>3

(* s holds the elements of S, each of them once.                           *)
ListsOnce(s, S) == s \in Seq(S) /\ IsInjective(s) /\ ToSet(s) = S

LEMMA InjectionLists ==
  ASSUME NEW S, IsFiniteSet(S), NEW s \in [1 .. Cardinality(S) -> S], IsInjective(s)
  PROVE  ListsOnce(s, S)
  <1>1. Cardinality(S) \in Nat
    BY FS_CardinalityType
  <1>2. s \in Injection(1 .. Cardinality(S), S)
    BY DEF Injection
  <1>3. Cardinality(1 .. Cardinality(S)) = Cardinality(S)
    BY <1>1, FS_Interval
  <1>4. s \in Surjection(1 .. Cardinality(S), S)
    BY <1>2, <1>3, FS_Injection
  <1>5. ToSet(s) = S
    BY <1>4 DEF Surjection, ToSet
  <1>6. s \in Seq(S)
    BY <1>1
  <1> QED BY <1>5, <1>6 DEF ListsOnce

LEMMA SetToSeqLists ==
  ASSUME NEW S, IsFiniteSet(S)
  PROVE  ListsOnce(SetToSeq(S), S)
  <1>1. PICK f \in Bijection(1 .. Cardinality(S), S) : TRUE
    BY FS_CardinalityType DEF ExistsBijection
  <1>2. f \in [1 .. Cardinality(S) -> S] /\ IsInjective(f)
    BY <1>1 DEF Bijection, Injection
  <1>3. SetToSeq(S) \in [1 .. Cardinality(S) -> S] /\ IsInjective(SetToSeq(S))
    BY <1>2 DEF SetToSeq
  <1> QED BY <1>3, InjectionLists

(* A finite set of naturals can be put in order, the least last.           *)
LEMMA CanDescend ==
  ASSUME NEW S \in SUBSET Nat, IsFiniteSet(S)
  PROVE  \E s \in [1 .. Cardinality(S) -> S] : \A i, j \in DOMAIN s : i < j => s[i] > s[j]
  <1> DEFINE Orders(s, T) == /\ s \in [1 .. Cardinality(T) -> T]
                             /\ \A i, j \in DOMAIN s : i < j => s[i] > s[j]
             A == {n \in Nat : \A T \in SUBSET Nat :
                     IsFiniteSet(T) /\ Cardinality(T) = n => \E s : Orders(s, T)}
  <1>1. 0 \in A
    <2> SUFFICES ASSUME NEW T \in SUBSET Nat, IsFiniteSet(T), Cardinality(T) = 0
                 PROVE  Orders(<<>>, T)
      BY Zenon
    <2> QED OBVIOUS
  <1>2. ASSUME NEW n \in Nat, n \in A PROVE n + 1 \in A
    <2> SUFFICES ASSUME NEW T \in SUBSET Nat, IsFiniteSet(T), Cardinality(T) = n + 1
                 PROVE  \E s : Orders(s, T)
      OBVIOUS
    <2>1. T # {}
      BY FS_EmptySet
    <2>2. PICK m \in T : \A y \in T : m <= y
      BY <2>1, Least
    <2> DEFINE V == T \ {m}
    <2>3. IsFiniteSet(V) /\ Cardinality(V) = n
      <3>1. IsFiniteSet(V) /\ Cardinality(V) = Cardinality(T) - 1
        BY FS_RemoveElement, Zenon
      <3> QED BY <3>1
    <2>4. PICK s : Orders(s, V)
      BY <1>2, <2>3
    <2> DEFINE u == [i \in 1 .. n + 1 |-> IF i = n + 1 THEN m ELSE s[i]]
    <2>5. s \in [1 .. n -> V] /\ \A i, j \in 1 .. n : i < j => s[i] > s[j]
      BY <2>3, <2>4
    <2>6. u \in [1 .. n + 1 -> T]
      BY <2>5
    <2>7. \A y \in V : y \in Nat /\ y > m
      BY <2>2
    <2>8. ASSUME NEW i \in 1 .. n + 1, NEW j \in 1 .. n + 1, i < j PROVE u[i] > u[j]
      <3>1. i \in 1 .. n /\ u[i] = s[i] /\ s[i] \in V
        BY <2>5, <2>8
      <3>2. CASE j = n + 1
        BY <2>7, <3>1, <3>2
      <3>3. CASE j # n + 1
        BY <2>5, <2>8, <3>1, <3>3
      <3> QED BY <3>2, <3>3
    <2> HIDE DEF u
    <2>9. Orders(u, T)
      BY <2>6, <2>8
    <2> QED BY <2>9
  <1> HIDE DEF A
  <1>3. Cardinality(S) \in Nat
    BY FS_CardinalityType
  <1>4. Cardinality(S) \in A
    BY <1>1, <1>2, <1>3, Induction
  <1> QED BY <1>4 DEF A

LEMMA DescendingLists ==
  ASSUME NEW S \in SUBSET Nat, IsFiniteSet(S)
  PROVE  ListsOnce(Descending(S), S)
  <1> DEFINE s == Descending(S)
  <1>1. s \in [1 .. Cardinality(S) -> S] /\ \A i, j \in DOMAIN s : i < j => s[i] > s[j]
    BY CanDescend DEF Descending
  <1>2. Cardinality(S) \in Nat
    BY FS_CardinalityType
  <1> HIDE DEF s
  <1>3. ASSUME NEW i \in DOMAIN s, NEW j \in DOMAIN s, s[i] = s[j] PROVE i = j
    <2>1. DOMAIN s = 1 .. Cardinality(S)
      BY <1>1
    <2>2. s[i] \in S /\ s[j] \in S
      BY <1>1, <2>1
    <2>3. i \in 1 .. Cardinality(S) /\ j \in 1 .. Cardinality(S)
      BY <2>1, Zenon
    <2>4. s[i] \in Nat /\ s[j] \in Nat
      BY <2>2
    <2>5. i \in Int /\ j \in Int
      BY <1>2, <2>3
    <2> QED BY <1>1, <1>3, <2>4, <2>5
  <1>4. IsInjective(s)
    BY <1>3 DEF IsInjective
  <1>5. ListsOnce(s, S)
    BY <1>1, <1>4, InjectionLists
  <1> QED BY <1>5 DEF s

(* Two lists one after the other, and where their elements are.            *)
LEMMA ListsJoined ==
  ASSUME NEW S, NEW T, NEW s, NEW t, ListsOnce(s, S), ListsOnce(t, T), S \cap T = {}
  PROVE  /\ ListsOnce(s \o t, S \cup T)
         /\ Len(s) \in Nat /\ Len(t) \in Nat /\ Len(s \o t) = Len(s) + Len(t)
         /\ \A p \in 1 .. Len(s) : (s \o t)[p] = s[p]
         /\ \A p \in 1 .. Len(t) : (s \o t)[Len(s) + p] = t[p]
  <1> DEFINE B == S \cup T
             u == s \o t
  <1>1. s \in Seq(B) /\ t \in Seq(B) /\ Len(s) \in Nat /\ Len(t) \in Nat
    BY DEF ListsOnce
  <1>2. u \in Seq(B) /\ Len(u) = Len(s) + Len(t)
    BY <1>1, ConcatProperties
  <1>3. \A p \in 1 .. Len(s) : u[p] = s[p]
    BY <1>1, ConcatProperties
  <1>4. ASSUME NEW p \in 1 .. Len(t) PROVE u[Len(s) + p] = t[p]
    <2>1. PICK k : k = Len(s) + p
      OBVIOUS
    <2>2. k \in 1 .. Len(s) + Len(t) /\ ~(k <= Len(s)) /\ k - Len(s) = p
      BY <1>1, <2>1
    <2>3. u[k] = t[k - Len(s)]
      BY <1>1, <2>2, ConcatProperties
    <2> QED BY <2>1, <2>2, <2>3
  <1>5. DOMAIN s = 1 .. Len(s) /\ DOMAIN t = 1 .. Len(t) /\ DOMAIN u = 1 .. Len(s) + Len(t)
    BY <1>1, <1>2
  <1> HIDE DEF u
  <1>6. ASSUME NEW p \in 1 .. Len(s) + Len(t)
        PROVE  \/ p \in 1 .. Len(s) /\ u[p] = s[p] /\ u[p] \in S
               \/ \E k \in 1 .. Len(t) : p = Len(s) + k /\ u[p] = t[k] /\ u[p] \in T
    <2>1. CASE p <= Len(s)
      <3>1. p \in 1 .. Len(s) /\ p \in DOMAIN s
        BY <1>1, <1>5, <2>1
      <3> QED BY <1>3, <3>1 DEF ListsOnce, ToSet
    <2>2. CASE ~(p <= Len(s))
      <3>1. p - Len(s) \in 1 .. Len(t) /\ p = Len(s) + (p - Len(s))
        BY <1>1, <2>2
      <3>2. PICK k \in 1 .. Len(t) : p = Len(s) + k
        BY <3>1, Zenon
      <3>3. t[k] \in T
        BY <1>5 DEF ListsOnce, ToSet
      <3> QED BY <1>4, <3>2, <3>3
    <2> QED BY <2>1, <2>2
  <1>7. ToSet(u) = B
    <2>1. ASSUME NEW e \in S PROVE e \in ToSet(u)
      <3>1. PICK p \in 1 .. Len(s) : e = s[p]
        BY <1>5 DEF ListsOnce, ToSet
      <3>2. p \in DOMAIN u
        BY <1>1, <1>5
      <3> QED BY <1>3, <3>1, <3>2 DEF ToSet
    <2>2. ASSUME NEW e \in T PROVE e \in ToSet(u)
      <3>1. PICK p \in 1 .. Len(t) : e = t[p]
        BY <1>5 DEF ListsOnce, ToSet
      <3>2. Len(s) + p \in DOMAIN u
        BY <1>1, <1>5
      <3> QED BY <1>4, <3>1, <3>2 DEF ToSet
    <2>3. ASSUME NEW e \in ToSet(u) PROVE e \in B
      <3>1. PICK p \in 1 .. Len(s) + Len(t) : e = u[p]
        BY <1>5 DEF ToSet
      <3> QED BY <1>6, <3>1
    <2> QED BY <2>1, <2>2, <2>3
  <1>8. ASSUME NEW p \in DOMAIN u, NEW q \in DOMAIN u, u[p] = u[q] PROVE p = q
    <2>0. p \in 1 .. Len(s) + Len(t) /\ q \in 1 .. Len(s) + Len(t)
      BY <1>5
    <2>1. CASE u[p] \in S
      <3>1. p \in 1 .. Len(s) /\ u[p] = s[p] /\ q \in 1 .. Len(s) /\ u[q] = s[q]
        BY <1>6, <1>8, <2>0, <2>1
      <3> QED BY <1>5, <1>8, <3>1 DEF ListsOnce, IsInjective
    <2>2. CASE u[p] \notin S
      <3>1. PICK k \in 1 .. Len(t) : p = Len(s) + k /\ u[p] = t[k]
        BY <1>6, <2>0, <2>2
      <3>2. PICK l \in 1 .. Len(t) : q = Len(s) + l /\ u[q] = t[l]
        BY <1>6, <1>8, <2>0, <2>2
      <3>3. k = l
        BY <1>5, <1>8, <3>1, <3>2 DEF ListsOnce, IsInjective
      <3> QED BY <3>1, <3>2, <3>3
    <2> QED BY <2>1, <2>2
  <1>9. IsInjective(u)
    BY <1>8 DEF IsInjective
  <1>10. ListsOnce(u, B)
    BY <1>2, <1>7, <1>9 DEF ListsOnce
  <1> QED BY <1>1, <1>2, <1>3, <1>4, <1>10 DEF u

LEMMA SingletonLists ==
  ASSUME NEW e
  PROVE  ListsOnce(<<e>>, {e}) /\ Len(<<e>>) = 1 /\ <<e>>[1] = e
  BY DEF ListsOnce, IsInjective, ToSet

(* What FlattenSeq computes, given the sequences it goes through.          *)
Accumulates(g, s, N) ==
  Len(s) = N /\ g[1] = s[1] /\ \A i \in 2 .. N : g[i] = g[i - 1] \o s[i]

LEMMA Flattened ==
  ASSUME NEW s, NEW N \in Nat \ {0}, NEW g, Accumulates(g, s, N)
  PROVE  FlattenSeq(s) = g[N]
  <1>0. Len(s) = N /\ g[1] = s[1] /\ \A i \in 2 .. N : g[i] = g[i - 1] \o s[i]
    BY DEF Accumulates
  <1> DEFINE F(f) == [i \in 1 .. N |-> IF i = 1 THEN s[i] ELSE f[i - 1] \o s[i]]
             f0 == CHOOSE f : f = F(f)
             h  == [i \in 1 .. N |-> g[i]]
  <1>1. h = F(h)
    <2>1. ASSUME NEW i \in 1 .. N PROVE h[i] = IF i = 1 THEN s[i] ELSE h[i - 1] \o s[i]
      <3>1. CASE i = 1
        BY <1>0, <3>1
      <3>2. CASE i # 1
        <4>1. i \in 2 .. N /\ i - 1 \in 1 .. N
          BY <3>2
        <4>2. h[i] = g[i] /\ h[i - 1] = g[i - 1] /\ g[i] = g[i - 1] \o s[i]
          BY <1>0, <4>1
        <4> QED BY <3>2, <4>2
      <3> QED BY <3>1, <3>2
    <2> HIDE DEF h
    <2>2. h = [i \in 1 .. N |-> h[i]]
      BY DEF h
    <2> QED BY <2>1, <2>2
  <1>2. f0 = F(f0)
    BY <1>1
  <1> HIDE DEF f0, h
  <1>3. \A i \in 1 .. N : f0[i] = IF i = 1 THEN s[i] ELSE f0[i - 1] \o s[i]
    BY <1>2
  <1> DEFINE S == {n \in Nat : n + 1 <= N => f0[n + 1] = g[n + 1]}
  <1>4. 0 \in S
    BY <1>0, <1>3
  <1>5. ASSUME NEW n \in Nat, n \in S PROVE n + 1 \in S
    <2> SUFFICES ASSUME (n + 1) + 1 <= N PROVE f0[(n + 1) + 1] = g[(n + 1) + 1]
      OBVIOUS
    <2>1. PICK i \in 2 .. N : i = (n + 1) + 1 /\ i - 1 = n + 1
      OBVIOUS
    <2>2. f0[i - 1] = g[i - 1]
      BY <1>5, <2>1
    <2>3. i \in 1 .. N /\ i # 1
      OBVIOUS
    <2>4. f0[i] = f0[i - 1] \o s[i] /\ g[i] = g[i - 1] \o s[i]
      BY <1>0, <1>3, <2>3, Zenon
    <2> QED BY <2>1, <2>2, <2>4
  <1> HIDE DEF S
  <1>6. N - 1 \in S /\ N - 1 \in Nat /\ (N - 1) + 1 = N
    BY <1>4, <1>5, Induction
  <1>7. f0[N] = g[N]
    BY <1>6 DEF S
  <1>8. FlattenSeq(s) = f0[N]
    BY <1>0 DEF FlattenSeq, f0
  <1> QED BY <1>7, <1>8

-----------------------------------------------------------------------------
(* What a plan holds.  d is the sequence of the doomed indexes and x[k]    *)
(* the images that may go with d[k].                                       *)

Gathered(d, x, k) == {d[j] : j \in 1 .. k} \cup UNION {x[j] : j \in 1 .. k}

Block(d, x, k) == SetToSeq(x[k] \ UNION {x[j] : j \in 1 .. k - 1}) \o <<d[k]>>

(* s holds the first k indexes and their images, each index after its own. *)
Laid(s, d, x, k) ==
  /\ ListsOnce(s, Gathered(d, x, k))
  /\ \A p \in DOMAIN s : \A j \in 1 .. k :
       s[p] = d[j] => \A c \in x[j] : \E q \in 1 .. p - 1 : s[q] = c

Matches(d, x, N, A, B) ==
  /\ d \in [1 .. N -> A] /\ x \in [1 .. N -> SUBSET B]
  /\ A \cap B = {} /\ IsInjective(d) /\ IsFiniteSet(B)

(* Another block is laid.                                                  *)
LEMMA LaysBlock ==
  ASSUME NEW A, NEW B, NEW N \in Nat, NEW d, NEW x, Matches(d, x, N, A, B),
         NEW k \in Nat, k + 1 <= N, NEW s, Laid(s, d, x, k)
  PROVE  Laid(s \o Block(d, x, k + 1), d, x, k + 1)
  <1> DEFINE m == k + 1
             F == x[m] \ UNION {x[j] : j \in 1 .. k}
             f == SetToSeq(F)
             b == f \o <<d[m]>>
             u == s \o b
             C == Gathered(d, x, k)
             E == Gathered(d, x, m)
  <1>0. m \in 1 .. N /\ m - 1 = k /\ 1 .. m - 1 = 1 .. k /\ 1 .. k \subseteq 1 .. N
    OBVIOUS
  <1>0a. 1 .. m = 1 .. k \cup {m}
    OBVIOUS
  <1>1. x[m] \subseteq B /\ d[m] \in A
    BY <1>0 DEF Matches
  <1>2. IsFiniteSet(F)
    BY <1>1, FS_Subset DEF Matches
  <1>3. ListsOnce(f, F)
    BY <1>2, SetToSeqLists
  <1>4. d[m] \notin F /\ F \cap {d[m]} = {}
    BY <1>1 DEF Matches
  <1>5. ListsOnce(<<d[m]>>, {d[m]}) /\ Len(<<d[m]>>) = 1 /\ <<d[m]>>[1] = d[m]
    BY SingletonLists
  <1>6. Block(d, x, m) = b
    BY <1>0 DEF Block
  <1>7. ASSUME NEW e \in C PROVE e \notin F /\ e # d[m]
    <2>1. CASE \E j \in 1 .. k : e = d[j]
      <3>1. PICK j \in 1 .. k : e = d[j]
        BY <2>1
      <3>2. j \in 1 .. N /\ j # m
        BY <1>0, <3>1
      <3>3. d[j] # d[m] /\ d[j] \in A
        BY <1>0, <3>2 DEF Matches, IsInjective
      <3> QED BY <1>1, <3>1, <3>3 DEF Matches
    <2>2. CASE \E j \in 1 .. k : e \in x[j]
      <3>1. PICK j \in 1 .. k : e \in x[j]
        BY <2>2
      <3>2. x[j] \subseteq B
        BY <1>0, <3>1 DEF Matches
      <3> QED BY <1>1, <3>1, <3>2 DEF Matches
    <2> QED BY <2>1, <2>2 DEF Gathered
  <1>8. E = C \cup (F \cup {d[m]})
    <2>1. ASSUME NEW e \in E PROVE e \in C \cup (F \cup {d[m]})
      BY <1>0a, <2>1 DEF Gathered
    <2>2. ASSUME NEW e \in C \cup (F \cup {d[m]}) PROVE e \in E
      BY <1>0a, <2>2 DEF Gathered
    <2> QED BY <2>1, <2>2
  <1> HIDE DEF F, C, E, f
  <1>9. /\ ListsOnce(b, F \cup {d[m]}) /\ Len(f) \in Nat /\ Len(b) = Len(f) + 1
        /\ \A p \in 1 .. Len(f) : b[p] = f[p]
        /\ b[Len(f) + 1] = d[m]
    BY <1>3, <1>4, <1>5, ListsJoined
  <1> HIDE DEF b
  <1>10. ListsOnce(s, C)
    BY DEF Laid, C
  <1>11. C \cap (F \cup {d[m]}) = {}
    BY <1>7
  <1>12. /\ ListsOnce(u, C \cup (F \cup {d[m]}))
         /\ Len(s) \in Nat /\ Len(b) \in Nat /\ Len(u) = Len(s) + Len(b)
         /\ \A p \in 1 .. Len(s) : u[p] = s[p]
         /\ \A p \in 1 .. Len(b) : u[Len(s) + p] = b[p]
    BY <1>9, <1>10, <1>11, ListsJoined
  <1> HIDE DEF u
  <1>13. ListsOnce(u, E)
    BY <1>8, <1>12
  <1>14. DOMAIN s = 1 .. Len(s) /\ DOMAIN f = 1 .. Len(f) /\ DOMAIN u = 1 .. Len(u)
    BY <1>3, <1>10, <1>12 DEF ListsOnce
  <1>15. ASSUME NEW p \in DOMAIN u, NEW j \in 1 .. m, u[p] = d[j], NEW c \in x[j]
         PROVE  \E q \in 1 .. p - 1 : u[q] = c
    <2>0. p \in 1 .. Len(s) + (Len(f) + 1)
      BY <1>9, <1>12, <1>14
    <2>1. CASE j \in 1 .. k
      <3>1. d[j] \in C
        BY <2>1 DEF C, Gathered
      <3>2. PICK r \in 1 .. Len(s) : s[r] = d[j]
        BY <1>10, <1>14, <3>1 DEF ListsOnce, ToSet
      <3>3. r \in DOMAIN u /\ u[r] = d[j]
        BY <1>9, <1>12, <1>14, <3>2
      <3>4. r = p
        BY <1>13, <1>15, <3>3 DEF ListsOnce, IsInjective
      <3>5. PICK q \in 1 .. r - 1 : s[q] = c
        BY <1>14, <1>15, <2>1, <3>2 DEF Laid
      <3>6. q \in 1 .. Len(s)
        BY <1>12, <3>2, <3>5
      <3> QED BY <1>12, <3>4, <3>5, <3>6
    <2>2. CASE j = m
      <3>1. PICK r : r = Len(s) + (Len(f) + 1)
        OBVIOUS
      <3>2. Len(f) + 1 \in 1 .. Len(b) /\ r \in 1 .. Len(u) /\ r \in Nat
        BY <1>9, <1>12, <3>1
      <3>3. u[r] = d[m]
        BY <1>9, <1>12, <3>1, <3>2
      <3>4. p = r
        BY <1>13, <1>14, <1>15, <2>2, <3>2, <3>3 DEF ListsOnce, IsInjective
      <3>5. CASE c \in F
        <4>1. PICK i \in 1 .. Len(f) : f[i] = c
          BY <1>3, <1>14, <3>5 DEF ListsOnce, ToSet
        <4>2. i \in 1 .. Len(b) /\ b[i] = c
          BY <1>9, <4>1
        <4>3. u[Len(s) + i] = c
          BY <1>12, <4>2
        <4>4. Len(s) + i \in 1 .. p - 1
          BY <1>9, <1>12, <3>1, <3>4, <4>1
        <4> QED BY <4>3, <4>4
      <3>6. CASE c \notin F
        <4>1. c \in C
          BY <2>2, <1>15, <3>6 DEF F, C, Gathered
        <4>2. PICK i \in 1 .. Len(s) : s[i] = c
          BY <1>10, <1>14, <4>1 DEF ListsOnce, ToSet
        <4>3. i \in 1 .. p - 1 /\ u[i] = c
          BY <1>9, <1>12, <3>1, <3>4, <4>2
        <4> QED BY <4>3
      <3> QED BY <3>5, <3>6
    <2> QED BY <1>0a, <2>1, <2>2
  <1>16. Laid(u, d, x, m)
    BY <1>13, <1>15 DEF Laid, E
  <1> QED BY <1>6, <1>16 DEF u

(* All blocks together.                                                    *)
LEMMA BlocksLaid ==
  ASSUME NEW A, NEW B, NEW N \in Nat \ {0}, NEW d, NEW x, Matches(d, x, N, A, B)
  PROVE  Laid(FlattenSeq([k \in 1 .. N |-> Block(d, x, k)]), d, x, N)
  <1> DEFINE y == [k \in 1 .. N |-> Block(d, x, k)]
             Good(g, n) == \A i \in 1 .. n :
               /\ Laid(g[i], d, x, i)
               /\ g[i] = IF i = 1 THEN y[1] ELSE g[i - 1] \o y[i]
             S == {n \in Nat : n + 1 <= N => \E g : Good(g, n + 1)}
  <1>1. \A k \in 1 .. N : y[k] = Block(d, x, k)
    OBVIOUS
  <1>2. Len(y) = N
    OBVIOUS
  <1> HIDE DEF y
  <1>3. Laid(y[1], d, x, 1)
    <2>1. Laid(<<>>, d, x, 0)
      BY DEF Laid, ListsOnce, Gathered, ToSet, IsInjective
    <2>2. Laid(<<>> \o Block(d, x, 1), d, x, 1)
      <3>1. 0 \in Nat /\ 0 + 1 <= N /\ 0 + 1 = 1 /\ N \in Nat
        OBVIOUS
      <3>2. Laid(<<>> \o Block(d, x, 0 + 1), d, x, 0 + 1)
        BY <2>1, <3>1, LaysBlock
      <3> QED BY <3>1, <3>2
    <2> QED
      <3>1. x[1] \subseteq B /\ d[1] \in A
        BY DEF Matches
      <3> DEFINE F == x[1] \ UNION {x[j] : j \in 1 .. 1 - 1}
                 f == SetToSeq(F)
      <3>2. IsFiniteSet(F)
        BY <3>1, FS_Subset DEF Matches
      <3>3. f \in Seq(F)
        BY <3>2, SetToSeqLists DEF ListsOnce
      <3>4. Block(d, x, 1) = f \o <<d[1]>>
        BY DEF Block
      <3> HIDE DEF F, f
      <3>5. f \in Seq(F \cup {d[1]}) /\ <<d[1]>> \in Seq(F \cup {d[1]})
        BY <3>3
      <3>6. Block(d, x, 1) \in Seq(F \cup {d[1]})
        <4> DEFINE T == F \cup {d[1]}
        <4>1. f \in Seq(T) /\ <<d[1]>> \in Seq(T)
          BY <3>5
        <4> HIDE DEF T
        <4>2. f \o <<d[1]>> \in Seq(T)
          BY <4>1, ConcatProperties
        <4> QED BY <3>4, <4>2 DEF T
      <3>7. <<>> \o Block(d, x, 1) = Block(d, x, 1)
        BY <3>6, ConcatEmptySeq
      <3>8. y[1] = Block(d, x, 1)
        BY <1>1
      <3> QED BY <2>2, <3>7, <3>8
  <1>4. 0 \in S
    <2> DEFINE g == [i \in 1 .. 1 |-> y[1]]
    <2>1. g[1] = y[1]
      OBVIOUS
    <2> HIDE DEF g
    <2>2. \A i \in 1 .. 0 + 1 : i = 1
      OBVIOUS
    <2>3. Good(g, 0 + 1)
      BY <1>3, <2>1, <2>2
    <2> HIDE DEF Good
    <2> QED BY <2>3
  <1>5. ASSUME NEW n \in Nat, n \in S PROVE n + 1 \in S
    <2> SUFFICES ASSUME (n + 1) + 1 <= N PROVE \E g : Good(g, (n + 1) + 1)
      OBVIOUS
    <2>1. PICK g : Good(g, n + 1)
      BY <1>5
    <2>2. PICK m : m = n + 1
      OBVIOUS
    <2>3. m \in Nat \ {0} /\ m + 1 \in 1 .. N /\ m \in 1 .. m /\ (m + 1) - 1 = m /\ m + 1 <= N
      BY <2>2
    <2> DEFINE e == g[m] \o y[m + 1]
               h == [i \in 1 .. m + 1 |-> IF i = m + 1 THEN e ELSE g[i]]
    <2> HIDE DEF e
    <2>3a. m + 1 \in 1 .. m + 1
      BY <2>3
    <2>4. h[m + 1] = e
      BY <2>3a, Zenon
    <2>5. \A i \in 1 .. m : h[i] = g[i]
      BY <2>3
    <2> HIDE DEF h
    <2>6. Good(g, m)
      BY <2>1, <2>2
    <2>7. Laid(g[m], d, x, m)
      BY <2>3, <2>6
    <2>8. Laid(g[m] \o Block(d, x, m + 1), d, x, m + 1)
      BY <2>3, <2>7, LaysBlock
    <2>9. ASSUME NEW i \in 1 .. m + 1
          PROVE  Laid(h[i], d, x, i) /\ h[i] = IF i = 1 THEN y[1] ELSE h[i - 1] \o y[i]
      <3>1. CASE i = m + 1
        <4>0. i # 1 /\ i - 1 = m
          BY <2>3, <3>1
        <4>1. h[i] = g[m] \o y[i] /\ h[i - 1] = g[m]
          BY <2>3, <2>4, <2>5, <3>1, <4>0, Zenon DEF e
        <4>2. y[i] = Block(d, x, i)
          BY <1>1, <2>3, <3>1
        <4> QED BY <2>8, <3>1, <4>0, <4>1, <4>2
      <3>2. CASE i # m + 1
        <4>1. i \in 1 .. m
          BY <2>3, <3>2
        <4>2. h[i] = g[i] /\ Laid(g[i], d, x, i) /\ g[i] = IF i = 1 THEN y[1] ELSE g[i - 1] \o y[i]
          BY <2>5, <2>6, <4>1
        <4>3. i # 1 => h[i - 1] = g[i - 1]
          <5>1. i # 1 => i - 1 \in 1 .. m
            BY <2>3, <4>1
          <5> QED BY <2>5, <5>1
        <4> QED BY <4>2, <4>3
      <3> QED BY <3>1, <3>2
    <2>10. Good(h, m + 1)
      BY <2>9
    <2> HIDE DEF Good
    <2> QED BY <2>2, <2>10
  <1> HIDE DEF S
  <1>6. N - 1 \in S /\ N - 1 \in Nat /\ (N - 1) + 1 = N
    BY <1>4, <1>5, Induction
  <1>7. PICK g : Good(g, N)
    <2> HIDE DEF Good
    <2> QED BY <1>6 DEF S
  <1>8. g[1] = y[1] /\ Laid(g[N], d, x, N)
    BY <1>7
  <1>9. ASSUME NEW i \in 2 .. N PROVE g[i] = g[i - 1] \o y[i]
    <2>1. i \in 1 .. N /\ i # 1
      OBVIOUS
    <2> QED BY <1>7, <2>1
  <1>10. Accumulates(g, y, N)
    BY <1>2, <1>8, <1>9 DEF Accumulates
  <1>11. FlattenSeq(y) = g[N]
    BY <1>10, Flattened
  <1> QED BY <1>8, <1>11 DEF y

-----------------------------------------------------------------------------
(* What planPrune computes.                                                *)

LEMMA Disjoint ==
  /\ Indexes \subseteq Nat /\ IsFiniteSet(Indexes) /\ IsFiniteSet(Images)
  /\ Indexes \cap Images = {}
  BY PruneAssumption, FS_Interval DEF Indexes, PruneAssumption

(* s holds the doomed indexes, and before each the images that go with it. *)
PlanLaid(s, listed, t, K) ==
  LET Goes(i) == (refs[i] \cap listed) \ Protected(listed, t, K)
  IN  /\ ListsOnce(s, Doomed(listed, t, K) \cup UNION {Goes(i) : i \in Doomed(listed, t, K)})
      /\ \A p \in DOMAIN s : s[p] \in Indexes =>
           \A c \in Goes(s[p]) : \E q \in 1 .. p - 1 : s[q] = c

LEMMA PlanHolds ==
  ASSUME refs \in [Indexes -> SUBSET Images], NEW listed, NEW t, NEW K, Doomed(listed, t, K) # {}
  PROVE  PlanLaid(planPrune(listed, t, K), listed, t, K)
  <1> DEFINE D == Doomed(listed, t, K)
             P == Protected(listed, t, K)
             Goes(i) == (refs[i] \cap listed) \ P
             d == Descending(D)
             N == Len(d)
             x == [k \in 1 .. N |-> Goes(d[k])]
             Fresh(k) == ((refs[d[k]] \cap listed) \ P) \ UNION {refs[d[j]] : j \in 1 .. k - 1}
             y == [k \in 1 .. N |-> Block(d, x, k)]
             s == planPrune(listed, t, K)
  <1>1. D \subseteq Indexes /\ D \subseteq Nat /\ IsFiniteSet(D)
    <2>1. D \subseteq Indexes
      BY DEF Doomed, Edges
    <2> HIDE DEF D
    <2> QED BY <2>1, Disjoint, FS_Subset
  <1> HIDE DEF P
  <1>2. ListsOnce(d, D)
    <2> HIDE DEF D
    <2> QED BY <1>1, DescendingLists
  <1>3. s = FlattenSeq([k \in DOMAIN d |-> SetToSeq(Fresh(k)) \o <<d[k]>>])
    BY DEF planPrune, P
  <1> HIDE DEF D, d, s
  <1>4. N \in Nat /\ d \in [1 .. N -> D] /\ DOMAIN d = 1 .. N
    BY <1>2 DEF ListsOnce
  <1>5. N # 0
    <2>1. N = 0 => ToSet(d) = {}
      BY <1>4 DEF ToSet
    <2> QED BY <1>2, <2>1 DEF ListsOnce, D
  <1> HIDE DEF N
  <1>6. \A k \in 1 .. N : d[k] \in D /\ d[k] \in Indexes
    BY <1>1, <1>4
  <1>7. \A k \in 1 .. N : x[k] = Goes(d[k])
    OBVIOUS
  <1>8. x \in [1 .. N -> SUBSET Images]
    BY <1>6
  <1> HIDE DEF x
  <1>9. ASSUME NEW k \in 1 .. N PROVE Fresh(k) = x[k] \ UNION {x[j] : j \in 1 .. k - 1}
    <2>1. \A j \in 1 .. k - 1 : j \in 1 .. N
      BY <1>4
    <2>2. \A j \in 1 .. k - 1 : x[j] = Goes(d[j])
      BY <1>7, <2>1, Zenon
    <2>3. x[k] = Goes(d[k])
      BY <1>7
    <2>4. ASSUME NEW e \in x[k] PROVE (\E j \in 1 .. k - 1 : e \in x[j]) <=> (\E j \in 1 .. k - 1 : e \in refs[d[j]])
      BY <2>2, <2>3
    <2> QED BY <2>3, <2>4
  <1>10. ASSUME NEW k \in 1 .. N PROVE SetToSeq(Fresh(k)) \o <<d[k]>> = Block(d, x, k)
    <2> HIDE DEF Fresh
    <2> QED BY <1>9, Zenon DEF Block
  <1>11. s = FlattenSeq(y)
    <2> HIDE DEF Fresh
    <2> QED BY <1>3, <1>4, <1>10
  <1>12. Matches(d, x, N, Indexes, Images)
    <2>1. d \in [1 .. N -> Indexes]
      BY <1>1, <1>4
    <2> QED BY <1>2, <1>8, <2>1, Disjoint DEF Matches, ListsOnce
  <1>13. N \in Nat \ {0}
    BY <1>4, <1>5
  <1>14. Laid(s, d, x, N)
    BY <1>11, <1>12, <1>13, BlocksLaid
  <1> HIDE DEF y
  <1>15. \A i \in D : \E k \in 1 .. N : i = d[k]
    BY <1>2, <1>4 DEF ListsOnce, ToSet
  <1>16. Gathered(d, x, N) = D \cup UNION {Goes(i) : i \in D}
    <2>1. ASSUME NEW e \in Gathered(d, x, N) PROVE e \in D \cup UNION {Goes(i) : i \in D}
      BY <1>6, <1>7, <2>1 DEF Gathered
    <2>2. ASSUME NEW e \in D PROVE e \in Gathered(d, x, N)
      BY <1>15, <2>2 DEF Gathered
    <2>3. ASSUME NEW i \in D, NEW e \in Goes(i) PROVE e \in Gathered(d, x, N)
      <3>1. PICK k \in 1 .. N : i = d[k]
        BY <1>15
      <3>2. e \in x[k]
        BY <1>7, <3>1
      <3> QED BY <3>2 DEF Gathered
    <2> QED BY <2>1, <2>2, <2>3
  <1>17. ListsOnce(s, D \cup UNION {Goes(i) : i \in D})
    BY <1>14, <1>16 DEF Laid
  <1>18. ASSUME NEW p \in DOMAIN s, s[p] \in Indexes, NEW c \in Goes(s[p])
         PROVE  \E q \in 1 .. p - 1 : s[q] = c
    <2>1. s[p] \in D \cup UNION {Goes(i) : i \in D}
      BY <1>17 DEF ListsOnce, ToSet
    <2>2. \A i \in D : Goes(i) \subseteq Images
      BY <1>1
    <2>3. s[p] \in D
      BY <1>18, <2>1, <2>2, Disjoint
    <2>4. PICK k \in 1 .. N : s[p] = d[k]
      BY <1>15, <2>3
    <2>5. c \in x[k]
      BY <1>7, <2>4
    <2> QED BY <1>14, <2>4, <2>5 DEF Laid
  <1> QED BY <1>17, <1>18 DEF PlanLaid, s, D, P

-----------------------------------------------------------------------------
(* Which builds stay.                                                      *)

Above(E, i) == {j \in E : j > i}

LEMMA KeptAbove ==
  ASSUME NEW R, NEW t, NEW K
  PROVE  /\ Edges(R, t) \subseteq Indexes /\ IsFiniteSet(Edges(R, t))
         /\ Kept(R, t, K) = {i \in Edges(R, t) : Cardinality(Above(Edges(R, t), i)) < K}
         /\ Doomed(R, t, K) = Edges(R, t) \ Kept(R, t, K)
  <1>1. Edges(R, t) \subseteq Indexes
    BY DEF Edges
  <1>2. IsFiniteSet(Edges(R, t))
    BY <1>1, Disjoint, FS_Subset
  <1> QED BY <1>1, <1>2 DEF Kept, Above, Doomed

(* More builds above one are no fewer.                                     *)
LEMMA AboveMonotonic ==
  ASSUME NEW S, NEW T, S \subseteq T, T \subseteq Indexes
  PROVE  /\ IsFiniteSet(S) /\ IsFiniteSet(T)
         /\ Cardinality(S) \in Nat /\ Cardinality(T) \in Nat /\ Cardinality(S) <= Cardinality(T)
  <1>1. IsFiniteSet(T)
    BY Disjoint, FS_Subset
  <1> QED BY <1>1, FS_Subset, FS_CardinalityType

(* When one that is due goes, the same builds stay.                        *)
LEMMA DueGoes ==
  ASSUME NEW R, NEW t, NEW K \in Nat, NEW d, d \in Doomed(R, t, K) \/ d \notin Indexes
  PROVE  /\ Tagged(R \ {d}, t) = Tagged(R, t)
         /\ Kept(R \ {d}, t, K) = Kept(R, t, K)
         /\ \A i : i \in Doomed(R \ {d}, t, K) <=> i \in Doomed(R, t, K) /\ i # d
  <1> DEFINE E == Edges(R, t)
             F == Edges(R \ {d}, t)
  <1>1. Tagged(R \ {d}, t) = Tagged(R, t)
    BY DEF Tagged, Doomed, Edges
  <1>2. F = E \ {d}
    BY DEF Edges
  <1>3. /\ E \subseteq Indexes /\ F \subseteq Indexes
        /\ Kept(R, t, K) = {i \in E : Cardinality(Above(E, i)) < K}
        /\ Kept(R \ {d}, t, K) = {i \in F : Cardinality(Above(F, i)) < K}
        /\ Doomed(R, t, K) = E \ Kept(R, t, K) /\ Doomed(R \ {d}, t, K) = F \ Kept(R \ {d}, t, K)
    <2>1. /\ E \subseteq Indexes /\ Doomed(R, t, K) = E \ Kept(R, t, K)
          /\ Kept(R, t, K) = {i \in E : Cardinality(Above(E, i)) < K}
      BY KeptAbove
    <2>2. /\ F \subseteq Indexes /\ Doomed(R \ {d}, t, K) = F \ Kept(R \ {d}, t, K)
          /\ Kept(R \ {d}, t, K) = {i \in F : Cardinality(Above(F, i)) < K}
      <3>1. PICK Q : Q = R \ {d}
        OBVIOUS
      <3>2. /\ Edges(Q, t) \subseteq Indexes /\ Doomed(Q, t, K) = Edges(Q, t) \ Kept(Q, t, K)
            /\ Kept(Q, t, K) = {i \in Edges(Q, t) : Cardinality(Above(Edges(Q, t), i)) < K}
        BY KeptAbove
      <3> QED BY <3>1, <3>2, Zenon
    <2> QED BY <2>1, <2>2
  <1> HIDE DEF E, F
  <1>4. CASE d \notin Indexes
    <2>1. E = F
      BY <1>2, <1>3, <1>4
    <2> QED BY <1>1, <1>3, <1>4, <2>1
  <1>5. CASE d \in Doomed(R, t, K) /\ d \in Indexes
    <2>1. d \in E /\ d \in Nat /\ ~(Cardinality(Above(E, d)) < K)
      BY <1>3, <1>5, Disjoint
    <2>2. K \in Nat
      OBVIOUS
    <2>3. ASSUME NEW i \in Kept(R, t, K) PROVE i \in Kept(R \ {d}, t, K)
      <3>1. i \in F /\ Cardinality(Above(E, i)) < K
        BY <1>2, <1>3, <2>1
      <3>2. Above(F, i) \subseteq Above(E, i) /\ Above(E, i) \subseteq Indexes
        BY <1>2, <1>3 DEF Above
      <3>3. /\ Cardinality(Above(F, i)) \in Nat /\ Cardinality(Above(E, i)) \in Nat
            /\ Cardinality(Above(F, i)) <= Cardinality(Above(E, i))
        BY <3>2, AboveMonotonic
      <3>4. Cardinality(Above(F, i)) < K
        BY <2>2, <3>1, <3>3
      <3> QED BY <1>3, <3>1, <3>4
    <2>4. ASSUME NEW i \in Kept(R \ {d}, t, K) PROVE i \in Kept(R, t, K)
      <3>1. i \in E /\ i # d /\ i \in Nat /\ Cardinality(Above(F, i)) < K
        BY <1>2, <1>3, Disjoint
      <3>2. CASE i > d
        <4>1. \A j \in E : j > i => j # d
          BY <1>3, <2>1, <3>1, <3>2, Disjoint
        <4>2. Above(F, i) = Above(E, i)
          BY <1>2, <4>1 DEF Above
        <4> QED BY <1>3, <3>1, <4>2
      <3>3. CASE ~(i > d)
        <4>1. d > i
          BY <2>1, <3>1, <3>3
        <4>2. \A j \in E : j > d => j > i /\ j # d
          BY <1>3, <2>1, <3>1, <4>1, Disjoint
        <4>3. Above(E, d) \subseteq Above(F, i) /\ Above(F, i) \subseteq Indexes
          BY <1>2, <1>3, <4>2 DEF Above
        <4>4. /\ Cardinality(Above(E, d)) \in Nat /\ Cardinality(Above(F, i)) \in Nat
              /\ Cardinality(Above(E, d)) <= Cardinality(Above(F, i))
          BY <4>3, AboveMonotonic
        <4>5. FALSE
          BY <2>1, <2>2, <3>1, <4>4
        <4> QED BY <4>5
      <3> QED BY <3>2, <3>3
    <2>5. Kept(R \ {d}, t, K) = Kept(R, t, K)
      BY <2>3, <2>4
    <2> QED BY <1>1, <1>2, <1>3, <2>5
  <1> QED BY <1>3, <1>4, <1>5

(* A build that is published keeps no build that was due: the new one is   *)
(* above all others, and at most one is no edge build any more.            *)
LEMMA NewerKeepsLess ==
  ASSUME NEW K \in Nat, NEW E, NEW F, E \subseteq Indexes, F \subseteq Indexes,
         NEW i \in Indexes, i \notin E, NEW e,
         (E \ {e}) \cup {i} \subseteq F \/ E \subseteq F,
         NEW j \in E, i > j, Cardinality(Above(F, j)) < K
  PROVE  Cardinality(Above(E, j)) < K
  <1>0. K \in Nat
    OBVIOUS
  <1>1. CASE E \subseteq F
    <2>1. Above(E, j) \subseteq Above(F, j) /\ Above(F, j) \subseteq Indexes
      BY <1>1 DEF Above
    <2>2. /\ Cardinality(Above(E, j)) \in Nat /\ Cardinality(Above(F, j)) \in Nat
          /\ Cardinality(Above(E, j)) <= Cardinality(Above(F, j))
      BY <2>1, AboveMonotonic
    <2> QED BY <1>0, <2>2
  <1>2. CASE (E \ {e}) \cup {i} \subseteq F
    <2> DEFINE S == Above(E, j)
               T == S \ {e}
               V == T \cup {i}
    <2>1. V \subseteq Above(F, j) /\ Above(F, j) \subseteq Indexes /\ S \subseteq Indexes /\ i \notin T
      BY <1>2 DEF Above
    <2>2. /\ Cardinality(V) \in Nat /\ Cardinality(Above(F, j)) \in Nat
          /\ Cardinality(V) <= Cardinality(Above(F, j))
      BY <2>1, AboveMonotonic
    <2>3. IsFiniteSet(S) /\ Cardinality(S) \in Nat
      BY <2>1, AboveMonotonic
    <2> HIDE DEF S
    <2>4. IsFiniteSet(T) /\ Cardinality(T) >= Cardinality(S) - 1
      <3>1. IsFiniteSet(T) /\ Cardinality(T) = IF e \in S THEN Cardinality(S) - 1 ELSE Cardinality(S)
        BY <2>3, FS_RemoveElement, Zenon
      <3> QED BY <2>3, <3>1
    <2>5. Cardinality(T) \in Nat
      BY <2>4, FS_CardinalityType
    <2> HIDE DEF T
    <2>6. Cardinality(V) = Cardinality(T) + 1
      BY <2>1, <2>4, FS_AddElement, Zenon
    <2>7. Cardinality(S) < K
      BY <1>0, <2>2, <2>3, <2>4, <2>5, <2>6
    <2> QED BY <2>7 DEF S
  <1> QED BY <1>1, <1>2

(* With fewer to keep no more stay.                                        *)
LEMMA FewerKept ==
  ASSUME NEW R, NEW t, NEW K \in Nat, NEW M \in Nat, K <= M
  PROVE  Kept(R, t, K) \subseteq Kept(R, t, M) /\ Doomed(R, t, M) \subseteq Doomed(R, t, K)
  <1> DEFINE E == Edges(R, t)
  <1>1. /\ E \subseteq Indexes
        /\ Kept(R, t, K) = {i \in E : Cardinality(Above(E, i)) < K}
        /\ Kept(R, t, M) = {i \in E : Cardinality(Above(E, i)) < M}
        /\ Doomed(R, t, K) = E \ Kept(R, t, K) /\ Doomed(R, t, M) = E \ Kept(R, t, M)
    BY KeptAbove
  <1> HIDE DEF E
  <1>2. ASSUME NEW i \in E, Cardinality(Above(E, i)) < K PROVE Cardinality(Above(E, i)) < M
    <2>1. Above(E, i) \subseteq Indexes
      BY <1>1 DEF Above
    <2>2. Cardinality(Above(E, i)) \in Nat
      BY <2>1, AboveMonotonic
    <2> QED BY <1>2, <2>2
  <1>3. Kept(R, t, K) \subseteq Kept(R, t, M)
    BY <1>1, <1>2
  <1> QED BY <1>1, <1>3

(* Only the tags of what is listed count.                                  *)
LEMMA SameTags ==
  ASSUME NEW R, NEW t, NEW u, NEW K, \A i \in R \cap Indexes : t[i] = u[i]
  PROVE  /\ Tagged(R, t) = Tagged(R, u) /\ Kept(R, t, K) = Kept(R, u, K)
         /\ Doomed(R, t, K) = Doomed(R, u, K)
  <1>1. Edges(R, t) = Edges(R, u) /\ Tagged(R, t) = Tagged(R, u)
    BY DEF Edges, Tagged
  <1> QED BY <1>1 DEF Kept, Doomed

-----------------------------------------------------------------------------
(* Every step keeps Inv.                                                   *)

LEMMA Primes ==
  /\ Doomed(reg, tags, least)' = Doomed(reg', tags', least')
  /\ Surviving' = Tagged(reg', tags') \cup Kept(reg', tags', least')
  BY DEF Surviving, Doomed, Tagged, Kept, Edges, isEdge

LEMMA IdleFacts ==
  /\ Idle.pc = "idle" /\ Idle.plan = <<>> /\ Idle.listed = {}
  /\ ToSet(<<>>) = {} /\ IsInjective(<<>>)
  /\ Idle \in Runs
  <1>1. Keep \in Nat
    BY PruneAssumption
  <1> QED BY <1>1 DEF Idle, ToSet, IsInjective, Runs

(* A run ends.                                                             *)
LEMMA Ends ==
  ASSUME run' = Idle
  PROVE  /\ RunOK' /\ ListedOK' /\ ImagesFirst' /\ PlanDue'
         /\ run'.pc = "idle" /\ ToSet(run'.plan) = {} /\ IsInjective(run'.plan)
  <1>1. run'.pc = "idle" /\ run'.plan = <<>>
    BY IdleFacts
  <1>2. RunOK'
    BY <1>1, IdleFacts DEF RunOK, Runs
  <1>3. ListedOK'
    BY <1>1 DEF ListedOK
  <1>4. ImagesFirst'
    BY <1>1 DEF ImagesFirst
  <1>5. ToSet(run'.plan) = {} /\ IsInjective(run'.plan)
    BY <1>1, IdleFacts
  <1>6. PlanDue'
    BY <1>5 DEF PlanDue
  <1> QED BY <1>1, <1>2, <1>3, <1>4, <1>5, <1>6

(* The registry is as it was.                                              *)
LEMMA Untouched ==
  ASSUME Numbered, Referred, SurvivorsWhole, UNCHANGED <<reg, tags, refs, loose, least, raced>>
  PROVE  Numbered' /\ Referred' /\ SurvivorsWhole' /\ Surviving' = Surviving
  <1>1. Surviving' = Surviving
    BY Primes DEF Surviving
  <1>2. Numbered'
    BY DEF Numbered, Published
  <1>3. Referred'
    BY DEF Referred
  <1>4. SurvivorsWhole'
    BY <1>1 DEF SurvivorsWhole
  <1> QED BY <1>1, <1>2, <1>3, <1>4

(* So is the run, too.                                                     *)
LEMMA RunUntouched ==
  ASSUME Inv, UNCHANGED <<reg, tags, refs, loose, least, raced, run>>
  PROVE  RunOK' /\ ListedOK' /\ ImagesFirst' /\ PlanDue'
  <1>1. Surviving' = Surviving
    BY Untouched DEF Inv
  <1>2. RunOK'
    BY DEF Inv, RunOK, Runs
  <1>3. ListedOK'
    BY DEF Inv, ListedOK, Seen
  <1>4. ImagesFirst'
    BY DEF Inv, ImagesFirst
  <1>5. PlanDue'
    BY <1>1, Primes DEF Inv, PlanDue
  <1> QED BY <1>2, <1>3, <1>4, <1>5

(* During a run there are no builds, unless they raced.                    *)
LEMMA Alone ==
  ASSUME Inv, run.pc # "idle", UNCHANGED <<builds, raced>>
  PROVE  BuildsApart'
  BY DEF Inv, BuildsApart

LEMMA CancelKeeps ==
  ASSUME Inv, NEW kind \in Kinds, CancelBuild(kind)
  PROVE  Inv'
  <1>1. /\ UNCHANGED <<reg, tags, refs, run, failures, loose, least, raced>>
        /\ builds' = [builds EXCEPT ![kind] = {}] /\ builds \in [Kinds -> SUBSET Images]
    BY DEF CancelBuild, Inv, TypeOK
  <1>2. Numbered' /\ Referred' /\ SurvivorsWhole'
    BY <1>1, Untouched DEF Inv
  <1>3. RunOK' /\ ListedOK' /\ ImagesFirst' /\ PlanDue'
    BY <1>1, RunUntouched
  <1>4. TypeOK'
    <2>1. builds' \in [Kinds -> SUBSET Images]
      BY <1>1
    <2> QED BY <1>1, <2>1 DEF Inv, TypeOK
  <1>5. BuildsApart'
    <2> SUFFICES ASSUME NEW b \in Kinds
                 PROVE  raced \/ builds'[b] = {} \/ (run.pc = "idle" /\ builds'[b] \subseteq reg)
      BY <1>1 DEF BuildsApart
    <2>1. builds'[b] = {} \/ builds'[b] = builds[b]
      BY <1>1
    <2> QED BY <2>1 DEF Inv, BuildsApart
  <1> QED BY <1>2, <1>3, <1>4, <1>5 DEF Inv

LEMMA StartKeeps ==
  ASSUME Inv, NEW k \in {Keep} \cup Keeps, Start(k)
  PROVE  Inv'
  <1>1. /\ UNCHANGED <<reg, tags, refs, builds, loose, failures>>
        /\ least' = IF k < least THEN k ELSE least
        /\ raced' = (raced \/ \E b \in Kinds : builds[b] # {})
    BY DEF Start, published
  <1>2. run' = [pc |-> "listing", keep |-> k, due |-> reg, listed |-> {},
                tags |-> [i \in Indexes |-> {}], plan |-> <<>>]
    BY DEF Start, Idle
  <1>3. k \in Nat \ {0} /\ least \in Nat \ {0}
    BY PruneAssumption DEF Inv, TypeOK
  <1>4. least' \in Nat \ {0} /\ least' <= least /\ k >= least'
    BY <1>1, <1>3
  <1>5. Surviving' \subseteq Surviving
    <2>1. Kept(reg, tags, least') \subseteq Kept(reg, tags, least)
      BY <1>3, <1>4, FewerKept
    <2>2. Surviving' = Tagged(reg, tags) \cup Kept(reg, tags, least')
      BY <1>1, Primes
    <2> QED BY <2>1, <2>2 DEF Surviving
  <1>6. Numbered' /\ Referred'
    BY <1>1 DEF Inv, Numbered, Published, Referred
  <1>7. SurvivorsWhole'
    BY <1>1, <1>5 DEF Inv, SurvivorsWhole
  <1>8. reg \subseteq Indexes \cup Images
    BY DEF Inv, TypeOK
  <1>9. RunOK'
    <2>1. run' \in Runs
      BY <1>2, <1>3, <1>8 DEF Runs
    <2>2. run' \in Runs'
      BY <2>1 DEF Runs
    <2> QED BY <1>2, <2>2 DEF RunOK
  <1>10. run'.pc = "listing" /\ run'.plan = <<>> /\ ToSet(run'.plan) = {} /\ IsInjective(run'.plan)
    BY <1>2, IdleFacts
  <1>11. TypeOK'
    BY <1>1, <1>4, <1>10 DEF Inv, TypeOK
  <1>12. BuildsApart'
    BY <1>1 DEF BuildsApart
  <1>13. ListedOK'
    <2>1. /\ run'.pc = "listing" /\ run'.keep = k /\ run'.due = reg /\ run'.listed = {}
      BY <1>2
    <2>2. Seen' = reg
      BY <2>1 DEF Seen
    <2> QED BY <1>1, <1>3, <1>4, <2>1, <2>2 DEF ListedOK
  <1>14. ImagesFirst'
    BY <1>10 DEF ImagesFirst
  <1>15. PlanDue'
    BY <1>10 DEF PlanDue
  <1> QED BY <1>6, <1>7, <1>9, <1>11, <1>12, <1>13, <1>14, <1>15 DEF Inv

LEMMA ListPageKeeps ==
  ASSUME Inv, NEW n, NEW k \in 1 .. run.keep, ListPage(n, k)
  PROVE  Inv'
  <1> DEFINE page == {v \in run.due : v > n}
             t == [i \in Indexes |-> IF i \in page THEN tags[i] ELSE run.tags[i]]
             pc == IF run.due \subseteq page THEN "listed" ELSE "listing"
  <1>1. /\ UNCHANGED <<reg, tags, refs, builds, loose, failures, least, raced>>
        /\ run.pc = "listing" /\ (k = run.keep \/ ~(reg \subseteq Seen))
    BY DEF ListPage, published, Seen
  <1>2. run' = [run EXCEPT !.pc = pc, !.keep = k, !.due = @ \ page, !.listed = @ \cup page, !.tags = t]
    BY DEF ListPage
  <1>3. run \in Runs /\ run.plan = <<>>
    BY <1>1 DEF Inv, RunOK
  <1>4. page \subseteq run.due /\ pc \in {"listing", "listed"} /\ (pc = "listed" => run.due \subseteq page)
    OBVIOUS
  <1>5. tags \in [Indexes -> SUBSET {"edge", "sha", "release"}]
    BY DEF Inv, TypeOK
  <1>6. t \in [Indexes -> SUBSET {"edge", "sha", "release"}]
    BY <1>3, <1>5 DEF Runs
  <1>7. \A i \in Indexes : t[i] = IF i \in page THEN tags[i] ELSE run.tags[i]
    OBVIOUS
  <1>8. k \in Nat \ {0}
    BY <1>3 DEF Runs
  <1> HIDE DEF page, t, pc
  <1>9. /\ run'.pc = pc /\ run'.keep = k /\ run'.due = run.due \ page /\ run'.tags = t
        /\ run'.listed = run.listed \cup page /\ run'.plan = <<>>
    BY <1>2, <1>3 DEF Runs
  <1>10. Seen' = Seen
    BY <1>4, <1>9 DEF Seen
  <1>11. Numbered' /\ Referred' /\ SurvivorsWhole'
    BY <1>1, Untouched DEF Inv
  <1>12. RunOK'
    <2>1. run' \in Runs
      BY <1>2, <1>3, <1>4, <1>6, <1>8 DEF Runs
    <2>2. run' \in Runs'
      BY <2>1 DEF Runs
    <2> QED BY <1>4, <1>9, <2>2 DEF RunOK
  <1>13. ToSet(run'.plan) = {} /\ IsInjective(run'.plan)
    BY <1>9, IdleFacts
  <1>14. TypeOK'
    BY <1>1, <1>4, <1>9, <1>13 DEF Inv, TypeOK
  <1>15. BuildsApart'
    BY <1>1, Alone
  <1>16. ListedOK'
    <2>1. /\ Seen \subseteq reg
          /\ \A c \in ((reg \ Seen) \cap Images) \ loose :
               \E i \in (reg \ Seen) \cap Indexes : c \in refs[i]
          /\ \/ raced
             \/ /\ Seen = reg /\ run.keep >= least
                /\ \A i \in run.listed \cap Indexes : run.tags[i] = tags[i]
      BY <1>1 DEF Inv, ListedOK
    <2>2. pc = "listed" => run.due \ page = {}
      BY <1>4
    <2>3. ASSUME ~raced
          PROVE  /\ Seen = reg /\ k >= least
                 /\ \A i \in (run.listed \cup page) \cap Indexes : t[i] = tags[i]
      BY <1>1, <1>7, <2>1, <2>3
    <2> QED BY <1>1, <1>8, <1>9, <1>10, <2>1, <2>2, <2>3 DEF ListedOK
  <1>17. ImagesFirst'
    BY <1>9 DEF ImagesFirst
  <1>18. PlanDue'
    BY <1>13 DEF PlanDue
  <1> QED BY <1>11, <1>12, <1>14, <1>15, <1>16, <1>17, <1>18 DEF Inv

LEMMA FailKeeps ==
  ASSUME Inv, Fail
  PROVE  Inv'
  <1>0. UNCHANGED <<reg, tags, refs, builds, loose, least, raced>> /\ run' = Idle /\ run.pc # "idle"
    BY DEF Fail, published
  <1>1. Numbered' /\ Referred' /\ SurvivorsWhole'
    BY <1>0, Untouched DEF Inv
  <1>2. /\ RunOK' /\ ListedOK' /\ ImagesFirst' /\ PlanDue'
        /\ run'.pc = "idle" /\ ToSet(run'.plan) = {} /\ IsInjective(run'.plan)
    BY <1>0, Ends
  <1>3. failures' \in 0 .. MaxFailures
    BY PruneAssumption DEF Inv, TypeOK, Fail, PruneAssumption
  <1>4. TypeOK'
    BY <1>0, <1>2, <1>3 DEF TypeOK, Inv
  <1>5. BuildsApart'
    BY <1>0, Alone
  <1> QED BY <1>1, <1>2, <1>4, <1>5 DEF Inv

LEMMA PlanKeeps ==
  ASSUME Inv, Plan
  PROVE  Inv'
  <1> DEFINE L == run.listed
             t == run.tags
             K == run.keep
             D == Doomed(L, t, K)
             P == Protected(L, t, K)
             Goes(i) == (refs[i] \cap L) \ P
             s == planPrune(L, t, K)
             stay == Tagged(L, t) \cup Kept(L, t, K)
  <1>0. UNCHANGED <<reg, tags, refs, builds, loose, failures, least, raced>> /\ run.pc = "listed"
    BY DEF Plan, published
  <1>1. Numbered' /\ Referred' /\ SurvivorsWhole' /\ Surviving' = Surviving
    BY <1>0, Untouched DEF Inv
  <1>1a. BuildsApart'
    BY <1>0, Alone
  <1>2. CASE D = {}
    <2>1. run' = Idle
      BY <1>2 DEF Plan
    <2>2. /\ RunOK' /\ ListedOK' /\ ImagesFirst' /\ PlanDue'
          /\ run'.pc = "idle" /\ ToSet(run'.plan) = {} /\ IsInjective(run'.plan)
      BY <2>1, Ends
    <2>3. TypeOK'
      BY <1>0, <2>2 DEF TypeOK, Inv
    <2> QED BY <1>1, <1>1a, <2>2, <2>3 DEF Inv
  <1>3. CASE D # {}
    <2>1. run' = [Idle EXCEPT !.pc = "delete", !.keep = K, !.plan = s]
      BY <1>3 DEF Plan
    <2>2. run'.pc = "delete" /\ run'.plan = s
      BY <2>1 DEF Idle
    <2>3. refs \in [Indexes -> SUBSET Images] /\ reg \subseteq Indexes \cup Images
      BY DEF Inv, TypeOK
    <2>4. /\ ListsOnce(s, D \cup UNION {Goes(i) : i \in D})
          /\ \A p \in DOMAIN s : s[p] \in Indexes =>
               \A c \in Goes(s[p]) : \E q \in 1 .. p - 1 : s[q] = c
      <3>1. PlanLaid(s, L, t, K)
        BY <1>3, <2>3, PlanHolds
      <3> QED BY <3>1 DEF PlanLaid
    <2>5. D \subseteq L \cap Indexes /\ stay \subseteq L \cap Indexes /\ D \cap stay = {}
      BY DEF Doomed, Edges, Tagged, Kept
    <2>6. P = stay \cup UNION {refs[i] : i \in stay}
      BY DEF Protected
    <2>7. Seen = L
      BY <1>0 DEF Seen, Inv, ListedOK
    <2>8. /\ L \subseteq reg /\ K \in Nat \ {0}
          /\ \A c \in ((reg \ L) \cap Images) \ loose : \E i \in (reg \ L) \cap Indexes : c \in refs[i]
          /\ raced \/ (L = reg /\ K >= least /\ \A i \in L \cap Indexes : t[i] = tags[i])
      BY <1>0, <2>7 DEF Inv, ListedOK
    <2>9. /\ reg' = reg /\ refs' = refs /\ tags' = tags /\ raced' = raced /\ failures' = failures
          /\ builds' = builds /\ loose' = loose /\ least' = least
      BY <1>0
    <2>10. ASSUME ~raced PROVE D \subseteq Doomed(reg, tags, least) /\ Surviving \subseteq stay
      <3>1. L = reg /\ K >= least /\ least \in Nat /\ \A i \in L \cap Indexes : t[i] = tags[i]
        BY <2>8, <2>10 DEF Inv, TypeOK
      <3> HIDE DEF L, t, K
      <3>2. /\ Tagged(L, t) = Tagged(L, tags) /\ Kept(L, t, K) = Kept(L, tags, K)
            /\ Doomed(L, t, K) = Doomed(L, tags, K)
        BY <3>1, SameTags
      <3>3. /\ Kept(reg, tags, least) \subseteq Kept(reg, tags, K)
            /\ Doomed(reg, tags, K) \subseteq Doomed(reg, tags, least)
        BY <2>8, <3>1, FewerKept
      <3> QED BY <3>1, <3>2, <3>3 DEF Surviving
    <2> HIDE DEF s, D, P, stay, L, t, K
    <2>11. ToSet(s) = D \cup UNION {Goes(i) : i \in D} /\ IsInjective(s)
      BY <2>4 DEF ListsOnce
    <2>12. \A i \in D : Goes(i) \subseteq Images /\ Goes(i) \subseteq L
      BY <2>3, <2>5
    <2>13. ToSet(s) \subseteq L /\ ToSet(s) \cap Indexes = D
      BY <2>5, <2>11, <2>12, Disjoint
    <2>14. s \in Seq(Indexes \cup Images) /\ s # <<>>
      <3>1. D \cup UNION {Goes(i) : i \in D} \subseteq Indexes \cup Images
        BY <2>5, <2>12
      <3> DEFINE A == D \cup UNION {Goes(i) : i \in D}
      <3>2. s \in Seq(A) /\ A \subseteq Indexes \cup Images
        BY <2>4, <3>1 DEF ListsOnce
      <3> HIDE DEF A
      <3>3. s \in Seq(Indexes \cup Images)
        BY <3>2
      <3>4. ToSet(s) # {}
        BY <1>3, <2>11
      <3>5. s # <<>>
        BY <3>4, IdleFacts
      <3> QED BY <3>3, <3>5
    <2>15. TypeOK'
      BY <2>2, <2>8, <2>9, <2>11, <2>13 DEF TypeOK, Inv
    <2>16. RunOK'
      <3>1. s \in Seq(Indexes \cup Images)
        BY <2>14
      <3>2. run' \in Runs
        BY <2>1, <2>8, <3>1, IdleFacts DEF Runs
      <3>3. run' \in Runs'
        BY <3>2 DEF Runs
      <3> QED BY <2>2, <2>14, <3>3 DEF RunOK
    <2>17. ListedOK'
      BY <2>2 DEF ListedOK
    <2>18. ImagesFirst'
      <3> SUFFICES ASSUME NEW p \in DOMAIN s, s[p] \in Indexes, NEW c \in (refs[s[p]] \cap reg) \ loose
                   PROVE  \/ \E q \in 1 .. p - 1 : s[q] = c
                          \/ \E i \in (reg \cap Indexes) \ ToSet(s) : c \in refs[i]
        BY <2>2, <2>9 DEF ImagesFirst
      <3>1. s[p] \in D /\ c \in Images
        BY <2>3, <2>13 DEF ToSet
      <3>2. CASE c \notin L
        <4>1. PICK i \in (reg \ L) \cap Indexes : c \in refs[i]
          BY <2>8, <3>1, <3>2
        <4> QED BY <2>13, <4>1
      <3>3. CASE c \in P
        <4>1. PICK i \in stay : c \in refs[i]
          BY <2>5, <2>6, <3>1, <3>3, Disjoint
        <4>2. i \in reg \cap Indexes /\ i \notin ToSet(s)
          BY <2>5, <2>8, <2>13, <4>1
        <4> QED BY <4>1, <4>2
      <3>4. CASE c \in L /\ c \notin P
        <4>1. c \in Goes(s[p])
          BY <3>4
        <4> QED BY <2>4, <4>1
      <3> QED BY <3>2, <3>3, <3>4
    <2>19. PlanDue'
      <3> SUFFICES ASSUME ~raced
                   PROVE  /\ ToSet(s) \cap Indexes \subseteq Doomed(reg, tags, least)
                          /\ \A i \in Surviving : refs[i] \cap ToSet(s) = {}
        BY <1>1, <2>2, <2>9, Primes DEF PlanDue
      <3>1. D \subseteq Doomed(reg, tags, least) /\ Surviving \subseteq stay
        BY <2>10
      <3>2. ASSUME NEW i \in stay PROVE refs[i] \cap ToSet(s) = {}
        <4>1. refs[i] \subseteq P /\ refs[i] \subseteq Images
          BY <2>3, <2>5, <2>6
        <4> QED BY <2>5, <2>11, <4>1, Disjoint
      <3> QED BY <2>13, <3>1, <3>2
    <2> QED BY <1>1, <1>1a, <2>15, <2>16, <2>17, <2>18, <2>19 DEF Inv
  <1> QED BY <1>2, <1>3

LEMMA DeleteKeeps ==
  ASSUME Inv, Delete
  PROVE  Inv'
  <1> DEFINE s == run.plan
             h == Head(s)
             Q == Indexes \cup Images
  <1>1. s \in Seq(Q) /\ s # <<>> /\ ToSet(s) \subseteq reg /\ IsInjective(s)
    BY DEF Inv, TypeOK, RunOK, Runs, Delete
  <1>2. /\ tags' = tags /\ refs' = refs /\ raced' = raced /\ failures' = failures
        /\ builds' = builds /\ loose' = loose /\ least' = least
        /\ reg' = reg \ {h} /\ run.pc = "delete"
    BY DEF Delete, published
  <1>2a. BuildsApart'
    BY <1>2, Alone
  <1>2b. least \in Nat
    BY DEF Inv, TypeOK
  <1>3. refs \in [Indexes -> SUBSET Images] /\ reg \subseteq Q
    BY DEF Inv, TypeOK
  <1>4. Len(s) \in Nat \ {0} /\ DOMAIN s = 1 .. Len(s) /\ h = s[1]
    BY <1>1
  <1>5. /\ Tail(s) \in Seq(Q) /\ Len(Tail(s)) = Len(s) - 1
        /\ \A i \in 1 .. Len(Tail(s)) : Tail(s)[i] = s[i + 1]
    BY <1>1, HeadTailProperties
  <1>6. 1 \in DOMAIN s /\ h \in ToSet(s) /\ h \in reg
    BY <1>1, <1>4 DEF ToSet
  <1>7. raced \/ (h \in Indexes => h \in Doomed(reg, tags, least))
    BY <1>6 DEF Inv, PlanDue
  <1>8. raced \/ (Surviving' = Surviving /\ Doomed(reg', tags', least') = Doomed(reg, tags, least) \ {h})
    <2> SUFFICES ASSUME ~raced
                 PROVE  Surviving' = Surviving /\ Doomed(reg', tags', least') = Doomed(reg, tags, least) \ {h}
      OBVIOUS
    <2>1. h \in Doomed(reg, tags, least) \/ h \notin Indexes
      BY <1>7
    <2> HIDE DEF h
    <2>2. /\ Tagged(reg \ {h}, tags) = Tagged(reg, tags)
          /\ Kept(reg \ {h}, tags, least) = Kept(reg, tags, least)
          /\ \A i : i \in Doomed(reg \ {h}, tags, least) <=> i \in Doomed(reg, tags, least) /\ i # h
      BY <1>2b, <2>1, DueGoes
    <2> QED BY <1>2, <2>2, Primes DEF Surviving
  <1>9. run' = IF Len(s) = 1 THEN Idle ELSE [run EXCEPT !.plan = Tail(s)]
    BY <1>6 DEF Delete
  <1>10. ASSUME NEW c \in refs[h], h \in Indexes, c \in reg, c \notin loose
         PROVE  \E i \in (reg \cap Indexes) \ ToSet(s) : c \in refs[i]
    <2>1. \A q \in 1 .. 1 - 1 : FALSE
      OBVIOUS
    <2>2. s[1] \in Indexes /\ c \in (refs[s[1]] \cap reg) \ loose /\ 1 \in DOMAIN s
      BY <1>4, <1>6, <1>10
    <2>3. \/ \E q \in 1 .. 1 - 1 : s[q] = c
          \/ \E i \in (reg \cap Indexes) \ ToSet(s) : c \in refs[i]
      BY <2>2 DEF Inv, ImagesFirst
    <2> QED BY <2>1, <2>3
  <1> HIDE DEF h
  <1>11. Numbered'
    BY <1>2 DEF Inv, Numbered, Published
  <1>12. Referred'
    <2> SUFFICES ASSUME NEW c \in (reg \cap Images) \ loose, c # h
                 PROVE  \E i \in (reg \ {h}) \cap Indexes : c \in refs[i]
      BY <1>2 DEF Referred
    <2>1. PICK i \in reg \cap Indexes : c \in refs[i]
      BY DEF Inv, Referred
    <2>2. CASE i = h
      <3>1. PICK j \in (reg \cap Indexes) \ ToSet(s) : c \in refs[j]
        BY <1>10, <2>1, <2>2
      <3> QED BY <1>6, <3>1
    <2> QED BY <2>1, <2>2
  <1>13. SurvivorsWhole'
    <2> SUFFICES ASSUME ~raced, NEW i \in Surviving PROVE refs[i] \subseteq reg \ {h}
      BY <1>2, <1>8 DEF SurvivorsWhole
    <2>1. refs[i] \subseteq reg /\ refs[i] \cap ToSet(s) = {}
      BY DEF Inv, SurvivorsWhole, PlanDue
    <2> QED BY <1>6, <2>1
  <1>14. CASE Len(s) = 1
    <2>1. run' = Idle
      BY <1>9, <1>14
    <2>2. /\ RunOK' /\ ListedOK' /\ ImagesFirst' /\ PlanDue'
          /\ run'.pc = "idle" /\ ToSet(run'.plan) = {} /\ IsInjective(run'.plan)
      BY <2>1, Ends
    <2>3. TypeOK'
      BY <1>2, <2>2 DEF TypeOK, Inv
    <2> QED BY <1>2a, <1>11, <1>12, <1>13, <2>2, <2>3 DEF Inv
  <1>15. CASE Len(s) # 1
    <2> DEFINE u == Tail(s)
    <2>1. run' = [run EXCEPT !.plan = u]
      BY <1>9, <1>15
    <2>2. run'.pc = "delete" /\ run'.plan = u
      BY <1>2, <2>1 DEF Inv, RunOK, Runs
    <2>3. u \in Seq(Q) /\ DOMAIN u = 1 .. Len(s) - 1 /\ \A p \in 1 .. Len(s) - 1 : u[p] = s[p + 1]
      BY <1>4, <1>5
    <2> HIDE DEF u
    <2>4. u # <<>>
      <3>1. 1 \in 1 .. Len(s) - 1
        <4>1. PICK n : n = Len(s)
          OBVIOUS
        <4>2. n \in Nat /\ n # 0 /\ n # 1
          BY <1>4, <1>15, <4>1
        <4>3. 1 \in 1 .. n - 1
          BY <4>2
        <4> QED BY <4>1, <4>3
      <3>2. 1 \in DOMAIN u
        BY <2>3, <3>1, Zenon
      <3> QED BY <3>2
    <2>5. \A p \in 1 .. Len(s) - 1 : p + 1 \in DOMAIN s /\ p + 1 # 1
      BY <1>4
    <2>6. IsInjective(u)
      <3> SUFFICES ASSUME NEW p \in 1 .. Len(s) - 1, NEW q \in 1 .. Len(s) - 1, u[p] = u[q]
                   PROVE  p = q
        BY <2>3 DEF IsInjective
      <3>1. s[p + 1] = s[q + 1] /\ p + 1 \in DOMAIN s /\ q + 1 \in DOMAIN s
        BY <2>3, <2>5
      <3>2. p + 1 = q + 1
        BY <1>1, <3>1, Zenon DEF IsInjective
      <3> QED BY <3>2
    <2>7. ToSet(u) \subseteq ToSet(s) \ {h}
      <3> SUFFICES ASSUME NEW p \in 1 .. Len(s) - 1 PROVE u[p] \in ToSet(s) /\ u[p] # h
        BY <2>3 DEF ToSet
      <3>1. u[p] = s[p + 1] /\ p + 1 \in DOMAIN s /\ p + 1 # 1
        BY <2>3, <2>5
      <3>2. s[p + 1] # s[1]
        BY <1>1, <1>6, <3>1, Zenon DEF IsInjective
      <3> QED BY <1>4, <3>1, <3>2 DEF ToSet
    <2>8. TypeOK'
      BY <1>1, <1>2, <2>2, <2>6, <2>7 DEF TypeOK, Inv
    <2>9. RunOK'
      <3>1. run' \in Runs
        BY <2>1, <2>3 DEF RunOK, Inv, Runs
      <3>2. run' \in Runs'
        BY <3>1 DEF Runs
      <3> QED BY <2>2, <2>4, <3>2 DEF RunOK
    <2>10. ListedOK'
      BY <2>2 DEF ListedOK
    <2>11. ImagesFirst'
      <3>0. /\ run'.plan = u /\ DOMAIN u = 1 .. Len(s) - 1 /\ refs' = refs /\ loose' = loose
            /\ reg' = reg \ {h}
        BY <1>2, <2>2, <2>3
      <3> SUFFICES ASSUME NEW p \in 1 .. Len(s) - 1, u[p] \in Indexes,
                          NEW c \in (refs[u[p]] \cap (reg \ {h})) \ loose
                   PROVE  \/ \E q \in 1 .. p - 1 : u[q] = c
                          \/ \E i \in ((reg \ {h}) \cap Indexes) \ ToSet(u) : c \in refs[i]
        BY <3>0, Zenon DEF ImagesFirst
      <3>1. PICK r : r = p + 1
        OBVIOUS
      <3>2. r \in DOMAIN s /\ u[p] = s[r] /\ r - 1 = p
        BY <2>3, <2>5, <3>1
      <3>3. \/ \E q \in 1 .. r - 1 : s[q] = c
            \/ \E i \in (reg \cap Indexes) \ ToSet(s) : c \in refs[i]
        BY <3>2 DEF Inv, ImagesFirst
      <3>4. CASE \E q \in 1 .. r - 1 : s[q] = c
        <4>1. PICK q \in 1 .. p : s[q] = c
          BY <3>2, <3>4
        <4>2. q # 1
          BY <1>4, <4>1
        <4>3. PICK k : k = q - 1
          OBVIOUS
        <4>4. k \in 1 .. p - 1 /\ k \in 1 .. Len(s) - 1 /\ k + 1 = q
          BY <1>4, <4>2, <4>3
        <4>5. u[k] = c
          BY <2>3, <4>1, <4>4
        <4> QED BY <4>4, <4>5
      <3>5. CASE \E i \in (reg \cap Indexes) \ ToSet(s) : c \in refs[i]
        BY <1>6, <2>7, <3>5
      <3> QED BY <3>3, <3>4, <3>5
    <2>12. PlanDue'
      <3> SUFFICES ASSUME ~raced
                   PROVE  /\ ToSet(u) \cap Indexes \subseteq Doomed(reg, tags, least) \ {h}
                          /\ \A i \in Surviving : refs[i] \cap ToSet(u) = {}
        BY <1>2, <1>8, <2>2, Primes DEF PlanDue
      <3> QED BY <2>7 DEF Inv, PlanDue
    <2> QED BY <1>2a, <1>11, <1>12, <1>13, <2>8, <2>9, <2>10, <2>11, <2>12 DEF Inv
  <1> QED BY <1>14, <1>15

(* An image adds no index.                                                 *)
LEMMA PushImageKeeps ==
  ASSUME Inv, NEW kind \in Kinds, NEW c \in Images, PushImage(kind, c)
  PROVE  Inv'
  <1>1. /\ UNCHANGED <<tags, refs, run, failures, least>> /\ reg' = reg \cup {c}
        /\ builds' = [builds EXCEPT ![kind] = @ \cup {c}]
        /\ loose' = IF c \in reg THEN loose ELSE loose \cup {c}
        /\ raced' = (raced \/ run.pc # "idle")
    BY DEF PushImage
  <1>2. c \notin Indexes
    BY Disjoint
  <1>3. Surviving' = Surviving
    <2>1. Edges(reg', tags) = Edges(reg, tags) /\ Tagged(reg', tags) = Tagged(reg, tags)
      BY <1>1, <1>2 DEF Edges, Tagged
    <2>2. Kept(reg', tags, least) = Kept(reg, tags, least)
      BY <2>1 DEF Kept
    <2> QED BY <1>1, <2>1, <2>2, Primes DEF Surviving
  <1>4. TypeOK'
    <2>1. builds \in [Kinds -> SUBSET Images]
      BY DEF Inv, TypeOK
    <2>2. builds' \in [Kinds -> SUBSET Images]
      BY <1>1, <2>1
    <2> QED BY <1>1, <2>2 DEF Inv, TypeOK
  <1>5. RunOK'
    BY <1>1 DEF Inv, RunOK, Runs
  <1>6. Numbered'
    BY <1>1, <1>2 DEF Inv, Numbered, Published
  <1>7. Referred'
    BY <1>1 DEF Inv, Referred
  <1>8. BuildsApart'
    <2> SUFFICES ASSUME NEW b \in Kinds, ~raced'
                 PROVE  builds'[b] = {} \/ (run.pc = "idle" /\ builds'[b] \subseteq reg')
      BY <1>1 DEF BuildsApart
    <2>1. builds'[b] = builds[b] \/ builds'[b] = builds[b] \cup {c}
      BY <1>1 DEF Inv, TypeOK
    <2>2. ~raced /\ run.pc = "idle"
      BY <1>1
    <2>3. builds[b] \subseteq reg
      BY <2>2 DEF Inv, BuildsApart
    <2> QED BY <1>1, <2>1, <2>2, <2>3
  <1>9. ListedOK'
    <2> SUFFICES ASSUME run.pc \in {"listing", "listed"}
                 PROVE  /\ Seen \subseteq reg' /\ run.keep \in Nat \ {0}
                        /\ \A e \in ((reg' \ Seen) \cap Images) \ loose' :
                             \E i \in (reg' \ Seen) \cap Indexes : e \in refs[i]
                        /\ run.pc = "listed" => run.due = {}
                        /\ raced'
      BY <1>1 DEF ListedOK, Seen
    <2>1. /\ Seen \subseteq reg /\ run.keep \in Nat \ {0}
          /\ \A e \in ((reg \ Seen) \cap Images) \ loose :
               \E i \in (reg \ Seen) \cap Indexes : e \in refs[i]
          /\ run.pc = "listed" => run.due = {}
      BY DEF Inv, ListedOK
    <2> QED BY <1>1, <2>1
  <1>10. ImagesFirst'
    <2> SUFFICES ASSUME NEW p \in DOMAIN run.plan, run.plan[p] \in Indexes,
                        NEW e \in (refs[run.plan[p]] \cap reg) \ loose
                 PROVE  \/ \E q \in 1 .. p - 1 : run.plan[q] = e
                        \/ \E i \in (reg' \cap Indexes) \ ToSet(run.plan) : e \in refs[i]
      BY <1>1 DEF ImagesFirst
    <2>1. \/ \E q \in 1 .. p - 1 : run.plan[q] = e
          \/ \E i \in (reg \cap Indexes) \ ToSet(run.plan) : e \in refs[i]
      BY DEF Inv, ImagesFirst
    <2> QED BY <1>1, <2>1
  <1>11. PlanDue'
    <2>1. CASE raced'
      BY <2>1 DEF PlanDue
    <2>2. CASE ~raced'
      <3>1. run.plan = <<>>
        BY <1>1, <2>2 DEF Inv, RunOK
      <3>2. run'.plan = <<>> /\ ToSet(run'.plan) = {}
        BY <1>1, <3>1, IdleFacts
      <3> QED BY <3>2 DEF PlanDue
    <2> QED BY <2>1, <2>2
  <1>12. SurvivorsWhole'
    BY <1>1, <1>3 DEF Inv, SurvivorsWhole
  <1> QED BY <1>4, <1>5, <1>6, <1>7, <1>8, <1>9, <1>10, <1>11, <1>12 DEF Inv

(* What PushIndex does, for the index it takes.                            *)
Takes(i, kind, of) ==
  /\ builds[kind] # {}
  /\ of = 0 \/ (of \in reg \cap Indexes /\ tags[of] # {} /\ ("release" \in tags[of]) = (kind = "release"))
  /\ i \in Indexes /\ refs[i] = {} /\ \A j \in 1 .. i - 1 : refs[j] # {}
  /\ refs' = [refs EXCEPT ![i] = builds[kind]]
  /\ reg' = reg \cup {i}
  /\ tags' = [j \in Indexes |-> IF j = i THEN {kind, "sha"} ELSE IF j = of THEN {}
                                ELSE IF kind = "edge" THEN tags[j] \ {"edge"} ELSE tags[j]]
  /\ loose' = loose \ builds[kind]
  /\ builds' = [builds EXCEPT ![kind] = {}]
  /\ raced' = (raced \/ run.pc # "idle")
  /\ UNCHANGED <<run, failures, least>>

(* The tags after a build was published: one of its kind may be left       *)
(* without any, and a new edge build may leave one without the edge tag.   *)
TagsAfter(i, kind, of) ==
  /\ tags' \in [Indexes -> SUBSET {"edge", "sha", "release"}]
  /\ tags'[i] = {kind, "sha"}
  /\ \A j \in Indexes \ {i} :
       \/ tags'[j] = tags[j]
       \/ tags[j] = {"edge", "sha"} /\ tags'[j] = {"sha"}
       \/ j = of /\ tags'[j] = {} /\ ("release" \in tags[j]) = (kind = "release")

LEMMA Retagged ==
  ASSUME Inv, NEW i, NEW kind \in Kinds, NEW of, Takes(i, kind, of)
  PROVE  TagsAfter(i, kind, of)
  <1>1. tags \in [Indexes -> SUBSET {"edge", "sha", "release"}] /\ i \in Indexes
    BY DEF Inv, TypeOK, Takes
  <1>2. \A j \in Indexes : tags[j] \in {{}, {"sha"}, {"edge", "sha"}, {"release", "sha"}}
    BY DEF Inv, Numbered
  <1>3. tags' = [j \in Indexes |-> IF j = i THEN {kind, "sha"} ELSE IF j = of THEN {}
                                   ELSE IF kind = "edge" THEN tags[j] \ {"edge"} ELSE tags[j]]
    BY DEF Takes
  <1>4. tags'[i] = {kind, "sha"}
    BY <1>1, <1>3
  <1>5. 0 \notin Indexes
    BY DEF Indexes
  <1>6. ASSUME NEW j \in Indexes \ {i}
        PROVE  \/ tags'[j] = tags[j]
               \/ tags[j] = {"edge", "sha"} /\ tags'[j] = {"sha"}
               \/ j = of /\ tags'[j] = {} /\ ("release" \in tags[j]) = (kind = "release")
    <2>1. CASE j = of
      <3>1. tags'[j] = {}
        BY <1>3, <2>1
      <3> QED BY <1>5, <2>1, <3>1 DEF Takes
    <2>2. CASE j # of /\ (kind # "edge" \/ "edge" \notin tags[j])
      <3>1. tags'[j] = IF kind = "edge" THEN tags[j] \ {"edge"} ELSE tags[j]
        BY <1>3, <2>2
      <3> QED BY <2>2, <3>1
    <2>3. CASE j # of /\ kind = "edge" /\ "edge" \in tags[j]
      <3>1. tags[j] = {"edge", "sha"}
        BY <1>2, <2>3
      <3>2. {"edge", "sha"} \ {"edge"} = {"sha"}
        OBVIOUS
      <3>3. tags'[j] = tags[j] \ {"edge"}
        BY <1>3, <2>3
      <3> QED BY <3>1, <3>2, <3>3
    <2> QED BY <2>1, <2>2, <2>3
  <1>7. tags' \in [Indexes -> SUBSET {"edge", "sha", "release"}]
    <2>1. {kind, "sha"} \subseteq {"edge", "sha", "release"}
      BY DEF Kinds
    <2> QED BY <1>1, <1>3, <2>1
  <1> QED BY <1>4, <1>6, <1>7 DEF TagsAfter

LEMMA PushIndexKeeps ==
  ASSUME Inv, NEW i, NEW kind \in Kinds, NEW of, Takes(i, kind, of)
  PROVE  Inv'
  <1> DEFINE images == builds[kind]
  <1>1. /\ i \in Indexes /\ refs[i] = {} /\ \A j \in 1 .. i - 1 : refs[j] # {}
        /\ refs' = [refs EXCEPT ![i] = images] /\ reg' = reg \cup {i}
        /\ loose' = loose \ images /\ least' = least
        /\ builds' = [builds EXCEPT ![kind] = {}]
        /\ raced' = (raced \/ run.pc # "idle") /\ run' = run /\ failures' = failures
    BY DEF Takes
  <1>2. /\ refs \in [Indexes -> SUBSET Images] /\ reg \subseteq Indexes \cup Images
        /\ images \subseteq Images /\ images # {} /\ builds \in [Kinds -> SUBSET Images]
        /\ least \in Nat /\ (~raced /\ run.pc = "idle" => images \subseteq reg)
    BY DEF Inv, TypeOK, Takes, BuildsApart
  <1>3. /\ tags' \in [Indexes -> SUBSET {"edge", "sha", "release"}]
        /\ tags'[i] = {kind, "sha"}
        /\ \A j \in Indexes \ {i} :
             \/ tags'[j] = tags[j]
             \/ tags[j] = {"edge", "sha"} /\ tags'[j] = {"sha"}
             \/ j = of /\ tags'[j] = {} /\ ("release" \in tags[j]) = (kind = "release")
    <2>1. TagsAfter(i, kind, of)
      BY Retagged
    <2> QED BY <2>1 DEF TagsAfter
  <1>4. i \notin reg
    BY <1>1 DEF Inv, Numbered, Published
  <1>5. refs'[i] = images /\ \A j \in Indexes \ {i} : refs'[j] = refs[j]
    BY <1>1, <1>2
  <1>5a. \A b \in Kinds : builds'[b] = {} \/ builds'[b] = builds[b]
    BY <1>1, <1>2
  <1>5b. builds' \in [Kinds -> SUBSET Images]
    BY <1>1, <1>2
  <1> HIDE DEF images
  <1>6. TypeOK'
    <2>1. refs' \in [Indexes -> SUBSET Images]
      BY <1>1, <1>2
    <2>2. reg' \subseteq Indexes \cup Images
      BY <1>1, <1>2
    <2> QED BY <1>1, <1>3, <1>5b, <2>1, <2>2 DEF Inv, TypeOK
  <1>7. RunOK'
    BY <1>1 DEF Inv, RunOK, Runs
  <1>7a. BuildsApart'
    <2> SUFFICES ASSUME NEW b \in Kinds
                 PROVE  raced' \/ builds'[b] = {} \/ (run.pc = "idle" /\ builds'[b] \subseteq reg')
      BY <1>1 DEF BuildsApart
    <2>1. builds'[b] = {} \/ builds'[b] = builds[b]
      BY <1>5a
    <2>2. raced \/ builds[b] = {} \/ (run.pc = "idle" /\ builds[b] \subseteq reg)
      BY DEF Inv, BuildsApart
    <2> QED BY <1>1, <2>1, <2>2
  <1>8. Numbered'
    <2>1. Published' = Published \cup {i}
      BY <1>1, <1>2, <1>5 DEF Published
    <2>2. reg' \cap Indexes \subseteq Published'
      BY <1>1, <1>2, <2>1, Disjoint DEF Inv, Numbered
    <2>3. \A k \in Published' : 1 .. k - 1 \subseteq Published'
      <3>1. i \in 1 .. MaxBuilds
        BY <1>1 DEF Indexes
      <3>2. \A j \in 1 .. i - 1 : j \in Indexes
        BY <3>1, PruneAssumption DEF Indexes
      <3>3. 1 .. i - 1 \subseteq Published
        BY <1>1, <3>2 DEF Published
      <3> QED BY <2>1, <3>3 DEF Inv, Numbered
    <2>4. ASSUME NEW j \in Indexes
          PROVE  tags'[j] \in {{}, {"sha"}, {"edge", "sha"}, {"release", "sha"}}
      <3>1. CASE j = i
        BY <1>3, <3>1 DEF Kinds
      <3>2. CASE j # i
        <4>1. tags[j] \in {{}, {"sha"}, {"edge", "sha"}, {"release", "sha"}}
          BY DEF Inv, Numbered
        <4> QED BY <1>3, <3>2, <4>1
      <3> QED BY <3>1, <3>2
    <2>5. ASSUME NEW j \in Indexes \ Published' PROVE tags'[j] = {}
      <3>1. j \in Indexes \ Published /\ j # i
        BY <2>1, <2>5
      <3>2. tags[j] = {}
        BY <3>1 DEF Inv, Numbered
      <3> QED BY <1>3, <3>1, <3>2
    <2> QED BY <2>2, <2>3, <2>4, <2>5 DEF Numbered
  <1>9. Referred'
    <2> SUFFICES ASSUME NEW c \in (reg' \cap Images) \ loose'
                 PROVE  \E j \in reg' \cap Indexes : c \in refs'[j]
      BY DEF Referred
    <2>1. CASE c \in images
      BY <1>1, <1>5, <2>1
    <2>2. CASE c \notin images
      <3>1. c \in reg /\ c \notin loose
        BY <1>1, <2>2, Disjoint
      <3>2. PICK j \in reg \cap Indexes : c \in refs[j]
        BY <3>1 DEF Inv, Referred
      <3> QED BY <1>1, <1>4, <1>5, <3>2
    <2> QED BY <2>1, <2>2
  <1>10. ListedOK'
    <2> SUFFICES ASSUME run.pc \in {"listing", "listed"}
                 PROVE  /\ Seen \subseteq reg' /\ run.keep \in Nat \ {0}
                        /\ \A c \in ((reg' \ Seen) \cap Images) \ loose' :
                             \E j \in (reg' \ Seen) \cap Indexes : c \in refs'[j]
                        /\ run.pc = "listed" => run.due = {}
                        /\ raced'
      BY <1>1 DEF ListedOK, Seen
    <2>1. /\ Seen \subseteq reg /\ run.keep \in Nat \ {0}
          /\ \A c \in ((reg \ Seen) \cap Images) \ loose :
               \E j \in (reg \ Seen) \cap Indexes : c \in refs[j]
          /\ run.pc = "listed" => run.due = {}
      BY DEF Inv, ListedOK
    <2>2. ASSUME NEW c \in ((reg' \ Seen) \cap Images) \ loose'
          PROVE  \E j \in (reg' \ Seen) \cap Indexes : c \in refs'[j]
      <3>1. CASE c \in images
        BY <1>1, <1>4, <1>5, <2>1, <3>1
      <3>2. CASE c \notin images
        <4>1. c \in reg /\ c \notin loose
          BY <1>1, <2>2, <3>2, Disjoint
        <4>2. PICK j \in (reg \ Seen) \cap Indexes : c \in refs[j]
          BY <2>1, <2>2, <4>1
        <4> QED BY <1>1, <1>4, <1>5, <4>2
      <3> QED BY <3>1, <3>2
    <2> QED BY <1>1, <2>1, <2>2
  <1>11. ToSet(run.plan) \subseteq reg
    BY DEF Inv, TypeOK
  <1>12. ImagesFirst'
    <2> SUFFICES ASSUME NEW p \in DOMAIN run.plan, run.plan[p] \in Indexes,
                        NEW c \in (refs'[run.plan[p]] \cap reg') \ loose'
                 PROVE  \/ \E q \in 1 .. p - 1 : run.plan[q] = c
                        \/ \E j \in (reg' \cap Indexes) \ ToSet(run.plan) : c \in refs'[j]
      BY <1>1 DEF ImagesFirst
    <2>1. run.plan[p] \in reg
      BY <1>11 DEF ToSet
    <2>2. refs'[run.plan[p]] = refs[run.plan[p]] /\ c \in Images
      BY <1>2, <1>4, <1>5, <2>1
    <2>3. CASE c \in images
      BY <1>1, <1>4, <1>5, <1>11, <2>3
    <2>4. CASE c \notin images
      <3>1. c \in reg /\ c \notin loose
        BY <1>1, <2>2, <2>4, Disjoint
      <3>2. \/ \E q \in 1 .. p - 1 : run.plan[q] = c
            \/ \E j \in (reg \cap Indexes) \ ToSet(run.plan) : c \in refs[j]
        BY <2>2, <3>1 DEF Inv, ImagesFirst
      <3>3. CASE \E j \in (reg \cap Indexes) \ ToSet(run.plan) : c \in refs[j]
        BY <1>1, <1>4, <1>5, <3>3
      <3> QED BY <3>2, <3>3
    <2> QED BY <2>3, <2>4
  <1>13. PlanDue'
    <2>1. CASE raced'
      BY <2>1 DEF PlanDue
    <2>2. CASE ~raced'
      <3>1. run.plan = <<>>
        BY <1>1, <2>2 DEF Inv, RunOK
      <3>2. run'.plan = <<>> /\ ToSet(run'.plan) = {}
        BY <1>1, <3>1, IdleFacts
      <3> QED BY <3>2 DEF PlanDue
    <2> QED BY <2>1, <2>2
  <1>14. SurvivorsWhole'
    <2> SUFFICES ASSUME ~raced', NEW j \in Surviving' PROVE refs'[j] \subseteq reg'
      BY DEF SurvivorsWhole
    <2>0. ~raced
      BY <1>1
    <2>1. CASE j = i
      BY <1>1, <1>2, <1>5, <2>1
    <2>2. CASE j # i
      <3> DEFINE E == Edges(reg, tags)
                 F == Edges(reg', tags')
      <3>1. j \in Tagged(reg', tags') \cup Kept(reg', tags', least')
        BY Primes
      <3>2. j \in Indexes /\ j \in reg' /\ tags'[j] # {}
        BY <3>1 DEF Tagged, Kept, Edges, isEdge
      <3>3. j \in reg \cap Indexes
        BY <1>1, <1>2, <2>2, <3>2, Disjoint
      <3>4. j \in Surviving
        <4>1. CASE j \in Tagged(reg', tags')
          <5>1. ~isEdge(tags'[j])
            BY <4>1 DEF Tagged
          <5>2. tags'[j] = tags[j]
            BY <1>3, <2>2, <3>2, <5>1 DEF isEdge
          <5> QED BY <3>2, <3>3, <5>1, <5>2 DEF Surviving, Tagged
        <4>2. CASE j \in Kept(reg', tags', least')
          <5>1. /\ E \subseteq Indexes /\ F \subseteq Indexes
                /\ Kept(reg, tags, least) = {k \in E : Cardinality(Above(E, k)) < least}
                /\ Kept(reg', tags', least') = {k \in F : Cardinality(Above(F, k)) < least}
            <6>1. E \subseteq Indexes /\ Kept(reg, tags, least) = {k \in E : Cardinality(Above(E, k)) < least}
              BY KeptAbove
            <6>2. F \subseteq Indexes /\ Kept(reg', tags', least') = {k \in F : Cardinality(Above(F, k)) < least'}
              BY KeptAbove
            <6> QED BY <1>1, <6>1, <6>2
          <5>2. j \in F /\ Cardinality(Above(F, j)) < least
            BY <4>2, <5>1
          <5>3. isEdge(tags'[j])
            BY <5>2 DEF Edges
          <5>4. isEdge(tags[j])
            BY <1>3, <2>2, <3>2, <5>3 DEF isEdge
          <5>5. j \in E
            BY <3>3, <5>4 DEF Edges
          <5>6. i \notin E
            BY <1>4 DEF Edges
          <5>7. i > j
            <6>1. j \in Published /\ i \notin Published /\ i \in Nat /\ j \in Nat
              BY <1>1, <3>3, Disjoint DEF Inv, Numbered, Published
            <6>2. 1 .. j - 1 \subseteq Published
              BY <6>1 DEF Inv, Numbered
            <6>3. i \notin 1 .. j - 1 /\ i >= 1
              BY <1>1, <6>1, <6>2, PruneAssumption DEF Indexes
            <6> QED BY <2>2, <6>1, <6>3
          <5>8. (E \ {of}) \cup {i} \subseteq F \/ E \subseteq F
            <6>1. \A k \in E \ {of} : k \in F
              BY <1>1, <1>3, <1>4 DEF Edges, isEdge
            <6>2. CASE kind = "release"
              <7>1. \A k \in E : "release" \notin tags[k]
                BY DEF Edges, isEdge
              <7>2. \A k \in E : k \in F
                BY <1>1, <1>3, <1>4, <6>2, <7>1 DEF Edges, isEdge
              <7> QED BY <7>2
            <6>3. CASE kind = "edge"
              <7>1. i \in F
                BY <1>1, <1>3, <6>3 DEF Edges, isEdge
              <7> QED BY <6>1, <7>1
            <6> QED BY <6>2, <6>3 DEF Kinds
          <5> HIDE DEF E, F
          <5>9. Cardinality(Above(E, j)) < least
            BY <1>1, <1>2, <5>1, <5>2, <5>5, <5>6, <5>7, <5>8, NewerKeepsLess
          <5> QED BY <5>1, <5>5, <5>9 DEF Surviving
        <4> QED BY <3>1, <4>1, <4>2
      <3>5. refs[j] \subseteq reg
        BY <2>0, <3>4 DEF Inv, SurvivorsWhole
      <3> QED BY <1>1, <1>5, <2>2, <3>2, <3>5
    <2> QED BY <2>1, <2>2
  <1> QED BY <1>6, <1>7, <1>7a, <1>8, <1>9, <1>10, <1>12, <1>13, <1>14 DEF Inv

LEMMA InitInv == Init => Inv
  <1> SUFFICES ASSUME Init PROVE Inv
    OBVIOUS
  <1>1. /\ reg = {} /\ tags = [i \in Indexes |-> {}] /\ refs = [i \in Indexes |-> {}]
        /\ builds = [b \in Kinds |-> {}] /\ loose = {} /\ least = Keep
        /\ run = Idle /\ failures = 0 /\ raced = FALSE
    BY DEF Init
  <1>2. run.pc = "idle" /\ run.plan = <<>>
    BY <1>1, IdleFacts
  <1>3. TypeOK
    <2>0. MaxFailures \in Nat
      BY PruneAssumption DEF PruneAssumption
    <2>1. failures \in 0 .. MaxFailures
      BY <1>1, <2>0
    <2>2. /\ tags \in [Indexes -> SUBSET {"edge", "sha", "release"}]
          /\ refs \in [Indexes -> SUBSET Images] /\ builds \in [Kinds -> SUBSET Images]
      BY <1>1
    <2>3. ToSet(run.plan) = {} /\ IsInjective(run.plan)
      BY <1>2, IdleFacts
    <2>4. reg = {} /\ loose = {} /\ raced \in BOOLEAN /\ least \in Nat \ {0}
      BY <1>1, PruneAssumption
    <2> QED BY <1>2, <2>1, <2>2, <2>3, <2>4 DEF TypeOK
  <1>4. RunOK
    BY <1>1, <1>2, IdleFacts DEF RunOK
  <1>5. Numbered
    BY <1>1 DEF Numbered, Published
  <1>6. Referred /\ ListedOK /\ ImagesFirst /\ BuildsApart
    BY <1>1, <1>2 DEF Referred, ListedOK, ImagesFirst, BuildsApart
  <1>7. Surviving = {}
    BY <1>1 DEF Surviving, Tagged, Kept, Edges
  <1>8. PlanDue /\ SurvivorsWhole
    BY <1>2, <1>7, IdleFacts DEF PlanDue, SurvivorsWhole
  <1> QED BY <1>3, <1>4, <1>5, <1>6, <1>8 DEF Inv

LEMMA StepKeeps == Inv /\ [Next]_vars => Inv'
  <1> SUFFICES ASSUME Inv, [Next]_vars PROVE Inv'
    OBVIOUS
  <1>1. ASSUME NEW kind \in Kinds, NEW of, PushIndex(kind, of) PROVE Inv'
    <2>1. PICK i : Takes(i, kind, of)
      BY <1>1 DEF PushIndex, Takes
    <2> QED BY <2>1, PushIndexKeeps
  <1>2. ASSUME NEW kind \in Kinds, NEW c \in Images, PushImage(kind, c) PROVE Inv'
    BY <1>2, PushImageKeeps
  <1>3. ASSUME NEW kind \in Kinds, CancelBuild(kind) PROVE Inv'
    BY <1>3, CancelKeeps
  <1>4. ASSUME NEW k \in {Keep} \cup Keeps, Start(k) PROVE Inv'
    BY <1>4, StartKeeps
  <1>5. ASSUME NEW n, NEW k \in 1 .. run.keep, ListPage(n, k) PROVE Inv'
    BY <1>5, ListPageKeeps
  <1>6. CASE Plan
    BY <1>6, PlanKeeps
  <1>7. CASE Delete
    BY <1>7, DeleteKeeps
  <1>8. CASE Fail
    BY <1>8, FailKeeps
  <1>9. CASE UNCHANGED vars
    <2>1. UNCHANGED <<reg, tags, refs, builds, run, failures, loose, least, raced>>
      BY <1>9 DEF vars
    <2>2. Numbered' /\ Referred' /\ SurvivorsWhole'
      BY <2>1, Untouched DEF Inv
    <2>3. TypeOK' /\ BuildsApart'
      BY <2>1 DEF Inv, TypeOK, BuildsApart
    <2>4. RunOK' /\ ListedOK' /\ ImagesFirst' /\ PlanDue'
      BY <2>1, RunUntouched
    <2> QED BY <2>2, <2>3, <2>4 DEF Inv
  <1> QED BY <1>1, <1>2, <1>3, <1>4, <1>5, <1>6, <1>7, <1>8, <1>9 DEF Next, Run

LEMMA Invariance == Spec => []Inv
  BY InitInv, StepKeeps, PTL DEF Spec

(* The job's state is what it should be; above all, each entry of a plan   *)
(* is in the registry and named once, so that no deletion of a run is an   *)
(* error, whatever an earlier run left undone (main.go planPrune: "known", *)
(* "seen").                                                                *)
THEOREM TypeCorrect == Spec => []TypeOK
  <1>1. Inv => TypeOK
    BY DEF Inv
  <1> QED BY <1>1, Invariance, PTL

(* As long as no build is under way during a run, what every run was to    *)
(* leave can be pulled, however many builds each was told to keep:         *)
(* planPrune takes no image that a survivor refers to, and what it takes   *)
(* does not change which builds survive.                                   *)
THEOREM SurvivorsPullable == Spec => []SurvivorsWhole
  <1>1. Inv => SurvivorsWhole
    BY DEF Inv
  <1> QED BY <1>1, Invariance, PTL

(* Wherever a run ends, and whatever is pushed or cancelled during it,     *)
(* every image that is left is referred to by an index that is left or     *)
(* came without one: planPrune puts images before their index.             *)
THEOREM NothingOrphaned == Spec => []NoOrphans
  <1>1. Inv => NoOrphans
    BY DEF Inv, Referred, NoOrphans
  <1> QED BY <1>1, Invariance, PTL

-----------------------------------------------------------------------------
(* Releases.                                                               *)

(* What is taken for an edge build carries no release tag.                 *)
LEMMA EdgeNoRelease ==
  ASSUME NEW t, isEdge(t)
  PROVE  "release" \notin t
  BY DEF isEdge

LEMMA SparedStep == Inv /\ ReleasesSpared /\ [Next]_vars => ReleasesSpared'
  <1> SUFFICES ASSUME Inv, ReleasesSpared, [Next]_vars PROVE ReleasesSpared'
    OBVIOUS
  <1>0. ToSet(run.plan) \subseteq reg
    BY DEF Inv, TypeOK
  <1>1. ASSUME NEW kind \in Kinds, NEW of, PushIndex(kind, of) PROVE ReleasesSpared'
    <2>1. PICK i : Takes(i, kind, of)
      BY <1>1 DEF PushIndex, Takes
    <2>2. TagsAfter(i, kind, of)
      BY <2>1, Retagged
    <2>3. i \notin reg /\ run' = run
      BY <2>1 DEF Takes, Inv, Numbered, Published
    <2>4. \A j \in reg \cap Indexes : "release" \in tags'[j] => "release" \in tags[j]
      BY <2>2, <2>3 DEF TagsAfter
    <2>5. run.pc \in {"listing", "listed"} => run.listed \subseteq reg
      BY DEF Inv, ListedOK, Seen
    <2>6. run.pc \in {"listing", "listed"} => \A j \in run.listed \cap Indexes :
                                 "release" \in tags'[j] => "release" \in run.tags[j]
      BY <2>4, <2>5 DEF ReleasesSpared
    <2>7. \A j \in ToSet(run.plan) \cap Indexes : "release" \notin tags'[j]
      BY <1>0, <2>4 DEF ReleasesSpared
    <2> QED BY <2>3, <2>6, <2>7 DEF ReleasesSpared
  <1>2. ASSUME NEW k \in {Keep} \cup Keeps, Start(k) PROVE ReleasesSpared'
    <2>1. run'.listed = {} /\ run'.plan = <<>>
      BY <1>2 DEF Start, Idle
    <2> QED BY <2>1, IdleFacts DEF ReleasesSpared
  <1>2a. ASSUME NEW n, NEW k \in 1 .. run.keep, ListPage(n, k) PROVE ReleasesSpared'
    <2> DEFINE page == {v \in run.due : v > n}
    <2>1. /\ run'.listed = run.listed \cup page /\ run'.plan = run.plan /\ tags' = tags
          /\ run'.tags = [i \in Indexes |-> IF i \in page THEN tags[i] ELSE run.tags[i]]
          /\ run.pc = "listing"
      BY <1>2a DEF ListPage, published, Inv, RunOK, Runs
    <2> HIDE DEF page
    <2>2. \A i \in Indexes : run'.tags[i] = IF i \in page THEN tags[i] ELSE run.tags[i]
      BY <2>1
    <2>3. \A i \in run'.listed \cap Indexes : "release" \in tags[i] => "release" \in run'.tags[i]
      BY <2>1, <2>2 DEF ReleasesSpared
    <2> QED BY <2>1, <2>3 DEF ReleasesSpared
  <1>3. ASSUME run' = Idle PROVE ReleasesSpared'
    BY <1>3, Ends DEF ReleasesSpared
  <1>4. CASE Plan
    <2> DEFINE D == Doomed(run.listed, run.tags, run.keep)
    <2>1. CASE D = {}
      BY <1>3, <1>4, <2>1 DEF Plan
    <2>2. CASE D # {}
      <3> DEFINE s == planPrune(run.listed, run.tags, run.keep)
                 A == D \cup UNION {(refs[i] \cap run.listed) \ Protected(run.listed, run.tags, run.keep) : i \in D}
      <3>1. run'.pc = "delete" /\ run'.plan = s /\ tags' = tags /\ run.pc = "listed"
        BY <1>4, <2>2 DEF Plan, Idle, published
      <3>2. refs \in [Indexes -> SUBSET Images]
        BY DEF Inv, TypeOK
      <3>3. PlanLaid(s, run.listed, run.tags, run.keep)
        BY <2>2, <3>2, PlanHolds
      <3>4. ToSet(s) = A
        BY <3>3 DEF PlanLaid, ListsOnce
      <3>5. D \subseteq run.listed \cap Indexes /\ \A i \in D : isEdge(run.tags[i])
        BY DEF Doomed, Edges
      <3> HIDE DEF s, D
      <3>6. A \cap Indexes \subseteq D
        BY <3>2, <3>5, Disjoint
      <3> HIDE DEF A
      <3>7. ASSUME NEW i \in ToSet(s) \cap Indexes PROVE "release" \notin tags[i]
        <4>1. i \in run.listed \cap Indexes /\ isEdge(run.tags[i])
          BY <3>4, <3>5, <3>6
        <4>2. "release" \notin run.tags[i]
          BY <4>1, EdgeNoRelease
        <4> QED BY <3>1, <4>1, <4>2 DEF ReleasesSpared
      <3> QED BY <3>1, <3>7 DEF ReleasesSpared
    <2> QED BY <2>1, <2>2
  <1>5. CASE Delete
    <2>1. CASE run' = Idle
      BY <1>3, <2>1
    <2>2. CASE run' # Idle
      <3>1. run' = [run EXCEPT !.plan = Tail(run.plan)] /\ tags' = tags /\ run.pc = "delete"
        BY <1>5, <2>2 DEF Delete, published
      <3>2. run.plan \in Seq(Indexes \cup Images) /\ run.plan # <<>>
        BY <3>1 DEF Inv, RunOK, Runs
      <3>3. run'.pc = "delete" /\ run'.plan = Tail(run.plan)
        BY <3>1 DEF Inv, RunOK, Runs
      <3>4. ToSet(Tail(run.plan)) \subseteq ToSet(run.plan)
        <4> DEFINE s == run.plan
                   u == Tail(s)
                   Q == Indexes \cup Images
        <4>1. s \in Seq(Q) /\ s # <<>>
          BY <3>2
        <4> HIDE DEF s, Q
        <4>2. /\ u \in Seq(Q) /\ Len(u) = Len(s) - 1 /\ Len(s) \in Nat /\ DOMAIN s = 1 .. Len(s)
              /\ \A p \in 1 .. Len(u) : u[p] = s[p + 1]
          BY <4>1, HeadTailProperties
        <4>3. DOMAIN u = 1 .. Len(u)
          BY <4>2
        <4> HIDE DEF u
        <4>4. \A p \in DOMAIN u : p + 1 \in DOMAIN s /\ u[p] = s[p + 1]
          BY <4>2, <4>3
        <4>5. ToSet(u) \subseteq ToSet(s)
          BY <4>4 DEF ToSet
        <4> QED BY <4>5 DEF u, s
      <3> QED BY <3>1, <3>3, <3>4 DEF ReleasesSpared
    <2> QED BY <2>1, <2>2
  <1>6. CASE Fail
    BY <1>3, <1>6 DEF Fail
  <1>7. ASSUME UNCHANGED <<run, tags>> PROVE ReleasesSpared'
    BY <1>7 DEF ReleasesSpared
  <1>8. ASSUME NEW kind \in Kinds, NEW c, PushImage(kind, c) \/ CancelBuild(kind) PROVE ReleasesSpared'
    BY <1>7, <1>8 DEF PushImage, CancelBuild
  <1>9. CASE UNCHANGED vars
    BY <1>7, <1>9 DEF vars
  <1> QED BY <1>1, <1>2, <1>2a, <1>4, <1>5, <1>6, <1>8, <1>9 DEF Next, Run

LEMMA ReleaseStep ==
  Inv /\ ReleasesSpared /\ [Next]_vars =>
    [\A i \in reg \cap Indexes : "release" \in tags[i] => i \in reg']_vars
  <1> SUFFICES ASSUME Inv, ReleasesSpared, Next, NEW i \in reg \cap Indexes, "release" \in tags[i]
               PROVE  i \in reg'
    OBVIOUS
  <1>1. CASE Delete
    <2>1. run.plan \in Seq(Indexes \cup Images) /\ run.plan # <<>>
      BY <1>1 DEF Inv, RunOK, Runs, Delete
    <2>2. 1 \in DOMAIN run.plan /\ Head(run.plan) = run.plan[1]
      BY <2>1
    <2>3. Head(run.plan) \in ToSet(run.plan)
      BY <2>2 DEF ToSet
    <2>4. i # Head(run.plan)
      BY <2>3 DEF ReleasesSpared
    <2> QED BY <1>1, <2>4 DEF Delete
  <1>2. ASSUME NEW kind \in Kinds, NEW x, PushImage(kind, x) \/ CancelBuild(kind) \/ PushIndex(kind, x)
        PROVE  i \in reg'
    BY <1>2 DEF PushImage, CancelBuild, PushIndex
  <1>3. ASSUME NEW n, NEW k, Start(k) \/ ListPage(n, k) \/ Plan \/ Fail PROVE i \in reg'
    BY <1>3 DEF Start, ListPage, Plan, Fail
  <1> QED BY <1>1, <1>2, <1>3 DEF Next, Run

(* A release is never deleted, whatever is pushed during a run and however *)
(* stale its list is: planPrune takes only indexes that isEdge accepts,    *)
(* and no index becomes a release after it was pushed.                     *)
THEOREM ReleasesKept == Spec => ReleasesStay
  <1>1. Init => ReleasesSpared
    <2> SUFFICES ASSUME Init PROVE ReleasesSpared
      OBVIOUS
    <2>1. run.pc = "idle" /\ ToSet(run.plan) = {}
      BY IdleFacts DEF Init
    <2> QED BY <2>1 DEF ReleasesSpared
  <1> QED BY <1>1, Invariance, SparedStep, ReleaseStep, PTL DEF Spec, ReleasesStay

-----------------------------------------------------------------------------
(* Old builds.                                                             *)

(* Of fewer builds no others are due.                                      *)
LEMMA DoomedShrinks ==
  ASSUME NEW R, NEW S, S \subseteq R, NEW t, NEW K \in Nat
  PROVE  Doomed(S, t, K) \subseteq Doomed(R, t, K) \cap S
  <1> DEFINE E == Edges(R, t)
             F == Edges(S, t)
  <1>1. /\ E \subseteq Indexes /\ F \subseteq Indexes
        /\ Kept(R, t, K) = {i \in E : Cardinality(Above(E, i)) < K}
        /\ Kept(S, t, K) = {i \in F : Cardinality(Above(F, i)) < K}
        /\ Doomed(R, t, K) = E \ Kept(R, t, K) /\ Doomed(S, t, K) = F \ Kept(S, t, K)
    BY KeptAbove
  <1>2. F \subseteq E /\ F \subseteq S
    BY DEF Edges
  <1> HIDE DEF E, F
  <1>3. ASSUME NEW i \in F, ~(Cardinality(Above(F, i)) < K)
        PROVE  ~(Cardinality(Above(E, i)) < K)
    <2>1. Above(F, i) \subseteq Above(E, i) /\ Above(E, i) \subseteq Indexes
      BY <1>1, <1>2 DEF Above
    <2>2. /\ Cardinality(Above(F, i)) \in Nat /\ Cardinality(Above(E, i)) \in Nat
          /\ Cardinality(Above(F, i)) <= Cardinality(Above(E, i))
      BY <2>1, AboveMonotonic
    <2> QED BY <1>3, <2>2
  <1>4. ASSUME NEW i \in Doomed(S, t, K) PROVE i \in Doomed(R, t, K) /\ i \in S
    <2>1. i \in F /\ ~(Cardinality(Above(F, i)) < K)
      BY <1>1
    <2>2. i \in E /\ i \in S
      BY <1>2, <2>1
    <2> QED BY <1>1, <1>3, <2>1, <2>2
  <1> QED BY <1>4

(* What is left of a plan after its next entry.                            *)
LEMMA NextEntry ==
  ASSUME NEW Q, NEW s \in Seq(Q), s # <<>>
  PROVE  /\ Head(s) \in ToSet(s) /\ ToSet(s) \subseteq {Head(s)} \cup ToSet(Tail(s))
         /\ Len(s) = 1 => ToSet(s) = {Head(s)}
  <1>1. Len(s) \in Nat \ {0} /\ DOMAIN s = 1 .. Len(s) /\ Head(s) = s[1]
    OBVIOUS
  <1>2. /\ Tail(s) \in Seq(Q) /\ Len(Tail(s)) = Len(s) - 1
        /\ \A p \in 1 .. Len(Tail(s)) : Tail(s)[p] = s[p + 1]
    BY HeadTailProperties
  <1>3. DOMAIN Tail(s) = 1 .. Len(s) - 1
    BY <1>1, <1>2
  <1> DEFINE u == Tail(s)
  <1> HIDE DEF u
  <1>4. ASSUME NEW e \in ToSet(s) PROVE e = Head(s) \/ (e \in ToSet(u) /\ Len(s) # 1)
    <2>1. PICK p \in 1 .. Len(s) : e = s[p]
      BY <1>1 DEF ToSet
    <2>2. CASE p = 1
      BY <1>1, <2>1, <2>2
    <2>3. CASE p # 1
      <3>1. PICK q \in 1 .. Len(s) - 1 : q + 1 = p
        <4>1. p - 1 \in 1 .. Len(s) - 1 /\ (p - 1) + 1 = p
          BY <1>1, <2>3
        <4> QED BY <4>1, Zenon
      <3>2. u[q] = e /\ q \in DOMAIN u /\ Len(s) # 1
        BY <1>1, <1>2, <1>3, <2>1, <3>1 DEF u
      <3> QED BY <3>2 DEF ToSet
    <2> QED BY <2>2, <2>3
  <1>5. Head(s) \in ToSet(s)
    BY <1>1 DEF ToSet
  <1> QED BY <1>4, <1>5 DEF u

(* A plan takes everything that is due, or there is nothing.               *)
LEMMA PlanTakesAll ==
  ASSUME Inv, Plan, ~raced
  PROVE  LET D == Doomed(reg, tags, run.keep)
         IN  \/ run' = Idle /\ D = {}
             \/ run'.pc = "delete" /\ run'.keep = run.keep /\ D \subseteq ToSet(run'.plan)
  <1> DEFINE D == Doomed(reg, tags, run.keep)
             s == planPrune(run.listed, run.tags, run.keep)
  <1>1. run.pc = "listed" /\ run.due = {} /\ run.listed \cup run.due = reg
    BY DEF Plan, Inv, ListedOK, Seen
  <1>2. run.listed = reg /\ \A i \in reg \cap Indexes : run.tags[i] = tags[i]
    BY <1>1 DEF Inv, ListedOK
  <1>3. Doomed(run.listed, run.tags, run.keep) = D
    BY <1>2, SameTags
  <1>4. CASE D = {}
    <2>1. run' = Idle
      BY <1>3, <1>4 DEF Plan
    <2> QED BY <1>4, <2>1
  <1>5. CASE D # {}
    <2>1. run' = [Idle EXCEPT !.pc = "delete", !.keep = run.keep, !.plan = s]
      BY <1>3, <1>5 DEF Plan
    <2>2. run'.pc = "delete" /\ run'.keep = run.keep /\ run'.plan = s
      BY <2>1 DEF Idle
    <2>3. PlanLaid(s, run.listed, run.tags, run.keep)
      BY <1>3, <1>5, PlanHolds DEF Inv, TypeOK
    <2>4. D \subseteq ToSet(s)
      BY <1>3, <2>3 DEF PlanLaid, ListsOnce
    <2> QED BY <2>2, <2>4
  <1> QED BY <1>4, <1>5

(* A deletion leaves a plan that takes everything that is due, or nothing. *)
LEMMA DeleteTakesNext ==
  ASSUME Inv, Delete, PlanComplete, ~raced
  PROVE  LET D == Doomed(reg', tags', run.keep)
         IN  \/ run' = Idle /\ D = {}
             \/ run'.pc = "delete" /\ run'.keep = run.keep /\ D \subseteq ToSet(run'.plan)
  <1> DEFINE s == run.plan
             h == Head(s)
             D == Doomed(reg \ {h}, tags, run.keep)
  <1>1. /\ run \in Runs /\ s \in Seq(Indexes \cup Images) /\ s # <<>> /\ ToSet(s) \subseteq reg
        /\ run.keep \in Nat /\ run.pc = "delete"
    BY DEF Inv, TypeOK, RunOK, Runs, Delete
  <1>2. /\ h \in ToSet(s) /\ ToSet(s) \subseteq {h} \cup ToSet(Tail(s))
        /\ Len(s) = 1 => ToSet(s) = {h}
    BY <1>1, NextEntry
  <1>3. /\ reg' = reg \ {h} /\ tags' = tags
        /\ run' = IF Len(s) = 1 THEN Idle ELSE [run EXCEPT !.plan = Tail(s)]
    BY <1>1, <1>2 DEF Delete, published
  <1>4. Doomed(reg, tags, run.keep) \subseteq ToSet(s)
    BY <1>1 DEF PlanComplete
  <1> HIDE DEF h
  <1>5. D \subseteq Doomed(reg, tags, run.keep) \cap (reg \ {h})
    BY <1>1, DoomedShrinks
  <1>6. D \subseteq ToSet(Tail(s)) /\ (Len(s) = 1 => D = {})
    BY <1>2, <1>4, <1>5
  <1>7. CASE Len(s) = 1
    BY <1>3, <1>6, <1>7
  <1>8. CASE Len(s) # 1
    <2>1. run'.pc = "delete" /\ run'.keep = run.keep /\ run'.plan = Tail(s)
      BY <1>1, <1>3, <1>8 DEF Runs
    <2> QED BY <1>3, <1>6, <2>1
  <1> QED BY <1>7, <1>8

LEMMA CompletePrimed ==
  PlanComplete' <=>
    raced' \/ run'.pc # "delete" \/ Doomed(reg', tags', run'.keep) \subseteq ToSet(run'.plan)
  BY DEF PlanComplete, Doomed, Kept, Edges, isEdge, ToSet

LEMMA CompleteStep == Inv /\ PlanComplete /\ [Next]_vars => PlanComplete'
  <1> SUFFICES ASSUME Inv, PlanComplete, [Next]_vars, ~raced'
               PROVE  run'.pc # "delete" \/ Doomed(reg', tags', run'.keep) \subseteq ToSet(run'.plan)
    BY CompletePrimed
  <1>0. run.pc \in {"idle", "listing", "listed", "delete"}
    BY DEF Inv, TypeOK
  <1>1. ASSUME run' = Idle PROVE run'.pc # "delete"
    BY <1>1, IdleFacts
  <1>2. ASSUME NEW kind \in Kinds, NEW x, PushImage(kind, x) \/ PushIndex(kind, x)
        PROVE  run'.pc # "delete"
    BY <1>2 DEF PushImage, PushIndex
  <1>3. ASSUME NEW n, NEW k, Start(k) \/ ListPage(n, k) PROVE run'.pc # "delete"
    BY <1>3 DEF Start, ListPage, Idle, Inv, RunOK, Runs
  <1>4. CASE Plan
    <2>1. ~raced /\ reg' = reg /\ tags' = tags
      BY <1>4 DEF Plan, published
    <2> QED BY <1>1, <1>4, <2>1, PlanTakesAll
  <1>5. CASE Delete
    <2>1. ~raced
      BY <1>5 DEF Delete
    <2> QED BY <1>1, <1>5, <2>1, DeleteTakesNext
  <1>6. CASE Fail
    BY <1>1, <1>6 DEF Fail
  <1>7. ASSUME UNCHANGED <<reg, tags, run, raced>>
        PROVE  run'.pc # "delete" \/ Doomed(reg', tags', run'.keep) \subseteq ToSet(run'.plan)
    BY <1>7 DEF PlanComplete
  <1>8. ASSUME NEW kind \in Kinds, CancelBuild(kind)
        PROVE  run'.pc # "delete" \/ Doomed(reg', tags', run'.keep) \subseteq ToSet(run'.plan)
    BY <1>7, <1>8 DEF CancelBuild
  <1>9. CASE UNCHANGED vars
    BY <1>7, <1>9 DEF vars
  <1> QED BY <1>2, <1>3, <1>4, <1>5, <1>6, <1>8, <1>9 DEF Next, Run

LEMMA RemovedStep ==
  Inv /\ PlanComplete /\ [Next]_vars =>
    [run.pc \in {"listed", "delete"} /\ run'.pc = "idle" /\ failures' = failures
       => raced \/ Doomed(reg', tags', run.keep) = {}]_vars
  <1> SUFFICES ASSUME Inv, PlanComplete, Next, run.pc \in {"listed", "delete"}, run'.pc = "idle",
                      failures' = failures, ~raced
               PROVE  Doomed(reg', tags', run.keep) = {}
    OBVIOUS
  <1>1. CASE Plan
    <2>1. reg' = reg /\ tags' = tags
      BY <1>1 DEF Plan, published
    <2> QED BY <1>1, <2>1, PlanTakesAll
  <1>2. CASE Delete
    BY <1>2, DeleteTakesNext
  <1>3. ASSUME NEW kind \in Kinds, NEW x, PushImage(kind, x) \/ CancelBuild(kind) \/ PushIndex(kind, x)
        PROVE  FALSE
    BY <1>3 DEF PushImage, CancelBuild, PushIndex
  <1>4. ASSUME NEW n, NEW k, Start(k) \/ ListPage(n, k) PROVE FALSE
    BY <1>4 DEF Start, ListPage
  <1>5. CASE Fail
    <2>1. failures \in Nat
      BY PruneAssumption DEF Inv, TypeOK
    <2> QED BY <1>5, <2>1 DEF Fail
  <1> QED BY <1>1, <1>2, <1>3, <1>4, <1>5 DEF Next, Run

(* A run that ends by itself leaves no edge build that it was to delete,   *)
(* whatever earlier runs left undone, as long as no build was under way    *)
(* during a run: the plan holds all that is due, and deleting an entry     *)
(* makes nothing else due.                                                 *)
THEOREM OldBuildsRemoved == Spec => OldRemoved
  <1>1. Init => PlanComplete
    <2> SUFFICES ASSUME Init PROVE PlanComplete
      OBVIOUS
    <2>1. run.pc # "delete"
      BY IdleFacts DEF Init
    <2> QED BY <2>1 DEF PlanComplete
  <1> QED BY <1>1, Invariance, CompleteStep, RemovedStep, PTL DEF Spec, OldRemoved

=============================================================================
