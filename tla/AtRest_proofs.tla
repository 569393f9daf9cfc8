---------------------------- MODULE AtRest_proofs ----------------------------
(***************************************************************************)
(* The table of wrapped keys stays readable through rotations that are     *)
(* completed, refused or killed, a reader delivers the bytes that were     *)
(* written, and no unit of key stream is used twice, for any number of     *)
(* uploads, keys and rotations, any counter width and any block size.  The *)
(* inductive invariants are Inv and StreamInv; what the recursive          *)
(* functions of KeyStream compute is proved by induction over a set.       *)
(***************************************************************************)
EXTENDS AtRest, SequenceTheorems, WellFoundedInduction, TLAPS

-----------------------------------------------------------------------------
(* Induction over the naturals, for a set that the provers can be given.   *)
LEMMA Induction ==
  ASSUME NEW S, 0 \in S, \A n \in Nat : n \in S => n + 1 \in S
  PROVE  \A n \in Nat : n \in S
  <1> DEFINE T == Nat \ S
             R == OpToRel(<, Nat)
  <1> SUFFICES ASSUME T # {} PROVE FALSE
    OBVIOUS
  <1>1. IsWellFoundedOn(R, Nat)
    BY NatLessThanWellFounded
  <1>2. T \subseteq Nat
    OBVIOUS
  <1> HIDE DEF T, R
  <1>3. PICK x \in T : \A y \in T : ~(<<y, x>> \in R)
    BY <1>1, <1>2, WFMin
  <1>4. \A y \in T : ~(y < x)
    BY <1>2, <1>3 DEF R, OpToRel
  <1>5. x \in Nat /\ x \notin S /\ x # 0
    BY DEF T
  <1>6. x - 1 \in Nat /\ x - 1 < x /\ (x - 1) + 1 = x
    BY <1>5
  <1>7. x - 1 \in T
    BY <1>5, <1>6 DEF T
  <1> QED BY <1>4, <1>6, <1>7

-----------------------------------------------------------------------------
(* Counters as numbers.                                                    *)

LEMMA Sizes ==
  /\ Octet \in Nat /\ Octet >= 2 /\ Octets \in Nat /\ Octets >= 1
  /\ BlockSize \in Nat /\ BlockSize >= 1
  BY CounterAssumption DEF CounterAssumption

LEMMA PowerType ==
  /\ \A i \in 0 .. Octets : Octet^i \in Nat /\ Octet^i >= 1
  /\ \A i \in 1 .. Octets : Octet^i = Octet * Octet^(i - 1)
  <1>1. \A i \in 1 .. Octets : Octet^i = Octet * Octet^(i - 1)
    <2> TAKE i \in 1 .. Octets
    <2>1. i - 1 \in 0 .. Octets - 1 /\ (i - 1) + 1 = i
      BY Sizes
    <2> QED BY <2>1, PowerAssumption DEF PowerAssumption
  <1> DEFINE S == {i \in Nat : i <= Octets => Octet^i \in Nat /\ Octet^i >= 1}
  <1>2. 0 \in S
    BY PowerAssumption DEF PowerAssumption
  <1>3. ASSUME NEW n \in Nat, n \in S PROVE n + 1 \in S
    <2> SUFFICES ASSUME n + 1 <= Octets PROVE Octet^(n + 1) \in Nat /\ Octet^(n + 1) >= 1
      OBVIOUS
    <2>1. n + 1 \in 1 .. Octets /\ (n + 1) - 1 = n /\ n <= Octets
      BY Sizes
    <2>2. PICK p \in Nat : p = Octet^n /\ p >= 1
      BY <1>3, <2>1
    <2>3. Octet^(n + 1) = Octet * p
      BY <1>1, <2>1, <2>2
    <2>4. Octet * p \in Nat /\ Octet * p >= 1
      BY <2>2, Sizes
    <2> QED BY <2>3, <2>4
  <1> HIDE DEF S
  <1>4. \A n \in Nat : n \in S
    BY <1>2, <1>3, Induction
  <1>5. \A i \in 0 .. Octets : Octet^i \in Nat /\ Octet^i >= 1
    BY <1>4, Sizes DEF S
  <1> QED BY <1>1, <1>5

(* A recursion over the first naturals has a solution.                     *)
Steps(n, A)       == [1 .. n -> [A -> A]]
Solved(n, A, x, F) == \E g \in [0 .. n -> A] : g[0] = x /\ \A i \in 1 .. n : g[i] = F[i][g[i - 1]]

LEMMA Recursion ==
  ASSUME NEW n \in Nat, NEW A, NEW x \in A, NEW F \in Steps(n, A)
  PROVE  Solved(n, A, x, F)
  <1> USE DEF Steps
  <1> DEFINE S == {k \in Nat : k <= n => \E g \in [0 .. k -> A] :
                     g[0] = x /\ \A i \in 1 .. k : g[i] = F[i][g[i - 1]]}
  <1>1. 0 \in S
    <2> DEFINE g == [i \in 0 .. 0 |-> x]
    <2>1. g \in [0 .. 0 -> A] /\ g[0] = x /\ \A i \in 1 .. 0 : g[i] = F[i][g[i - 1]]
      OBVIOUS
    <2> QED BY <2>1
  <1>2. ASSUME NEW k \in Nat, k \in S PROVE k + 1 \in S
    <2> SUFFICES ASSUME k + 1 <= n
                 PROVE  \E g \in [0 .. k + 1 -> A] :
                          g[0] = x /\ \A i \in 1 .. k + 1 : g[i] = F[i][g[i - 1]]
      OBVIOUS
    <2>1. PICK g \in [0 .. k -> A] : g[0] = x /\ \A i \in 1 .. k : g[i] = F[i][g[i - 1]]
      BY <1>2
    <2> DEFINE h == [i \in 0 .. k + 1 |-> IF i = k + 1 THEN F[k + 1][g[k]] ELSE g[i]]
    <2>2. \A i \in 0 .. k : h[i] = g[i]
      OBVIOUS
    <2>3. h[k + 1] = F[k + 1][g[k]] /\ F[k + 1][g[k]] \in A /\ (k + 1) - 1 = k
      OBVIOUS
    <2>4. h \in [0 .. k + 1 -> A]
      BY <2>3
    <2> HIDE DEF h
    <2>5. ASSUME NEW i \in 1 .. k + 1 PROVE h[i] = F[i][h[i - 1]]
      <3>1. CASE i = k + 1
        BY <2>2, <2>3, <3>1
      <3>2. CASE i \in 1 .. k
        <4>1. i - 1 \in 0 .. k /\ i \in 0 .. k
          BY <3>2
        <4> QED BY <2>1, <2>2, <3>2, <4>1
      <3> QED BY <3>1, <3>2
    <2>6. h[0] = x
      BY <2>1, <2>2
    <2> QED BY <2>4, <2>5, <2>6
  <1> HIDE DEF S
  <1>3. n \in S
    BY <1>1, <1>2, Induction
  <1> QED BY <1>3 DEF S, Solved

(* The recursion that defines Low.                                         *)
LEMMA LowDef ==
  ASSUME NEW c \in Counter
  PROVE  /\ Low(c)[0] = 0
         /\ \A i \in 1 .. Octets :
              Low(c)[i] = Low(c)[i - 1] + c[Octets + 1 - i] * Octet^(i - 1)
  <1> DEFINE d == [i \in 1 .. Octets |-> c[Octets + 1 - i] * Octet^(i - 1)]
             F == [i \in 1 .. Octets |-> [y \in Nat |-> y + d[i]]]
  <1>1. \A i \in 1 .. Octets : d[i] \in Nat
    <2> TAKE i \in 1 .. Octets
    <2>1. c[Octets + 1 - i] \in Nat /\ Octet^(i - 1) \in Nat
      BY Sizes, PowerType DEF Counter
    <2>2. \A a, b \in Nat : a * b \in Nat
      OBVIOUS
    <2> QED BY <2>1, <2>2
  <1> HIDE DEF d
  <1>2. F \in [1 .. Octets -> [Nat -> Nat]]
    BY <1>1
  <1> HIDE DEF F
  <1>3. PICK g \in [0 .. Octets -> Nat] : g[0] = 0 /\ \A i \in 1 .. Octets : g[i] = F[i][g[i - 1]]
    <2>1. F \in Steps(Octets, Nat) /\ Octets \in Nat /\ 0 \in Nat
      BY <1>2, Sizes DEF Steps
    <2>2. Solved(Octets, Nat, 0, F)
      BY <2>1, Recursion
    <2> QED BY <2>2 DEF Solved
  <1>4. \A i \in 1 .. Octets : g[i] = g[i - 1] + d[i]
    <2> TAKE i \in 1 .. Octets
    <2>1. g[i - 1] \in Nat
      BY Sizes
    <2> QED BY <1>3, <2>1 DEF F
  <1>5. g = [i \in 0 .. Octets |-> IF i = 0 THEN 0 ELSE g[i - 1] + c[Octets + 1 - i] * Octet^(i - 1)]
    <2>1. \A i \in 0 .. Octets : g[i] = IF i = 0 THEN 0 ELSE g[i - 1] + d[i]
      BY <1>3, <1>4, Sizes
    <2>2. \A i \in 0 .. Octets : i # 0 => d[i] = c[Octets + 1 - i] * Octet^(i - 1)
      BY DEF d
    <2>3. g = [i \in 0 .. Octets |-> g[i]]
      OBVIOUS
    <2> QED BY <2>1, <2>2, <2>3
  <1>6. PICK h : h = Low(c) /\ h = [i \in 0 .. Octets |-> IF i = 0 THEN 0
                     ELSE h[i - 1] + c[Octets + 1 - i] * Octet^(i - 1)]
    BY <1>5 DEF Low
  <1>7. \A i \in 0 .. Octets : h[i] = IF i = 0 THEN 0
                     ELSE h[i - 1] + c[Octets + 1 - i] * Octet^(i - 1)
    BY <1>6
  <1>8. h[0] = 0
    BY <1>7, Sizes
  <1>9. \A i \in 1 .. Octets : h[i] = h[i - 1] + c[Octets + 1 - i] * Octet^(i - 1)
    BY <1>7
  <1> QED BY <1>6, <1>8, <1>9, Zenon

LEMMA DigitBelow ==
  ASSUME NEW p \in Nat, NEW x \in Nat, NEW a \in Nat, NEW b \in Nat, x < p, a < b
  PROVE  x + a * p \in Nat /\ x + a * p < b * p
  <1>1. PICK j \in Nat : b = a + 1 + j
    BY SMT
  <1>2. b * p = a * p + p + j * p /\ a * p \in Nat /\ j * p \in Nat
    BY <1>1
  <1> QED BY <1>2

(* What the last i octets say.                                             *)
LEMMA LowBound ==
  ASSUME NEW c \in Counter
  PROVE  \A i \in 0 .. Octets : Low(c)[i] \in Nat /\ Low(c)[i] < Octet^i
  <1> DEFINE S == {i \in Nat : i <= Octets => Low(c)[i] \in Nat /\ Low(c)[i] < Octet^i}
  <1>1. 0 \in S
    BY LowDef, PowerAssumption DEF PowerAssumption
  <1>2. ASSUME NEW n \in Nat, n \in S PROVE n + 1 \in S
    <2> SUFFICES ASSUME n + 1 <= Octets
                 PROVE  Low(c)[n + 1] \in Nat /\ Low(c)[n + 1] < Octet^(n + 1)
      OBVIOUS
    <2>1. n + 1 \in 1 .. Octets /\ (n + 1) - 1 = n /\ n \in 0 .. Octets /\ Octets + 1 - (n + 1) \in 1 .. Octets
      BY Sizes
    <2>2. PICK p \in Nat : p = Octet^n
      BY <2>1, PowerType
    <2>3. PICK x \in Nat : x = Low(c)[n] /\ x < p
      BY <1>2, <2>1, <2>2
    <2>4. PICK a \in Nat : a = c[Octets + 1 - (n + 1)] /\ a < Octet
      BY <2>1, Sizes DEF Counter
    <2>5. Octet^(n + 1) = Octet * p
      BY <2>1, <2>2, PowerType
    <2>6. Low(c)[n + 1] = x + a * p
      BY <2>1, <2>2, <2>3, <2>4, LowDef
    <2>7. x + a * p \in Nat /\ x + a * p < Octet * p
      BY <2>3, <2>4, DigitBelow, Sizes
    <2> QED BY <2>5, <2>6, <2>7
  <1> HIDE DEF S
  <1>3. \A n \in Nat : n \in S
    BY <1>1, <1>2, Induction
  <1> QED BY <1>3, Sizes DEF S

(* A counter whose octets differ by what each carries into the next.       *)
LEMMA Carried ==
  ASSUME NEW c \in Counter, NEW r \in Counter, NEW K \in [0 .. Octets -> Nat],
         \A i \in 1 .. Octets :
           r[Octets + 1 - i] + K[i] * Octet = c[Octets + 1 - i] + K[i - 1]
  PROVE  Value(r) + K[Octets] * Octet^Octets = Value(c) + K[0]
  <1> DEFINE S == {i \in Nat : i <= Octets => Low(r)[i] + K[i] * Octet^i = Low(c)[i] + K[0]}
  <1>1. 0 \in S
    <2>1. K[0] \in Nat /\ K[0] * 1 = K[0] /\ Octet^0 = 1 /\ Low(c)[0] = 0 /\ Low(r)[0] = 0
      BY LowDef, PowerAssumption, Sizes DEF PowerAssumption
    <2> QED BY <2>1
  <1>2. ASSUME NEW n \in Nat, n \in S PROVE n + 1 \in S
    <2> SUFFICES ASSUME n + 1 <= Octets
                 PROVE  Low(r)[n + 1] + K[n + 1] * Octet^(n + 1) = Low(c)[n + 1] + K[0]
      OBVIOUS
    <2>1. n + 1 \in 1 .. Octets /\ (n + 1) - 1 = n /\ n \in 0 .. Octets
          /\ n + 1 \in 0 .. Octets /\ 0 \in 0 .. Octets
      BY Sizes
    <2>2. PICK j : j = Octets + 1 - (n + 1) /\ j \in 1 .. Octets
      BY <2>1, Sizes
    <2>3. PICK p \in Nat : p = Octet^n
      BY <2>1, PowerType
    <2>4. PICK x \in Nat, y \in Nat : x = Low(r)[n] /\ y = Low(c)[n]
      BY <2>1, LowBound
    <2>5. PICK a \in Nat, d \in Nat : a = r[j] /\ d = c[j]
      <3>1. r[j] \in 0 .. Octet - 1 /\ c[j] \in 0 .. Octet - 1
        BY <2>2 DEF Counter
      <3>2. r[j] \in Nat /\ c[j] \in Nat
        BY <3>1, Sizes
      <3> QED BY <3>2
    <2>6. PICK k \in Nat, l \in Nat, m \in Nat : k = K[n] /\ l = K[n + 1] /\ m = K[0]
      BY <2>1
    <2>7. a + l * Octet = d + k
      BY <2>1, <2>2, <2>5, <2>6
    <2>8. x + k * p = y + m
      BY <1>2, <2>1, <2>3, <2>4, <2>6
    <2>9. /\ Low(r)[n + 1] = x + a * p /\ Low(c)[n + 1] = y + d * p
          /\ Octet^(n + 1) = Octet * p
      BY <2>1, <2>2, <2>3, <2>4, <2>5, LowDef, PowerType
    <2>10. l * (Octet * p) = (l * Octet) * p
      BY Sizes
    <2>11. a * p + (l * Octet) * p = d * p + k * p
      <3>1. PICK e \in Nat : e = l * Octet
        BY Sizes
      <3>2. (a + e) * p = a * p + e * p /\ (d + k) * p = d * p + k * p
        OBVIOUS
      <3> QED BY <2>7, <3>1, <3>2
    <2>12. a * p \in Nat /\ d * p \in Nat /\ k * p \in Nat /\ (l * Octet) * p \in Nat
      <3>1. \A u, v \in Nat : u * v \in Nat
        OBVIOUS
      <3>2. l * Octet \in Nat
        BY <3>1, Sizes
      <3> QED BY <3>1, <3>2
    <2>13. (x + a * p) + (l * Octet) * p = (y + d * p) + m
      <3>1. PICK e \in Nat, f \in Nat, g \in Nat, h \in Nat :
              e = a * p /\ f = (l * Octet) * p /\ g = d * p /\ h = k * p
        BY <2>12, Zenon
      <3>2. x + h = y + m /\ e + f = g + h
        BY <2>8, <2>11, <3>1, Zenon
      <3>3. (x + e) + f = (y + g) + m
        BY <3>2
      <3> QED BY <3>1, <3>3, Zenon
    <2>14. K[n + 1] * Octet^(n + 1) = (l * Octet) * p
      BY <2>6, <2>9, <2>10
    <2> QED BY <2>6, <2>9, <2>13, <2>14
  <1> HIDE DEF S
  <1>3. Octets \in S
    BY <1>1, <1>2, Induction, Sizes
  <1> QED BY <1>3, Sizes DEF S, Value

LEMMA DigitsApart ==
  ASSUME NEW p \in Nat, NEW x \in Nat, NEW y \in Nat, NEW a \in Nat, NEW b \in Nat,
         x < p, y < p, x + a * p = y + b * p
  PROVE  a = b /\ x = y
  <1>1. ASSUME NEW v \in Nat, NEW w \in Nat, NEW e \in Nat, NEW f \in Nat, v < p, w < p,
               v + e * p = w + f * p, e < f
        PROVE  FALSE
    <2>1. v + e * p < f * p
      BY <1>1, DigitBelow
    <2>2. f * p \in Nat
      OBVIOUS
    <2> QED BY <1>1, <2>1, <2>2
  <1>2. ~(a < b)
    BY <1>1
  <1>3. ~(b < a)
    BY <1>1
  <1>4. a = b
    BY <1>2, <1>3
  <1>5. a * p \in Nat
    OBVIOUS
  <1> QED BY <1>4, <1>5

LEMMA ModIs ==
  ASSUME NEW m \in Nat, NEW x \in Nat, NEW k \in Nat, NEW y \in Nat, x < m, x + k * m = y
  PROVE  x = y % m
  <1>1. y % m \in Nat /\ y % m < m /\ y \div m \in Nat /\ y = (y % m) + (y \div m) * m
    BY SMT
  <1> QED BY <1>1, DigitsApart

(* Different counters are different numbers.                               *)
LEMMA ValueInjective ==
  ASSUME NEW c \in Counter, NEW d \in Counter, Value(c) = Value(d)
  PROVE  c = d
  <1> DEFINE S == {i \in Nat : i <= Octets /\ Low(c)[i] = Low(d)[i] =>
                     \A j \in 1 .. i : c[Octets + 1 - j] = d[Octets + 1 - j]}
  <1>1. 0 \in S
    OBVIOUS
  <1>2. ASSUME NEW n \in Nat, n \in S PROVE n + 1 \in S
    <2> SUFFICES ASSUME n + 1 <= Octets, Low(c)[n + 1] = Low(d)[n + 1]
                 PROVE  \A j \in 1 .. n + 1 : c[Octets + 1 - j] = d[Octets + 1 - j]
      OBVIOUS
    <2>1. n + 1 \in 1 .. Octets /\ (n + 1) - 1 = n /\ n \in 0 .. Octets
      BY Sizes
    <2>2. PICK k : k = Octets + 1 - (n + 1) /\ k \in 1 .. Octets
      BY <2>1, Sizes
    <2>3. PICK p \in Nat : p = Octet^n
      BY <2>1, PowerType
    <2>4. PICK x \in Nat, y \in Nat : x = Low(c)[n] /\ y = Low(d)[n] /\ x < p /\ y < p
      BY <2>1, <2>3, LowBound
    <2>5. PICK a \in Nat, b \in Nat : a = c[k] /\ b = d[k]
      <3>1. c[k] \in 0 .. Octet - 1 /\ d[k] \in 0 .. Octet - 1
        BY <2>2 DEF Counter
      <3>2. c[k] \in Nat /\ d[k] \in Nat
        BY <3>1, Sizes
      <3> QED BY <3>2
    <2>6. Low(c)[n + 1] = x + a * p /\ Low(d)[n + 1] = y + b * p
      BY <2>1, <2>2, <2>3, <2>4, <2>5, LowDef
    <2>7. a = b /\ x = y
      BY <2>4, <2>6, DigitsApart
    <2>8. \A j \in 1 .. n : c[Octets + 1 - j] = d[Octets + 1 - j]
      <3>1. n <= Octets /\ Low(c)[n] = Low(d)[n]
        BY <2>1, <2>4, <2>7
      <3> QED BY <1>2, <3>1
    <2>9. ASSUME NEW j \in 1 .. n + 1 PROVE c[Octets + 1 - j] = d[Octets + 1 - j]
      <3>1. CASE j = n + 1
        BY <2>2, <2>5, <2>7, <3>1
      <3>2. CASE j \in 1 .. n
        BY <2>8, <3>2
      <3> QED BY <3>1, <3>2
    <2> QED BY <2>9
  <1> HIDE DEF S
  <1>3. Octets \in S
    BY <1>1, <1>2, Induction, Sizes
  <1>4. \A j \in 1 .. Octets : c[Octets + 1 - j] = d[Octets + 1 - j]
    BY <1>3, Sizes DEF S, Value
  <1>5. \A i \in 1 .. Octets : c[i] = d[i]
    <2> TAKE i \in 1 .. Octets
    <2>1. Octets + 1 - i \in 1 .. Octets /\ Octets + 1 - (Octets + 1 - i) = i
      BY Sizes
    <2> QED BY <1>4, <2>1
  <1>6. c = [i \in 1 .. Octets |-> c[i]] /\ d = [i \in 1 .. Octets |-> d[i]]
    BY DEF Counter
  <1> QED BY <1>5, <1>6

LEMMA ValueBound ==
  ASSUME NEW c \in Counter
  PROVE  Value(c) \in Nat /\ Octet^Octets \in Nat /\ Octet^Octets >= 1 /\ Value(c) < Octet^Octets
  BY LowBound, PowerType, Sizes DEF Value

(* The cipher's step adds one, up to the wrap of the whole counter.        *)
LEMMA NextBlockAdds ==
  ASSUME NEW c \in Counter
  PROVE  NextBlock(c) \in Counter /\ Value(NextBlock(c)) = (Value(c) + 1) % Octet^Octets
  <1> DEFINE r == NextBlock(c)
             K == [i \in 0 .. Octets |->
                     IF \A j \in Octets + 1 - i .. Octets : c[j] = Octet - 1 THEN 1 ELSE 0]
  <1>1. \A i \in 1 .. Octets : c[i] \in Nat /\ c[i] < Octet
    BY Sizes DEF Counter
  <1>2. r \in Counter
    <2>1. \A i \in 1 .. Octets : (c[i] + 1) % Octet \in 0 .. Octet - 1 /\ c[i] \in 0 .. Octet - 1
      BY <1>1, Sizes
    <2> QED BY <2>1 DEF Counter, NextBlock
  <1>3. K \in [0 .. Octets -> Nat]
    OBVIOUS
  <1>4. K[0] = 1
    BY Sizes
  <1>5. ASSUME NEW i \in 1 .. Octets
        PROVE  r[Octets + 1 - i] + K[i] * Octet = c[Octets + 1 - i] + K[i - 1]
    <2>1. PICK j \in 1 .. Octets : j = Octets + 1 - i
      BY Sizes
    <2>2. Octets + 1 - (i - 1) = j + 1
      BY <2>1, Sizes
    <2>3. r[j] = IF \A l \in j + 1 .. Octets : c[l] = Octet - 1 THEN (c[j] + 1) % Octet ELSE c[j]
      BY DEF NextBlock
    <2>4. K[i - 1] = IF \A l \in j + 1 .. Octets : c[l] = Octet - 1 THEN 1 ELSE 0
      BY <2>2, Sizes
    <2>5. K[i] = IF \A l \in j .. Octets : c[l] = Octet - 1 THEN 1 ELSE 0
      BY <2>1, Sizes
    <2>6. (\A l \in j .. Octets : c[l] = Octet - 1)
            <=> c[j] = Octet - 1 /\ \A l \in j + 1 .. Octets : c[l] = Octet - 1
      BY Sizes
    <2> HIDE DEF r, K
    <2>7. CASE ~ \A l \in j + 1 .. Octets : c[l] = Octet - 1
      <3>1. r[j] = c[j] /\ K[i - 1] = 0 /\ K[i] = 0
        BY <2>3, <2>4, <2>5, <2>6, <2>7
      <3> QED BY <1>1, <2>1, <3>1, Sizes
    <2>8. CASE (\A l \in j + 1 .. Octets : c[l] = Octet - 1) /\ c[j] = Octet - 1
      <3>1. r[j] = (c[j] + 1) % Octet /\ K[i - 1] = 1 /\ K[i] = 1
        BY <2>3, <2>4, <2>5, <2>6, <2>8
      <3>2. (c[j] + 1) % Octet = 0
        BY <2>8, Sizes
      <3> QED BY <1>1, <2>1, <2>8, <3>1, <3>2, Sizes
    <2>9. CASE (\A l \in j + 1 .. Octets : c[l] = Octet - 1) /\ c[j] # Octet - 1
      <3>1. r[j] = (c[j] + 1) % Octet /\ K[i - 1] = 1 /\ K[i] = 0
        BY <2>3, <2>4, <2>5, <2>6, <2>9
      <3>2. (c[j] + 1) % Octet = c[j] + 1
        BY <1>1, <2>9, Sizes
      <3> QED BY <1>1, <2>1, <3>1, <3>2, Sizes
    <2> QED BY <2>7, <2>8, <2>9
  <1> HIDE DEF r, K
  <1>6. Value(r) + K[Octets] * Octet^Octets = Value(c) + 1
    BY <1>2, <1>3, <1>4, <1>5, Carried
  <1>7. K[Octets] \in Nat
    BY <1>3, Sizes
  <1>8. Value(r) = (Value(c) + 1) % Octet^Octets
    <2>1. PICK m \in Nat, x \in Nat, y \in Nat, k \in Nat :
            m = Octet^Octets /\ x = Value(r) /\ y = Value(c) /\ k = K[Octets] /\ x < m
      BY <1>2, <1>7, ValueBound
    <2>2. x + k * m = y + 1 /\ y + 1 \in Nat
      BY <1>6, <2>1
    <2>3. x = (y + 1) % m
      BY <2>1, <2>2, ModIs
    <2> QED BY <2>1, <2>3
  <1> QED BY <1>2, <1>8 DEF r

(* An octet takes the low octet of the carry.                              *)
LEMMA OctetAdds ==
  ASSUME NEW a \in Nat, NEW y \in Nat, NEW b \in Nat, b >= 1
  PROVE  /\ y % b \in Nat /\ a + (y % b) \in Nat /\ (a + (y % b)) % b \in 0 .. b - 1
         /\ (y \div b) + ((a + (y % b)) \div b) \in Nat
         /\ ((a + (y % b)) % b) + ((y \div b) + ((a + (y % b)) \div b)) * b = a + y
  <1>1. /\ y % b \in Nat /\ y \div b \in Nat /\ y = (y \div b) * b + (y % b)
    OBVIOUS
  <1>2. PICK s \in Nat : s = a + (y % b)
    BY <1>1
  <1>3. s % b \in 0 .. b - 1 /\ s \div b \in Nat /\ s = (s \div b) * b + (s % b)
    OBVIOUS
  <1>4. PICK q \in Nat, t \in Nat : q = y \div b /\ t = s \div b
    BY <1>1, <1>3
  <1>5. (q + t) * b = q * b + t * b /\ q * b \in Nat /\ t * b \in Nat
    OBVIOUS
  <1>6. (s % b) + (q + t) * b = a + y
    BY <1>1, <1>2, <1>3, <1>4, <1>5
  <1> QED BY <1>1, <1>2, <1>3, <1>4, <1>6

Carrying == [counter : Counter, carry : Nat]

(* One octet of incrementCounter, the i-th from the end.                   *)
Carry(i, y) ==
  LET at == Octets + 1 - i
      sum == y.counter[at] + (y.carry % Octet)
  IN [counter |-> [y.counter EXCEPT ![at] = sum % Octet],
      carry   |-> (y.carry \div Octet) + (sum \div Octet)]

LEMMA CarryStep ==
  ASSUME NEW i \in 1 .. Octets, NEW y \in Carrying
  PROVE  LET at == Octets + 1 - i
             z  == Carry(i, y)
         IN /\ at \in 1 .. Octets /\ z \in Carrying
            /\ z.counter[at] + z.carry * Octet = y.counter[at] + y.carry
            /\ \A j \in 1 .. Octets : j # at => z.counter[j] = y.counter[j]
  <1>1. PICK at \in 1 .. Octets : at = Octets + 1 - i
    BY Sizes
  <1>2. y.counter \in Counter /\ y.carry \in Nat
    BY DEF Carrying
  <1>3. y.counter[at] \in 0 .. Octet - 1
    BY <1>2 DEF Counter
  <1>4. PICK a \in Nat : a = y.counter[at]
    BY <1>3, Sizes
  <1>5. PICK u : u = (a + (y.carry % Octet)) % Octet
    OBVIOUS
  <1>6. PICK v : v = (y.carry \div Octet) + ((a + (y.carry % Octet)) \div Octet)
    OBVIOUS
  <1>7. u \in 0 .. Octet - 1 /\ v \in Nat /\ u + v * Octet = a + y.carry
    <2>1. PICK w \in Nat : w = y.carry
      BY <1>2
    <2>2. /\ (a + (w % Octet)) % Octet \in 0 .. Octet - 1
          /\ (w \div Octet) + ((a + (w % Octet)) \div Octet) \in Nat
          /\ ((a + (w % Octet)) % Octet) + ((w \div Octet) + ((a + (w % Octet)) \div Octet)) * Octet = a + w
      <3>1. Octet \in Nat /\ Octet >= 1
        BY Sizes
      <3> QED BY <3>1, OctetAdds, Zenon
    <2> QED BY <1>5, <1>6, <2>1, <2>2, Zenon
  <1>8. Carry(i, y) = [counter |-> [y.counter EXCEPT ![at] = u], carry |-> v]
    BY <1>1, <1>4, <1>5, <1>6 DEF Carry
  <1>9. [y.counter EXCEPT ![at] = u] \in Counter /\ [y.counter EXCEPT ![at] = u][at] = u
        /\ \A j \in 1 .. Octets : j # at => [y.counter EXCEPT ![at] = u][j] = y.counter[j]
    BY <1>2, <1>7 DEF Counter
  <1>10. Carry(i, y) \in Carrying /\ Carry(i, y).counter = [y.counter EXCEPT ![at] = u]
         /\ Carry(i, y).carry = v
    BY <1>7, <1>8, <1>9 DEF Carrying
  <1> QED BY <1>1, <1>4, <1>7, <1>9, <1>10

LEMMA IncrementDef ==
  ASSUME NEW c \in Counter, NEW n \in Nat
  PROVE  \E h : /\ incrementCounter(c, n) = h[Octets].counter
                /\ h[0] = [counter |-> c, carry |-> n]
                /\ \A i \in 1 .. Octets : h[i] = Carry(i, h[i - 1])
  <1> DEFINE F == [i \in 1 .. Octets |-> [y \in Carrying |-> Carry(i, y)]]
             x == [counter |-> c, carry |-> n]
  <1>1. F \in Steps(Octets, Carrying)
    BY CarryStep DEF Steps
  <1>2. x \in Carrying
    BY DEF Carrying
  <1> HIDE DEF x
  <1>3. PICK g \in [0 .. Octets -> Carrying] :
          g[0] = x /\ \A i \in 1 .. Octets : g[i] = F[i][g[i - 1]]
    <2>1. Solved(Octets, Carrying, x, F)
      <3> HIDE DEF F
      <3> QED BY <1>1, <1>2, Recursion, Sizes
    <2> QED BY <2>1 DEF Solved
  <1>4. \A i \in 1 .. Octets : g[i] = Carry(i, g[i - 1])
    <2> TAKE i \in 1 .. Octets
    <2>1. g[i - 1] \in Carrying
      BY Sizes
    <2> QED BY <1>3, <2>1
  <1>5. \A i \in 0 .. Octets : g[i] = IF i = 0 THEN x ELSE Carry(i, g[i - 1])
    BY <1>3, <1>4, Sizes
  <1>6. g = [i \in 0 .. Octets |-> IF i = 0 THEN x ELSE Carry(i, g[i - 1])]
    <2>1. g = [i \in 0 .. Octets |-> g[i]]
      OBVIOUS
    <2> QED BY <1>5, <2>1
  <1>7. incrementCounter(c, n) =
          (CHOOSE f : f = [i \in 0 .. Octets |-> IF i = 0 THEN x ELSE Carry(i, f[i - 1])])[Octets].counter
    BY DEF incrementCounter, Carry, x
  <1>8. PICK h : /\ h = [i \in 0 .. Octets |-> IF i = 0 THEN x ELSE Carry(i, h[i - 1])]
                 /\ incrementCounter(c, n) = h[Octets].counter
    BY <1>6, <1>7
  <1>9. \A i \in 0 .. Octets : h[i] = IF i = 0 THEN x ELSE Carry(i, h[i - 1])
    BY <1>8
  <1>10. h[0] = x /\ \A i \in 1 .. Octets : h[i] = Carry(i, h[i - 1])
    BY <1>9, Sizes
  <1> QED BY <1>8, <1>10 DEF x

(* incrementCounter adds n, up to the wrap of the whole counter.           *)
LEMMA IncrementAdds ==
  ASSUME NEW c \in Counter, NEW n \in Nat
  PROVE  /\ incrementCounter(c, n) \in Counter
         /\ Value(incrementCounter(c, n)) = (Value(c) + n) % Octet^Octets
  <1>1. PICK h : /\ incrementCounter(c, n) = h[Octets].counter
                 /\ h[0] = [counter |-> c, carry |-> n]
                 /\ \A i \in 1 .. Octets : h[i] = Carry(i, h[i - 1])
    BY IncrementDef
  <1> DEFINE Done(i) ==
        /\ h[i] \in Carrying
        /\ \A j \in 1 .. Octets : j + i <= Octets => h[i].counter[j] = c[j]
        /\ \A k \in 1 .. i : h[i].counter[Octets + 1 - k] + h[k].carry * Octet
                               = c[Octets + 1 - k] + h[k - 1].carry
      S == {i \in Nat : i <= Octets => Done(i)}
  <1>2. 0 \in S
    <2>1. h[0] \in Carrying /\ h[0].counter = c
      BY <1>1 DEF Carrying
    <2> QED BY <2>1
  <1>3. ASSUME NEW i \in Nat, i \in S PROVE i + 1 \in S
    <2> SUFFICES ASSUME i + 1 <= Octets PROVE Done(i + 1)
      OBVIOUS
    <2>1. Done(i)
      BY <1>3, Sizes
    <2>2. i + 1 \in 1 .. Octets /\ (i + 1) - 1 = i
      BY Sizes
    <2>3. PICK at : at = Octets + 1 - (i + 1) /\ at + i <= Octets /\ at + i + 1 > Octets /\ at \in Nat
      BY Sizes
    <2>4. /\ at \in 1 .. Octets /\ h[i + 1] \in Carrying
          /\ h[i + 1].counter[at] + h[i + 1].carry * Octet = h[i].counter[at] + h[i].carry
          /\ \A j \in 1 .. Octets : j # at => h[i + 1].counter[j] = h[i].counter[j]
      BY <1>1, <2>1, <2>2, <2>3, CarryStep
    <2>5. h[i].counter[at] = c[at]
      BY <2>1, <2>3, <2>4
    <2>6. \A j \in 1 .. Octets : j + (i + 1) <= Octets => h[i + 1].counter[j] = c[j]
      <3> TAKE j \in 1 .. Octets
      <3> HAVE j + (i + 1) <= Octets
      <3>1. j # at /\ j + i <= Octets
        BY <2>3, Sizes
      <3> QED BY <2>1, <2>4, <3>1
    <2>7. ASSUME NEW k \in 1 .. i + 1
          PROVE  h[i + 1].counter[Octets + 1 - k] + h[k].carry * Octet = c[Octets + 1 - k] + h[k - 1].carry
      <3>1. CASE k = i + 1
        BY <2>2, <2>3, <2>4, <2>5, <3>1
      <3>2. CASE k \in 1 .. i
        <4>1. PICK l : l = Octets + 1 - k /\ l \in 1 .. Octets /\ l # at
          BY <2>3, <3>2, Sizes
        <4>2. h[i + 1].counter[l] = h[i].counter[l]
          BY <2>4, <4>1
        <4>3. h[i].counter[Octets + 1 - k] + h[k].carry * Octet = c[Octets + 1 - k] + h[k - 1].carry
          BY <2>1, <3>2
        <4> QED BY <4>1, <4>2, <4>3
      <3> QED BY <3>1, <3>2
    <2> QED BY <2>4, <2>6, <2>7
  <1> HIDE DEF S, Done
  <1>4. \A i \in Nat : i \in S
    BY <1>2, <1>3, Induction
  <1>5. \A i \in 0 .. Octets : Done(i)
    BY <1>4, Sizes DEF S
  <1> DEFINE K == [i \in 0 .. Octets |-> h[i].carry]
  <1>6. K \in [0 .. Octets -> Nat]
    BY <1>5 DEF Done, Carrying
  <1>7. PICK r \in Counter : r = h[Octets].counter
    BY <1>5, Sizes DEF Done, Carrying
  <1>8. \A i \in 1 .. Octets : r[Octets + 1 - i] + K[i] * Octet = c[Octets + 1 - i] + K[i - 1]
    <2> TAKE i \in 1 .. Octets
    <2>1. K[i] = h[i].carry /\ K[i - 1] = h[i - 1].carry
      BY Sizes
    <2>2. h[Octets].counter[Octets + 1 - i] + h[i].carry * Octet = c[Octets + 1 - i] + h[i - 1].carry
      BY <1>5, Sizes DEF Done
    <2> QED BY <1>7, <2>1, <2>2
  <1>9. K[0] = n /\ K[Octets] \in Nat
    BY <1>1, <1>6, Sizes
  <1> HIDE DEF K
  <1>10. Value(r) + K[Octets] * Octet^Octets = Value(c) + n
    BY <1>6, <1>8, <1>9, Carried
  <1>11. Value(r) = (Value(c) + n) % Octet^Octets
    <2>1. PICK m \in Nat, x \in Nat, y \in Nat, k \in Nat :
            m = Octet^Octets /\ x = Value(r) /\ y = Value(c) /\ k = K[Octets] /\ x < m
      BY <1>9, ValueBound
    <2>2. x + k * m = y + n /\ y + n \in Nat
      BY <1>10, <2>1
    <2>3. x = (y + n) % m
      BY <2>1, <2>2, ModIs
    <2> QED BY <2>1, <2>3
  <1> QED BY <1>1, <1>7, <1>11

-----------------------------------------------------------------------------
(* Streams.                                                                *)

Streams == [counter : Counter, used : 0 .. BlockSize - 1]

Period == Octet^Octets

LEMMA PeriodType == Period \in Nat /\ Period >= 1
  BY PowerType, Sizes DEF Period

LEMMA ModStep ==
  ASSUME NEW a \in Nat, NEW m \in Nat, m >= 1
  PROVE  ((a % m) + 1) % m = (a + 1) % m
  <1>1. PICK q \in Nat, x \in Nat : q = a \div m /\ x = a % m /\ x < m /\ a = x + q * m
    BY SMT
  <1>2. q * m \in Nat
    BY <1>1
  <1>3. CASE x + 1 < m
    <2>1. (x + 1) + q * m = a + 1
      BY <1>1, <1>2
    <2>2. x + 1 = (a + 1) % m
      BY <1>3, <2>1, ModIs, SMTT(30)
    <2>3. (x + 1) % m = x + 1
      BY <1>3
    <2> QED BY <1>1, <2>2, <2>3
  <1>4. CASE x + 1 = m
    <2>1. (q + 1) * m = q * m + m /\ q + 1 \in Nat
      BY <1>1
    <2>2. PICK z \in Nat : z = 0 /\ z < m
      OBVIOUS
    <2>3. PICK k \in Nat, n \in Nat : k = q + 1 /\ n = a + 1 /\ z + k * m = n
      BY <1>1, <1>2, <1>4, <2>1, <2>2
    <2>4. z = n % m
      BY <2>2, <2>3, ModIs
    <2>5. (x + 1) % m = 0
      BY <1>4
    <2> QED BY <1>1, <2>2, <2>3, <2>4, <2>5
  <1>5. x + 1 < m \/ x + 1 = m
    BY <1>1
  <1> QED BY <1>3, <1>4, <1>5

(* One byte further in a block, and into the next.                         *)
LEMMA NextPlace ==
  ASSUME NEW p \in Nat, NEW b \in Nat, b >= 1
  PROVE  /\ p % b \in 0 .. b - 1 /\ p \div b \in Nat
         /\ (p % b) + 1 = b => (p + 1) % b = 0 /\ (p + 1) \div b = (p \div b) + 1
         /\ (p % b) + 1 # b => (p + 1) % b = (p % b) + 1 /\ (p + 1) \div b = p \div b
  <1>1. PICK q \in Nat, x \in Nat : q = p \div b /\ x = p % b /\ x < b /\ p = x + q * b
    BY SMT
  <1>2. PICK t \in Nat, y \in Nat :
          t = (p + 1) \div b /\ y = (p + 1) % b /\ y < b /\ p + 1 = y + t * b
    BY SMT
  <1>3. q * b \in Nat
    BY <1>1
  <1>4. CASE x + 1 = b
    <2>1. (q + 1) * b = q * b + b /\ q + 1 \in Nat
      BY <1>1
    <2>2. PICK z \in Nat, k \in Nat : z = 0 /\ z < b /\ k = q + 1 /\ z + k * b = y + t * b
      BY <1>1, <1>2, <1>3, <1>4, <2>1
    <2>3. k = t /\ z = y
      BY <1>2, <2>2, DigitsApart
    <2> QED BY <1>1, <1>2, <1>4, <2>2, <2>3
  <1>5. CASE x + 1 # b
    <2>1. (x + 1) + q * b = y + t * b
      BY <1>1, <1>2, <1>3
    <2>2. q = t /\ x + 1 = y
      BY <1>1, <1>2, <1>5, <2>1, DigitsApart
    <2> QED BY <1>1, <1>2, <1>5, <2>2
  <1> QED BY <1>4, <1>5

(* The stream after one byte.                                              *)
NextStream(s) ==
  IF s.used + 1 = BlockSize THEN [counter |-> NextBlock(s.counter), used |-> 0]
  ELSE [s EXCEPT !.used = @ + 1]

LEMMA NextStands ==
  ASSUME NEW iv \in Counter, NEW p \in Nat, NEW s, StandsAt(iv, s, p)
  PROVE  StandsAt(iv, NextStream(s), p + 1)
  <1>1. s \in Streams /\ s.counter \in Counter /\ s.used = p % BlockSize
    BY DEF StandsAt, Streams
  <1>2. PICK q \in Nat : q = p \div BlockSize
    BY NextPlace, Sizes
  <1>3. PICK v \in Nat : v = Value(iv)
    BY ValueBound
  <1>4. Value(s.counter) = (v + q) % Period
    BY <1>2, <1>3 DEF StandsAt, Period
  <1>5. CASE s.used + 1 = BlockSize
    <2>1. NextStream(s) = [counter |-> NextBlock(s.counter), used |-> 0]
      BY <1>5 DEF NextStream
    <2>2. (p + 1) % BlockSize = 0 /\ (p + 1) \div BlockSize = q + 1
      BY <1>1, <1>2, <1>5, NextPlace, Sizes
    <2>3. NextBlock(s.counter) \in Counter /\ Value(NextBlock(s.counter)) = (Value(s.counter) + 1) % Period
      BY <1>1, NextBlockAdds DEF Period
    <2>4. v + q \in Nat /\ v + (q + 1) = (v + q) + 1
      OBVIOUS
    <2>5. (((v + q) % Period) + 1) % Period = ((v + q) + 1) % Period
      BY <2>4, PeriodType, ModStep, Zenon
    <2>6. Value(NextBlock(s.counter)) = (v + (q + 1)) % Period
      BY <1>4, <2>3, <2>4, <2>5
    <2>7. NextStream(s) \in Streams
      BY <2>1, <2>3, Sizes DEF Streams
    <2>8. NextStream(s).counter = NextBlock(s.counter) /\ NextStream(s).used = 0
      BY <2>1
    <2> QED BY <1>3, <2>2, <2>6, <2>7, <2>8 DEF StandsAt, Streams, Period
  <1>6. CASE s.used + 1 # BlockSize
    <2>1. NextStream(s) = [s EXCEPT !.used = s.used + 1]
      BY <1>6 DEF NextStream
    <2>2. (p + 1) % BlockSize = s.used + 1 /\ (p + 1) \div BlockSize = q
      <3>1. (p % BlockSize) + 1 # BlockSize
        BY <1>1, <1>6
      <3>2. (p + 1) % BlockSize = (p % BlockSize) + 1 /\ (p + 1) \div BlockSize = p \div BlockSize
        BY <3>1, NextPlace, Sizes, Zenon
      <3> QED BY <1>1, <1>2, <3>2
    <2>3. NextStream(s) \in Streams
      BY <1>1, <1>6, <2>1, Sizes DEF Streams
    <2>4. NextStream(s).counter = s.counter /\ NextStream(s).used = s.used + 1
      BY <1>1, <2>1 DEF Streams
    <2> QED BY <1>3, <1>4, <2>2, <2>3, <2>4 DEF StandsAt, Streams, Period
  <1> QED BY <1>5, <1>6

(* A stream rebuilt for an offset stands where the offset's block begins.  *)
LEMMA StreamAtStands ==
  ASSUME NEW iv \in Counter, NEW p \in Nat
  PROVE  /\ blockOffset(p).skip \in Nat /\ blockOffset(p).skip <= p
         /\ blockOffset(p).skip \in 0 .. BlockSize - 1
         /\ StandsAt(iv, streamAt(iv, p), p - blockOffset(p).skip)
  <1>1. PICK q \in Nat, x \in Nat :
          q = p \div BlockSize /\ x = p % BlockSize /\ x < BlockSize /\ p = x + q * BlockSize
    BY Sizes, SMT
  <1>2. blockOffset(p).skip = x /\ blockOffset(p).blocks = q
    BY <1>1 DEF blockOffset
  <1>3. PICK t \in Nat : t = q * BlockSize
    BY Sizes
  <1>4. x <= p /\ p - x = t
    <2>1. p = x + t
      BY <1>1, <1>3
    <2> QED BY <2>1
  <1>5. t % BlockSize = 0 /\ t \div BlockSize = q
    <2>1. PICK k \in Nat, y \in Nat :
            k = t \div BlockSize /\ y = t % BlockSize /\ y < BlockSize /\ t = y + k * BlockSize
      BY Sizes, SMT
    <2>2. PICK z \in Nat : z = 0 /\ z < BlockSize /\ z + q * BlockSize = y + k * BlockSize
      BY <1>3, <2>1, Sizes
    <2>3. q = k /\ z = y
      BY <2>1, <2>2, DigitsApart, Sizes
    <2> QED BY <2>1, <2>2, <2>3
  <1>6. incrementCounter(iv, q) \in Counter
        /\ Value(incrementCounter(iv, q)) = (Value(iv) + q) % Period
    BY IncrementAdds DEF Period
  <1>7. streamAt(iv, p) = [counter |-> incrementCounter(iv, q), used |-> 0]
    BY <1>2 DEF streamAt
  <1>8. streamAt(iv, p) \in Streams
    BY <1>6, <1>7, Sizes DEF Streams
  <1>9. StandsAt(iv, streamAt(iv, p), t)
    BY <1>5, <1>6, <1>7, <1>8 DEF StandsAt, Streams, Period
  <1>10. x \in 0 .. BlockSize - 1
    BY <1>1, Sizes
  <1> QED BY <1>2, <1>4, <1>9, <1>10

(* Two streams that stand at one place are one.                            *)
LEMMA SamePlace ==
  ASSUME NEW iv \in Counter, NEW p, NEW s, NEW t, StandsAt(iv, s, p), StandsAt(iv, t, p)
  PROVE  s = t
  <1>1. s \in Streams /\ t \in Streams /\ s.used = t.used /\ Value(s.counter) = Value(t.counter)
    BY DEF StandsAt, Streams
  <1>2. s.counter = t.counter
    BY <1>1, ValueInjective DEF Streams
  <1> QED BY <1>1, <1>2 DEF Streams

(* Within one period a stream stands at no place twice.                    *)
LEMMA PlacesApart ==
  ASSUME NEW iv \in Counter, NEW p \in Nat, NEW q \in Nat, NEW s,
         StandsAt(iv, s, p), StandsAt(iv, s, q), p < BlockSize * Period, q < BlockSize * Period
  PROVE  p = q
  <1>1. PICK a \in Nat, x \in Nat :
          a = p \div BlockSize /\ x = p % BlockSize /\ x < BlockSize /\ p = x + a * BlockSize
    BY Sizes, SMT
  <1>2. PICK b \in Nat, y \in Nat :
          b = q \div BlockSize /\ y = q % BlockSize /\ y < BlockSize /\ q = y + b * BlockSize
    BY Sizes, SMT
  <1>3. x = y
    BY <1>1, <1>2 DEF StandsAt
  <1>4. PICK m \in Nat, v \in Nat : m = Period /\ m >= 1 /\ v = Value(iv)
    BY PeriodType, ValueBound
  <1>5. (v + a) % m = (v + b) % m
    BY <1>1, <1>2, <1>4 DEF StandsAt, Period
  <1>6. ASSUME NEW z \in Nat, NEW k \in Nat, NEW w \in Nat, w + k * BlockSize < BlockSize * m
        PROVE  k < m
    <2> SUFFICES ASSUME k >= m PROVE FALSE
      BY <1>4
    <2>1. PICK j \in Nat : k = m + j
      BY <1>4
    <2>2. k * BlockSize = BlockSize * m + j * BlockSize /\ j * BlockSize \in Nat /\ BlockSize * m \in Nat
      BY <2>1, Sizes
    <2> QED BY <1>6, <2>2
  <1>7. a < m /\ b < m
    BY <1>1, <1>2, <1>4, <1>6
  <1>8. PICK e \in Nat, f \in Nat, c \in Nat : c < m /\ v + a = c + e * m /\ v + b = c + f * m
    <2>1. ASSUME NEW n \in Nat
          PROVE  \E k \in Nat, w \in Nat : w = n % m /\ w < m /\ n = w + k * m
      <3>1. n \div m \in Nat /\ n % m \in Nat /\ n % m < m /\ n = (n % m) + (n \div m) * m
        BY <1>4, SMT
      <3> QED BY <3>1, Zenon
    <2>2. v + a \in Nat /\ v + b \in Nat
      OBVIOUS
    <2>3. PICK e \in Nat, c \in Nat : c = (v + a) % m /\ c < m /\ v + a = c + e * m
      BY <2>1, <2>2, Zenon
    <2>4. PICK f \in Nat, d \in Nat : d = (v + b) % m /\ d < m /\ v + b = d + f * m
      BY <2>1, <2>2, Zenon
    <2> QED BY <1>5, <2>3, <2>4, Zenon
  <1>9. e * m \in Nat /\ f * m \in Nat
    OBVIOUS
  <1>10. a + f * m = b + e * m
    BY <1>8, <1>9
  <1>11. a = b
    BY <1>7, <1>10, DigitsApart
  <1> QED BY <1>1, <1>2, <1>3, <1>11

(* XORKeyStream, one byte at a time.                                       *)
Walks == [units : Seq(Counter \X (0 .. BlockSize - 1)), stream : Streams]

Walk(y) == [units  |-> Append(y.units, <<y.stream.counter, y.stream.used>>),
            stream |-> NextStream(y.stream)]

LEMMA WalkTyped ==
  ASSUME NEW y \in Walks
  PROVE  /\ Walk(y) \in Walks /\ Walk(y).stream = NextStream(y.stream)
         /\ Walk(y).units = Append(y.units, <<y.stream.counter, y.stream.used>>)
         /\ Len(Walk(y).units) = Len(y.units) + 1
         /\ Walk(y).units[Len(y.units) + 1] = <<y.stream.counter, y.stream.used>>
         /\ \A i \in 1 .. Len(y.units) : Walk(y).units[i] = y.units[i]
  <1>1. PICK u, s : u = y.units /\ s = y.stream
    OBVIOUS
  <1>2. u \in Seq(Counter \X (0 .. BlockSize - 1)) /\ s \in Streams
    BY <1>1 DEF Walks
  <1>3. PICK w \in Counter \X (0 .. BlockSize - 1) : w = <<s.counter, s.used>>
    BY <1>2 DEF Streams
  <1>4. Walk(y) = [units |-> Append(u, w), stream |-> NextStream(s)]
    BY <1>1, <1>3 DEF Walk
  <1>5. NextStream(s) \in Streams
    <2>1. CASE s.used + 1 = BlockSize
      <3>1. NextBlock(s.counter) \in Counter
        BY <1>2, NextBlockAdds DEF Streams
      <3> QED BY <2>1, <3>1, Sizes DEF NextStream, Streams
    <2>2. CASE s.used + 1 # BlockSize
      <3>1. NextStream(s) = [s EXCEPT !.used = s.used + 1]
        BY <2>2 DEF NextStream
      <3>2. s.used + 1 \in 0 .. BlockSize - 1
        BY <1>2, <2>2, Sizes DEF Streams
      <3> QED BY <1>2, <3>1, <3>2 DEF Streams
    <2> QED BY <2>1, <2>2
  <1>6. PICK v : v = Append(u, w)
    OBVIOUS
  <1>7. /\ v \in Seq(Counter \X (0 .. BlockSize - 1)) /\ Len(v) = Len(u) + 1
        /\ v[Len(u) + 1] = w /\ \A i \in 1 .. Len(u) : v[i] = u[i]
    BY <1>2, <1>6, AppendProperties
  <1>8. Walk(y).stream = NextStream(s) /\ Walk(y).units = v
    BY <1>4, <1>6
  <1>9. Walk(y) \in Walks
    BY <1>4, <1>5, <1>6, <1>7 DEF Walks
  <1> QED BY <1>1, <1>3, <1>6, <1>7, <1>8, <1>9

LEMMA AdvanceDef ==
  ASSUME NEW s \in Streams, NEW n \in Nat
  PROVE  \E h : /\ Advance(s, n) = h[n] /\ h[0] = [units |-> <<>>, stream |-> s]
                /\ \A i \in 1 .. n : h[i] = Walk(h[i - 1])
  <1> DEFINE F == [i \in 1 .. n |-> [y \in Walks |-> Walk(y)]]
             x == [units |-> <<>>, stream |-> s]
  <1>1. F \in Steps(n, Walks)
    BY WalkTyped DEF Steps
  <1>2. x \in Walks
    BY DEF Walks
  <1> HIDE DEF x
  <1>3. PICK g \in [0 .. n -> Walks] : g[0] = x /\ \A i \in 1 .. n : g[i] = F[i][g[i - 1]]
    <2>1. Solved(n, Walks, x, F)
      <3> HIDE DEF F
      <3> QED BY <1>1, <1>2, Recursion
    <2> QED BY <2>1 DEF Solved
  <1>4. \A i \in 1 .. n : g[i] = Walk(g[i - 1])
    <2> TAKE i \in 1 .. n
    <2>1. g[i - 1] \in Walks
      OBVIOUS
    <2> QED BY <1>3, <2>1
  <1>5. \A i \in 0 .. n : g[i] = IF i = 0 THEN x ELSE Walk(g[i - 1])
    BY <1>3, <1>4
  <1>6. g = [i \in 0 .. n |-> IF i = 0 THEN x ELSE Walk(g[i - 1])]
    <2>1. g = [i \in 0 .. n |-> g[i]]
      OBVIOUS
    <2> QED BY <1>5, <2>1
  <1>7. Advance(s, n) = (CHOOSE f : f = [i \in 0 .. n |-> IF i = 0 THEN x ELSE Walk(f[i - 1])])[n]
    BY DEF Advance, Walk, NextStream, x
  <1>8. PICK h : /\ h = [i \in 0 .. n |-> IF i = 0 THEN x ELSE Walk(h[i - 1])]
                 /\ Advance(s, n) = h[n]
    BY <1>6, <1>7
  <1>9. \A i \in 0 .. n : h[i] = IF i = 0 THEN x ELSE Walk(h[i - 1])
    BY <1>8
  <1>10. h[0] = x /\ \A i \in 1 .. n : h[i] = Walk(h[i - 1])
    BY <1>9
  <1> QED BY <1>8, <1>10 DEF x

(* A unit that covers the byte at p, and a walk of n bytes from p.         *)
Covers(iv, p, w) == \E t \in Streams : StandsAt(iv, t, p) /\ w = <<t.counter, t.used>>

Walked(iv, p, n, y) ==
  /\ y \in Walks /\ Len(y.units) = n /\ StandsAt(iv, y.stream, p + n)
  /\ \A i \in 1 .. n : Covers(iv, p + (i - 1), y.units[i])

LEMMA AdvanceStands ==
  ASSUME NEW iv \in Counter, NEW p \in Nat, NEW s, StandsAt(iv, s, p), NEW n \in Nat
  PROVE  Walked(iv, p, n, Advance(s, n))
  <1>1. s \in Streams
    BY DEF StandsAt, Streams
  <1>2. PICK h : /\ Advance(s, n) = h[n] /\ h[0] = [units |-> <<>>, stream |-> s]
                 /\ \A i \in 1 .. n : h[i] = Walk(h[i - 1])
    BY <1>1, AdvanceDef
  <1> DEFINE S == {k \in Nat : k <= n => Walked(iv, p, k, h[k])}
  <1>3. 0 \in S
    <2>1. h[0] \in Walks /\ h[0].units = <<>> /\ h[0].stream = s
      BY <1>1, <1>2 DEF Walks
    <2>2. Len(h[0].units) = 0 /\ p + 0 = p
      BY <2>1
    <2> QED BY <2>1, <2>2 DEF Walked
  <1>4. ASSUME NEW k \in Nat, k \in S PROVE k + 1 \in S
    <2> SUFFICES ASSUME k + 1 <= n PROVE Walked(iv, p, k + 1, h[k + 1])
      OBVIOUS
    <2>1. Walked(iv, p, k, h[k])
      BY <1>4
    <2>2. PICK y, z : y = h[k] /\ z = h[k + 1]
      OBVIOUS
    <2>3. z = Walk(y)
      <3>1. k + 1 \in 1 .. n /\ (k + 1) - 1 = k
        OBVIOUS
      <3> QED BY <1>2, <2>2, <3>1
    <2>4. y \in Walks /\ Len(y.units) = k /\ StandsAt(iv, y.stream, p + k) /\ y.stream \in Streams
      BY <2>1, <2>2 DEF Walked, Walks
    <2>5. /\ z \in Walks /\ z.stream = NextStream(y.stream) /\ Len(z.units) = k + 1
          /\ z.units[k + 1] = <<y.stream.counter, y.stream.used>>
          /\ \A i \in 1 .. k : z.units[i] = y.units[i]
      BY <2>3, <2>4, WalkTyped
    <2>6. StandsAt(iv, z.stream, p + (k + 1))
      <3>1. p + k \in Nat /\ (p + k) + 1 = p + (k + 1)
        OBVIOUS
      <3>2. StandsAt(iv, NextStream(y.stream), (p + k) + 1)
        BY <2>4, <3>1, NextStands
      <3> QED BY <2>5, <3>1, <3>2
    <2>7. ASSUME NEW i \in 1 .. k + 1 PROVE Covers(iv, p + (i - 1), z.units[i])
      <3>1. CASE i = k + 1
        <4>1. i - 1 = k
          BY <3>1
        <4>2. Covers(iv, p + k, z.units[k + 1])
          BY <2>4, <2>5 DEF Covers
        <4> QED BY <3>1, <4>1, <4>2
      <3>2. CASE i \in 1 .. k
        BY <2>1, <2>2, <2>5, <3>2 DEF Walked
      <3> QED BY <3>1, <3>2
    <2> QED BY <2>2, <2>5, <2>6, <2>7 DEF Walked
  <1> HIDE DEF S
  <1>5. n \in S
    BY <1>3, <1>4, Induction
  <1> QED BY <1>2, <1>5 DEF S

-----------------------------------------------------------------------------
(* Stored keys.                                                            *)

LEMMA WrapIs ==
  ASSUME NEW m, NEW k
  PROVE  Wrap(m, Raw(k)) = [by |-> <<m>>, key |-> k] /\ Raw(k) = [by |-> <<>>, key |-> k]
  <1>1. Append(<<>>, m) = <<m>>
    OBVIOUS
  <1> QED BY <1>1 DEF Wrap, Raw

(* Which master keys open a stored key.                                    *)
LEMMA OpenedBy ==
  ASSUME NEW m, NEW s
  PROVE  /\ m = None => (opened(m, s).ok <=> s.by = <<>>)
         /\ m # None => (opened(m, s).ok <=> s.by \in {<<>>, <<m>>})
  BY DEF opened, unwrap, Got, Failed

(* What is stored under a key opens under it.                              *)
LEMMA StoredOpens ==
  ASSUME NEW m, NEW k
  PROVE  opened(m, Stored(m, k)).ok
  <1>1. CASE m = None
    BY <1>1, WrapIs, OpenedBy DEF Stored
  <1>2. CASE m # None
    <2>1. Stored(m, k).by = <<m>>
      BY <1>2, WrapIs DEF Stored
    <2> QED BY <1>2, <2>1, OpenedBy
  <1> QED BY <1>1, <1>2

LEMMA StoredTyped ==
  ASSUME NEW m \in KeyFiles, NEW k \in Keys
  PROVE  Stored(m, k) \in StoredKeys
  BY DEF Stored, StoredKeys, KeyFiles

LEMMA KeyOf ==
  ASSUME NEW s \in StoredKeys, s # NoRow
  PROVE  s.key \in Keys
  BY WrapIs DEF StoredKeys

(* A key that a rotation has rewritten.                                    *)
LEMMA Rewrapped ==
  ASSUME NEW old \in KeyFiles, NEW new \in KeyFiles, NEW s \in StoredKeys, s # NoRow,
         rewrap(old, new, s) # NoRow
  PROVE  rewrap(old, new, s) \in StoredKeys /\ opened(new, rewrap(old, new, s)).ok
  <1>1. rewrap(old, new, s) = Stored(new, s.key)
    BY DEF rewrap, Stored
  <1> QED BY <1>1, KeyOf, StoredTyped, StoredOpens

(* Raw keys pass through any master key.                                   *)
LEMMA RawPasses ==
  ASSUME NEW table, NEW m \in MasterKeys, OpensAll(None, table)
  PROVE  OpensAll(m, table)
  <1>1. m # None
    BY AtRestAssumption DEF AtRestAssumption
  <1>2. \A u \in Uploads : table[u] # NoRow => table[u].by = <<>>
    BY OpenedBy DEF OpensAll
  <1> QED BY <1>1, <1>2, OpenedBy DEF OpensAll

-----------------------------------------------------------------------------
(* Blobs.                                                                  *)

LEMMA Counts ==
  ASSUME NEW s, NEW n \in Nat, s = [i \in 1 .. n |-> s[i]]
  PROVE  IsSeq(s) /\ Len(s) = n
  <1> DEFINE S == {s[i] : i \in DOMAIN s}
  <1>1. s \in [1 .. n -> S]
    OBVIOUS
  <1>2. s \in Seq(S)
    BY <1>1
  <1> HIDE DEF S
  <1>3. DOMAIN s = 1 .. n /\ DOMAIN s = 1 .. Len(s) /\ Len(s) \in Nat
    BY <1>1, <1>2
  <1>4. Len(s) = n
    BY <1>3
  <1> QED BY <1>2, <1>4 DEF IsSeq, S

LEMMA Joined ==
  ASSUME NEW s, NEW t, IsSeq(s), IsSeq(t)
  PROVE  IsSeq(s \o t) /\ Len(s \o t) = Len(s) + Len(t)
  <1> DEFINE S == {s[i] : i \in DOMAIN s} \cup {t[i] : i \in DOMAIN t}
  <1>1. s \in Seq(S) /\ t \in Seq(S)
    BY DEF IsSeq
  <1> HIDE DEF S
  <1>2. s \o t \in Seq(S) /\ Len(s \o t) = Len(s) + Len(t)
    BY <1>1, ConcatProperties
  <1> DEFINE j == s \o t
  <1>3. j \in Seq(S)
    BY <1>2
  <1> HIDE DEF j
  <1>4. Len(j) \in Nat /\ DOMAIN j = 1 .. Len(j) /\ j = [i \in 1 .. Len(j) |-> j[i]]
    BY <1>3
  <1>5. IsSeq(j)
    BY <1>4, Counts
  <1> QED BY <1>2, <1>5 DEF j

(* The place of an offset within its block.                                *)
LEMMA SkipInBlock ==
  ASSUME NEW p \in Nat
  PROVE  blockOffset(p).skip \in 0 .. BlockSize - 1
  <1>1. BlockSize \in Nat /\ BlockSize > 0
    BY CounterAssumption DEF CounterAssumption
  <1>2. p % BlockSize \in 0 .. BlockSize - 1
    BY <1>1
  <1> QED BY <1>2 DEF blockOffset

LEMMA InitInv == Init => Inv
  <1> SUFFICES ASSUME Init PROVE Inv
    OBVIOUS
  <1> USE DEF Init
  <1>1. BlockSize \in Nat /\ BlockSize > 0 /\ Size \in Nat /\ MaxRotations \in Nat
    BY CounterAssumption, AtRestAssumption DEF CounterAssumption, AtRestAssumption
  <1>2. \A u \in Uploads : blob[u] = <<>> /\ Len(blob[u]) = 0 /\ IsSeq(blob[u])
    BY DEF IsSeq
  <1>3. row \in [Uploads -> StoredKeys] /\ issued \subseteq Keys
    BY DEF StoredKeys
  <1>4. /\ reader.of = None /\ reader.offset = 0 /\ reader.skip = 0 /\ got.of = None
        /\ rot.pc = "idle" /\ rot.todo = {}
    BY DEF Closed, Nothing, Idle
  <1>5. TypeOK
    <2>1. \A u \in Uploads : Len(blob[u]) <= Size
      BY <1>1, <1>2
    <2>2. reader.offset \in 0 .. Size /\ reader.skip \in 0 .. BlockSize - 1 /\ rotations \in 0 .. MaxRotations
      BY <1>1, <1>4
    <2>3. conf \in MasterKeys \cup {None} /\ server \in MasterKeys \cup {None, Stopped}
      OBVIOUS
    <2>4. unreported \in BOOLEAN /\ strayed \in BOOLEAN
      OBVIOUS
    <2>5. reader.of \in Uploads \cup {None} /\ got.of \in Uploads \cup {None}
      BY <1>4
    <2>6. rot.pc \in {"idle", "rows", "report"} /\ rot.todo \subseteq Uploads
      BY <1>4
    <2> HIDE DEF Init
    <2> QED BY <1>3, <2>1, <2>2, <2>3, <2>4, <2>5, <2>6 DEF TypeOK
  <1>6. reader \in [of : Uploads \cup {None}, key : {reader.key}, stream : {reader.stream},
                    skip : 0 .. BlockSize - 1, offset : 0 .. Size]
    BY <1>1 DEF Closed
  <1>7. rot \in [pc : {"idle", "rows", "report"}, old : KeyFiles, new : KeyFiles,
                 todo : SUBSET Uploads, table : [Uploads -> StoredKeys]]
    BY DEF Idle, KeyFiles, StoredKeys
  <1>8. blob \in [Uploads -> {blob[u] : u \in Uploads}]
    OBVIOUS
  <1>9. TypeInv
    BY <1>2, <1>5, <1>6, <1>7, <1>8 DEF TypeInv
  <1>10. RotationInv
    BY <1>4 DEF RotationInv
  <1>11. OpensAll(None, row) /\ OpensAll(conf, row)
    BY DEF OpensAll
  <1>12. TableInv
    BY <1>11 DEF TableInv, KeyFiles
  <1> QED BY <1>9, <1>10, <1>12 DEF Inv

-----------------------------------------------------------------------------
(* What a step that leaves a part alone preserves of it.                   *)

LEMMA TableSame ==
  ASSUME TableInv, UNCHANGED <<row, conf, rot, unreported, strayed>>
  PROVE  TableInv'
  BY DEF TableInv, OpensAll

LEMMA RotationSame ==
  ASSUME RotationInv, UNCHANGED <<row, rot>>, server' = Stopped \/ UNCHANGED <<conf, server>>
  PROVE  RotationInv'
  BY DEF RotationInv, OpensAll

LEMMA StartServerKeeps ==
  ASSUME Inv, StartServer
  PROVE  Inv'
  <1> USE DEF Inv, StartServer
  <1>1. TypeInv'
    BY DEF TypeInv, TypeOK
  <1>2. RotationInv'
    BY DEF RotationInv, OpensAll
  <1>3. TableInv'
    BY TableSame
  <1> QED BY <1>1, <1>2, <1>3

(* A closed reader.                                                        *)
LEMMA ClosedTyped ==
  /\ Closed.of = None /\ Closed.offset = 0 /\ Closed.skip = 0
  /\ 0 \in 0 .. Size /\ 0 \in 0 .. BlockSize - 1
  /\ Closed \in [of : Uploads \cup {None}, key : {Closed.key}, stream : {Closed.stream},
                 skip : 0 .. BlockSize - 1, offset : 0 .. Size]
  <1>1. BlockSize \in Nat /\ BlockSize > 0 /\ Size \in Nat
    BY CounterAssumption, AtRestAssumption DEF CounterAssumption, AtRestAssumption
  <1> QED BY <1>1 DEF Closed

LEMMA StopServerKeeps ==
  ASSUME Inv, StopServer
  PROVE  Inv'
  <1> USE DEF Inv, StopServer
  <1>1. TypeInv'
    BY ClosedTyped DEF TypeInv, TypeOK
  <1>2. RotationInv'
    BY RotationSame
  <1>3. TableInv'
    BY TableSame
  <1> QED BY <1>1, <1>2, <1>3

LEMMA CloseKeeps ==
  ASSUME Inv, Close
  PROVE  Inv'
  <1> USE DEF Inv, Close
  <1>1. TypeInv'
    BY ClosedTyped DEF TypeInv, TypeOK, Nothing
  <1>2. RotationInv'
    BY RotationSame
  <1>3. TableInv'
    BY TableSame
  <1> QED BY <1>1, <1>2, <1>3

LEMMA CreateKeeps ==
  ASSUME Inv, NEW u \in Uploads, Create(u)
  PROVE  Inv'
  <1> USE DEF Inv
  <1>1. PICK k \in Keys : row' = [row EXCEPT ![u] = Stored(server, k)] /\ issued' = issued \cup {k}
    BY DEF Create, NewAtRestKey
  <1>2. server \in KeyFiles /\ server = conf /\ rot.pc = "idle"
    BY DEF Create, TypeInv, TypeOK, RotationInv, KeyFiles
  <1>3. row \in [Uploads -> StoredKeys]
    BY DEF TypeInv, TypeOK
  <1>4. row' \in [Uploads -> StoredKeys] /\ issued' \subseteq Keys
    BY <1>1, <1>2, <1>3, StoredTyped DEF TypeInv, TypeOK
  <1>5. strayed' \in BOOLEAN
    BY DEF Create
  <1>6. TypeInv'
    BY <1>4, <1>5 DEF Create, TypeInv, TypeOK
  <1>7. RotationInv'
    BY <1>2 DEF RotationInv, Create
  <1>8. OpensAll(server, row) => OpensAll(server, row')
    BY <1>1, <1>3, StoredOpens DEF OpensAll
  <1>9. unreported \/ OpensAll(server, row)
    BY <1>2 DEF TableInv
  <1>10. strayed' \/ OpensAll(server, row)
    BY DEF Create
  <1>11. TableInv'
    BY <1>2, <1>8, <1>9, <1>10 DEF TableInv, Create
  <1> QED BY <1>6, <1>7, <1>11

LEMMA WriteChunkKeeps ==
  ASSUME Inv, NEW u \in Uploads, NEW n \in 1 .. Size, WriteChunk(u, n)
  PROVE  Inv'
  <1> USE DEF Inv
  <1> DEFINE key   == opened(server, row[u])
             start == Len(blob[u])
             ctr   == Advance(streamAt(IV(key.key), start), blockOffset(start).skip).stream
             units == Advance(ctr, n).units
             chunk == [i \in 1 .. n |-> [plain |-> <<u, start + i>>, unit |-> <<key.key, units[i]>>]]
  <1>1. blob' = [blob EXCEPT ![u] = blob[u] \o chunk] /\ start + n <= Size
    BY DEF WriteChunk
  <1>2. n \in Nat
    BY AtRestAssumption DEF AtRestAssumption
  <1>3. chunk = [i \in 1 .. n |-> chunk[i]]
    OBVIOUS
  <1> HIDE DEF chunk
  <1>4. IsSeq(chunk) /\ Len(chunk) = n
    BY <1>2, <1>3, Counts
  <1>5. IsSeq(blob[u]) /\ blob \in [Uploads -> {blob[v] : v \in Uploads}]
    BY DEF TypeInv
  <1>6. IsSeq(blob[u] \o chunk) /\ Len(blob[u] \o chunk) <= Size
    BY <1>1, <1>4, <1>5, Joined
  <1>7. blob'[u] = blob[u] \o chunk /\ \A v \in Uploads \ {u} : blob'[v] = blob[v]
    BY <1>1, <1>5
  <1> HIDE DEF start, Inv
  <1>8. \A v \in Uploads : IsSeq(blob'[v]) /\ Len(blob'[v]) <= Size
    BY <1>6, <1>7 DEF TypeInv, TypeOK, Inv
  <1>9. blob' \in [Uploads -> {blob'[v] : v \in Uploads}]
    <2>1. DOMAIN blob' = Uploads /\ blob' = [v \in Uploads |-> blob'[v]]
      BY <1>1, <1>5
    <2> QED BY <2>1
  <1>10. TypeOK'
    BY <1>8 DEF TypeOK, TypeInv, Inv, WriteChunk
  <1>11. (\A v \in Uploads : IsSeq(blob[v]))'
    BY <1>8 DEF IsSeq
  <1>12. TypeInv'
    BY <1>9, <1>10, <1>11 DEF TypeInv, Inv, WriteChunk
  <1>13. RotationInv'
    BY RotationSame DEF Inv, WriteChunk
  <1>14. TableInv'
    BY TableSame DEF Inv, WriteChunk
  <1> QED BY <1>12, <1>13, <1>14 DEF Inv

(* A reader positioned anywhere in a blob.                                 *)
LEMMA Reseeked ==
  ASSUME NEW r, NEW p \in 0 .. Size,
         r \in [of : Uploads \cup {None}, key : {r.key}, stream : {r.stream},
                skip : 0 .. BlockSize - 1, offset : 0 .. Size]
  PROVE  LET s == reseek(r, p) IN
         /\ s.of \in Uploads \cup {None} /\ s.offset \in 0 .. Size /\ s.skip \in 0 .. BlockSize - 1
         /\ s \in [of : Uploads \cup {None}, key : {s.key}, stream : {s.stream},
                   skip : 0 .. BlockSize - 1, offset : 0 .. Size]
  <1>1. p \in Nat
    BY AtRestAssumption DEF AtRestAssumption
  <1>2. blockOffset(p).skip \in 0 .. BlockSize - 1
    BY <1>1, SkipInBlock
  <1> DEFINE at == streamAt(IV(r.key), p)
             s  == reseek(r, p)
  <1>3. s = [r EXCEPT !.stream = at, !.skip = blockOffset(p).skip, !.offset = p]
    BY DEF reseek
  <1> HIDE DEF at, s
  <1>4. /\ s.of = r.of /\ s.key = r.key /\ s.stream = at /\ s.skip = blockOffset(p).skip
        /\ s.offset = p
    BY <1>3
  <1>5. s \in [of : Uploads \cup {None}, key : {s.key}, stream : {s.stream},
               skip : 0 .. BlockSize - 1, offset : 0 .. Size]
    BY <1>2, <1>3, <1>4
  <1> QED BY <1>2, <1>4, <1>5 DEF s

(* Steps that move the reader alone.                                       *)
LEMMA ReaderMoves ==
  ASSUME Inv, UNCHANGED <<row, issued, blob, conf, server, rot, rotations, unreported, strayed>>,
         /\ reader'.of \in Uploads \cup {None} /\ reader'.offset \in 0 .. Size
         /\ reader'.skip \in 0 .. BlockSize - 1,
         reader' \in [of : Uploads \cup {None}, key : {reader'.key}, stream : {reader'.stream},
                      skip : 0 .. BlockSize - 1, offset : 0 .. Size],
         got'.of \in Uploads \cup {None}
  PROVE  Inv'
  <1>1. TypeInv'
    BY DEF Inv, TypeInv, TypeOK
  <1>2. RotationInv'
    BY RotationSame DEF Inv
  <1>3. TableInv'
    BY TableSame DEF Inv
  <1> QED BY <1>1, <1>2, <1>3 DEF Inv

LEMMA OpenKeeps ==
  ASSUME Inv, NEW u \in Uploads, Open(u)
  PROVE  Inv'
  <1>1. PICK r : r = [Closed EXCEPT !.of = u, !.key = opened(server, row[u]).key]
    OBVIOUS
  <1>2. r \in [of : Uploads \cup {None}, key : {r.key}, stream : {r.stream},
               skip : 0 .. BlockSize - 1, offset : 0 .. Size]
    BY <1>1, ClosedTyped DEF Closed
  <1>3. reader' = reseek(r, 0)
    BY <1>1 DEF Open
  <1>4. got'.of \in Uploads \cup {None}
    BY DEF Open, Inv, TypeInv, TypeOK
  <1>5. UNCHANGED <<row, issued, blob, conf, server, rot, rotations, unreported, strayed>>
    BY DEF Open
  <1>6. /\ reader'.of \in Uploads \cup {None} /\ reader'.offset \in 0 .. Size
        /\ reader'.skip \in 0 .. BlockSize - 1
        /\ reader' \in [of : Uploads \cup {None}, key : {reader'.key}, stream : {reader'.stream},
                        skip : 0 .. BlockSize - 1, offset : 0 .. Size]
    BY <1>2, <1>3, Reseeked, ClosedTyped
  <1> QED BY <1>4, <1>5, <1>6, ReaderMoves

LEMMA SeekKeeps ==
  ASSUME Inv, NEW p \in 0 .. Size, Seek(p)
  PROVE  Inv'
  <1>1. reader \in [of : Uploads \cup {None}, key : {reader.key}, stream : {reader.stream},
                    skip : 0 .. BlockSize - 1, offset : 0 .. Size]
    BY DEF Inv, TypeInv
  <1>2. reader' = reseek(reader, p)
    BY DEF Seek
  <1>3. got'.of \in Uploads \cup {None}
    BY DEF Seek, Inv, TypeInv, TypeOK
  <1>4. UNCHANGED <<row, issued, blob, conf, server, rot, rotations, unreported, strayed>>
    BY DEF Seek
  <1>5. /\ reader'.of \in Uploads \cup {None} /\ reader'.offset \in 0 .. Size
        /\ reader'.skip \in 0 .. BlockSize - 1
        /\ reader' \in [of : Uploads \cup {None}, key : {reader'.key}, stream : {reader'.stream},
                        skip : 0 .. BlockSize - 1, offset : 0 .. Size]
    BY <1>1, <1>2, Reseeked
  <1> QED BY <1>3, <1>4, <1>5, ReaderMoves

LEMMA ReadKeeps ==
  ASSUME Inv, NEW n \in 1 .. Size, Read(n)
  PROVE  Inv'
  <1> DEFINE at    == reader.offset
             count == IF n < Size - at THEN n ELSE Size - at
             next  == Advance(Advance(reader.stream, reader.skip).stream, count)
  <1>1. PICK c, s : c = at + count /\ s = next.stream
    OBVIOUS
  <1>2. reader' = [reader EXCEPT !.stream = s, !.skip = 0, !.offset = c]
    BY <1>1 DEF Read
  <1>3. got'.of = reader.of
    BY DEF Read
  <1> HIDE DEF next
  <1>4. reader \in [of : Uploads \cup {None}, key : {reader.key}, stream : {reader.stream},
                    skip : 0 .. BlockSize - 1, offset : 0 .. Size]
    BY DEF Inv, TypeInv
  <1>5. at \in 0 .. Size /\ reader.of \in Uploads \cup {None}
    BY <1>4
  <1>6. c \in 0 .. Size
    BY <1>1, <1>5, AtRestAssumption DEF AtRestAssumption
  <1>7. /\ reader'.of = reader.of /\ reader'.key = reader.key /\ reader'.stream = s
        /\ reader'.skip = 0 /\ reader'.offset = c
    BY <1>2, <1>4
  <1>8. 0 \in 0 .. BlockSize - 1
    BY ClosedTyped
  <1>9. reader' \in [of : Uploads \cup {None}, key : {reader'.key}, stream : {reader'.stream},
                     skip : 0 .. BlockSize - 1, offset : 0 .. Size]
    BY <1>2, <1>4, <1>6, <1>7, <1>8
  <1>10. UNCHANGED <<row, issued, blob, conf, server, rot, rotations, unreported, strayed>>
    BY DEF Read
  <1> QED BY <1>3, <1>5, <1>6, <1>7, <1>8, <1>9, <1>10, ReaderMoves

-----------------------------------------------------------------------------
(* The operator and the rotation command.                                  *)

LEMMA TurnOnKeeps ==
  ASSUME Inv, NEW m \in MasterKeys, TurnOn(m)
  PROVE  Inv'
  <1> USE DEF Inv, TurnOn
  <1>1. TypeInv'
    BY DEF TypeInv, TypeOK
  <1>2. RotationInv'
    BY RotationSame
  <1>3. unreported \/ OpensAll(m, row)
    BY RawPasses DEF TableInv
  <1>4. TableInv'
    BY <1>3 DEF TableInv, OpensAll
  <1> QED BY <1>1, <1>2, <1>4

(* No rotation is under way.                                               *)
LEMMA IdleTyped ==
  /\ Idle.pc = "idle" /\ Idle.todo = {}
  /\ Idle \in [pc : {"idle", "rows", "report"}, old : KeyFiles, new : KeyFiles,
               todo : SUBSET Uploads, table : [Uploads -> StoredKeys]]
  BY DEF Idle, KeyFiles, StoredKeys

LEMMA BeginRotationKeeps ==
  ASSUME Inv, NEW old \in Files, NEW new \in Files, BeginRotation(old, new)
  PROVE  Inv'
  <1> USE DEF Inv
  <1>1. rotations' \in 0 .. MaxRotations
    BY AtRestAssumption DEF BeginRotation, TypeInv, TypeOK, AtRestAssumption
  <1>2. CASE rot' = rot
    <2>1. TypeInv'
      BY <1>1, <1>2 DEF TypeInv, TypeOK, BeginRotation
    <2>2. RotationInv'
      BY <1>2, RotationSame DEF BeginRotation
    <2>3. TableInv'
      BY <1>2, TableSame DEF BeginRotation
    <2> QED BY <2>1, <2>2, <2>3
  <1>3. CASE /\ old \in KeyFiles /\ new \in KeyFiles
             /\ rot' = [pc |-> "rows", old |-> old, new |-> new, todo |-> Rows, table |-> row]
    <2>1. row \in [Uploads -> StoredKeys] /\ Rows \in SUBSET Uploads
      BY DEF TypeInv, TypeOK, Rows
    <2>2. rot'.pc = "rows" /\ rot'.todo = Rows /\ rot'.table = row
      BY <1>3
    <2>3. rot' \in [pc : {"idle", "rows", "report"}, old : KeyFiles, new : KeyFiles,
                    todo : SUBSET Uploads, table : [Uploads -> StoredKeys]]
      BY <1>3, <2>1
    <2>4. TypeInv'
      BY <1>1, <2>1, <2>2, <2>3 DEF TypeInv, TypeOK, BeginRotation
    <2>5. \A u \in Uploads : u \notin Rows => row[u] = NoRow
      BY DEF Rows
    <2>6. RotationInv'
      BY <2>2, <2>5 DEF RotationInv, BeginRotation
    <2>7. TableInv'
      BY <2>2 DEF TableInv, OpensAll, BeginRotation
    <2> QED BY <2>4, <2>6, <2>7
  <1>4. \/ rot' = rot
        \/ /\ old \in KeyFiles /\ new \in KeyFiles
           /\ rot' = [pc |-> "rows", old |-> old, new |-> new, todo |-> Rows, table |-> row]
    BY DEF BeginRotation, Files, KeyFiles
  <1> QED BY <1>2, <1>3, <1>4

(* A rotation refuses what is not a stored key.                            *)
LEMMA NoRowRefused ==
  ASSUME NEW old, NEW new
  PROVE  rewrap(old, new, NoRow) = NoRow
  <1>1. NoRow.by = <<None>> /\ <<None>> # <<>> /\ (old # None => <<None>> # <<old>>)
    BY DEF NoRow
  <1>2. old # None => ~unwrap(old, NoRow).ok
    BY <1>1 DEF unwrap, Failed
  <1> QED BY <1>1, <1>2 DEF rewrap

(* A rotation that ends before its commit leaves everything as it was.     *)
LEMMA RolledBack ==
  ASSUME Inv, rot' = Idle, rot.pc = "report" => unreported', unreported => unreported',
         unreported' \in BOOLEAN,
         UNCHANGED <<row, issued, blob, reader, got, conf, server, rotations, strayed>>
  PROVE  Inv'
  <1> USE DEF Inv
  <1>1. TypeInv'
    BY IdleTyped DEF TypeInv, TypeOK
  <1>2. RotationInv'
    BY IdleTyped DEF RotationInv
  <1>3. TableInv'
    BY IdleTyped DEF TableInv, OpensAll
  <1> QED BY <1>1, <1>2, <1>3

LEMMA RewriteRowKeeps ==
  ASSUME Inv, NEW u \in Uploads, RewriteRow(u)
  PROVE  Inv'
  <1> USE DEF Inv
  <1>1. PICK next : next = rewrap(rot.old, rot.new, rot.table[u])
    OBVIOUS
  <1>2. /\ rot.pc = "rows" /\ rot' = IF next # NoRow THEN [rot EXCEPT !.todo = @ \ {u}, !.table[u] = next] ELSE Idle
        /\ UNCHANGED <<row, issued, blob, reader, got, conf, server, rotations, unreported, strayed>>
    BY <1>1 DEF RewriteRow
  <1>3. rot \in [pc : {"idle", "rows", "report"}, old : KeyFiles, new : KeyFiles,
                 todo : SUBSET Uploads, table : [Uploads -> StoredKeys]]
    BY DEF TypeInv
  <1>4. CASE next = NoRow
    BY <1>2, <1>4, RolledBack DEF TypeInv, TypeOK
  <1>5. CASE next # NoRow
    <2>1. rot.old \in KeyFiles /\ rot.new \in KeyFiles /\ rot.table[u] \in StoredKeys
      BY <1>3
    <2>2. next \in StoredKeys /\ opened(rot.new, next).ok
      BY <1>1, <1>5, <2>1, NoRowRefused, Rewrapped
    <2>3. rot' = [rot EXCEPT !.todo = rot.todo \ {u}, !.table = [rot.table EXCEPT ![u] = next]]
      BY <1>2, <1>3, <1>5
    <2>4. /\ rot'.pc = "rows" /\ rot'.new = rot.new /\ rot'.todo = rot.todo \ {u}
          /\ rot'.table = [rot.table EXCEPT ![u] = next]
      BY <1>2, <1>3, <2>3
    <2>5. [rot.table EXCEPT ![u] = next] \in [Uploads -> StoredKeys]
      BY <1>3, <2>2
    <2>6. rot' \in [pc : {"idle", "rows", "report"}, old : KeyFiles, new : KeyFiles,
                    todo : SUBSET Uploads, table : [Uploads -> StoredKeys]]
      BY <1>3, <2>3, <2>5
    <2>7. rot'.todo \subseteq Uploads
      BY <1>3, <2>4
    <2>8. TypeInv'
      BY <1>2, <2>4, <2>6, <2>7 DEF TypeInv, TypeOK
    <2>9. \A v \in Uploads : rot'.table[v] # NoRow /\ v \notin rot'.todo => opened(rot'.new, rot'.table[v]).ok
      <3> TAKE v \in Uploads
      <3>1. CASE v = u
        BY <1>3, <2>2, <2>4, <3>1
      <3>2. CASE v # u
        <4>1. rot'.table[v] = rot.table[v] /\ (v \in rot'.todo <=> v \in rot.todo)
          BY <1>3, <2>4, <3>2
        <4> QED BY <1>2, <2>4, <4>1 DEF RotationInv
      <3> QED BY <3>1, <3>2
    <2>10. RotationInv'
      BY <1>2, <2>4, <2>9 DEF RotationInv
    <2>11. TableInv'
      BY <1>2, <2>4 DEF TableInv, OpensAll
    <2> QED BY <2>8, <2>10, <2>11
  <1> QED BY <1>4, <1>5

LEMMA CommitRotationKeeps ==
  ASSUME Inv, CommitRotation
  PROVE  Inv'
  <1> USE DEF Inv
  <1>1. rot \in [pc : {"idle", "rows", "report"}, old : KeyFiles, new : KeyFiles,
                 todo : SUBSET Uploads, table : [Uploads -> StoredKeys]]
    BY DEF TypeInv
  <1>2. rot' = [rot EXCEPT !.pc = "report"] /\ row' = rot.table
    BY DEF CommitRotation
  <1>3. rot'.pc = "report" /\ rot'.new = rot.new /\ rot'.todo = rot.todo
    BY <1>1, <1>2
  <1>4. rot' \in [pc : {"idle", "rows", "report"}, old : KeyFiles, new : KeyFiles,
                  todo : SUBSET Uploads, table : [Uploads -> StoredKeys]]
    BY <1>1, <1>2
  <1>5. row' \in [Uploads -> StoredKeys] /\ rot'.todo \subseteq Uploads
    BY <1>1, <1>2, <1>3
  <1>6. TypeInv'
    BY <1>3, <1>4, <1>5 DEF CommitRotation, TypeInv, TypeOK
  <1>7. OpensAll(rot.new, row')
    BY <1>2 DEF CommitRotation, RotationInv, OpensAll
  <1>8. RotationInv'
    BY <1>3, <1>7 DEF RotationInv, CommitRotation, OpensAll
  <1>9. rot.new \in KeyFiles
    BY <1>1
  <1>10. TableInv'
    BY <1>3, <1>7, <1>9 DEF TableInv, CommitRotation, OpensAll
  <1> QED BY <1>6, <1>8, <1>10

LEMMA AdoptKeeps ==
  ASSUME Inv, Adopt
  PROVE  Inv'
  <1> USE DEF Inv
  <1>1. rot.new \in KeyFiles
    BY DEF TypeInv
  <1>2. TypeInv'
    BY <1>1, IdleTyped DEF TypeInv, TypeOK, Adopt, KeyFiles
  <1>3. RotationInv'
    BY IdleTyped DEF RotationInv, Adopt
  <1>4. TableInv'
    BY <1>1, IdleTyped DEF TableInv, RotationInv, OpensAll, Adopt
  <1> QED BY <1>2, <1>3, <1>4

LEMMA RotationDiesKeeps ==
  ASSUME Inv, RotationDies
  PROVE  Inv'
  BY RolledBack DEF RotationDies

LEMMA StutterKeeps ==
  ASSUME Inv, UNCHANGED vars
  PROVE  Inv'
  <1>1. TypeInv'
    BY DEF Inv, TypeInv, TypeOK, IsSeq, vars
  <1>2. RotationInv' /\ TableInv'
    BY RotationSame, TableSame DEF Inv, vars
  <1> QED BY <1>1, <1>2 DEF Inv

-----------------------------------------------------------------------------
LEMMA StepKeeps == Inv /\ [Next]_vars => Inv'
  <1> SUFFICES ASSUME Inv, [Next]_vars PROVE Inv'
    OBVIOUS
  <1>1. CASE StartServer
    BY <1>1, StartServerKeeps
  <1>2. CASE StopServer
    BY <1>2, StopServerKeeps
  <1>3. ASSUME NEW u \in Uploads, Create(u) PROVE Inv'
    BY <1>3, CreateKeeps
  <1>4. ASSUME NEW u \in Uploads, Open(u) PROVE Inv'
    BY <1>4, OpenKeeps
  <1>5. ASSUME NEW u \in Uploads, RewriteRow(u) PROVE Inv'
    BY <1>5, RewriteRowKeeps
  <1>6. ASSUME NEW u \in Uploads, NEW n \in 1 .. Size, WriteChunk(u, n) PROVE Inv'
    BY <1>6, WriteChunkKeeps
  <1>7. ASSUME NEW p \in 0 .. Size, Seek(p) PROVE Inv'
    BY <1>7, SeekKeeps
  <1>8. ASSUME NEW n \in 1 .. Size, Read(n) PROVE Inv'
    BY <1>8, ReadKeeps
  <1>9. CASE Close
    BY <1>9, CloseKeeps
  <1>10. ASSUME NEW m \in MasterKeys, TurnOn(m) PROVE Inv'
    BY <1>10, TurnOnKeeps
  <1>11. ASSUME NEW old \in Files, NEW new \in Files, BeginRotation(old, new) PROVE Inv'
    BY <1>11, BeginRotationKeeps
  <1>12. CASE CommitRotation
    BY <1>12, CommitRotationKeeps
  <1>13. CASE Adopt
    BY <1>13, AdoptKeeps
  <1>14. CASE RotationDies
    BY <1>14, RotationDiesKeeps
  <1>15. CASE UNCHANGED vars
    BY <1>15, StutterKeeps
  <1> QED BY <1>1, <1>2, <1>3, <1>4, <1>5, <1>6, <1>7, <1>8, <1>9, <1>10, <1>11, <1>12, <1>13,
             <1>14, <1>15 DEF Next

LEMMA Invariance == Spec => []Inv
  BY InitInv, StepKeeps, PTL DEF Spec

(* Every variable keeps its type: a blob never outgrows its upload and a   *)
(* reader never leaves it (shred.go), a rotation names keys and rows that  *)
(* exist (rekey.go).                                                       *)
THEOREM TypeCorrect == Spec => []TypeOK
  <1>1. Inv => TypeOK
    BY DEF Inv, TypeInv
  <1> QED BY <1>1, Invariance, PTL

(* Between rotations the configured key opens every stored key, unless one *)
(* took effect and died before it said so; and some key always does, until *)
(* an instance started with another creates an upload (masterkey.go unwrap *)
(* and Create, rekey.go rewrap and its one transaction, the rotation       *)
(* command of cmd/sendan/masterkey.go).                                    *)
THEOREM RotationsSafe == Spec => []TableReadable
  <1>1. Inv => TableReadable
    BY DEF Inv, TableInv, TableReadable, KeyFiles, TypeInv, TypeOK
  <1> QED BY <1>1, Invariance, PTL

-----------------------------------------------------------------------------
(* Keys and the bytes they hide.                                           *)

LEMMA OpenedKey ==
  ASSUME NEW m, NEW s, opened(m, s).ok
  PROVE  opened(m, s).key = s.key
  BY DEF opened, unwrap, Got, Failed

(* A row's key, and where its key stream begins.                           *)
LEMMA RowKey ==
  ASSUME Inv, NEW u \in Uploads, row[u] # NoRow
  PROVE  row[u].key \in Keys /\ IV(row[u].key) \in Counter
  <1>1. row[u] \in StoredKeys
    BY DEF Inv, TypeInv, TypeOK
  <1>2. row[u].key \in Keys
    BY <1>1, KeyOf
  <1> QED BY <1>2, AtRestAssumption DEF AtRestAssumption

(* No row goes away, and none changes its key.                             *)
KeysKept == \A u \in Uploads : row[u] # NoRow => row'[u] # NoRow /\ row'[u].key = row[u].key

Streaming == KeyInv /\ BlobInv /\ ReaderInv /\ ReadsWhatWasWritten

LEMMA BlobsKept ==
  ASSUME BlobInv, KeysKept, UNCHANGED blob
  PROVE  BlobInv'
  <1> SUFFICES ASSUME NEW u \in Uploads, NEW i \in 1 .. Len(blob[u]) PROVE Hidden(u, i, blob[u][i])'
    BY DEF BlobInv
  <1>1. Hidden(u, i, blob[u][i])
    BY DEF BlobInv
  <1>2. row'[u] # NoRow /\ row'[u].key = row[u].key
    BY <1>1 DEF Hidden, KeysKept
  <1> QED BY <1>1, <1>2 DEF Hidden

LEMMA ReaderKept ==
  ASSUME ReaderInv, KeysKept, UNCHANGED blob, reader' = reader \/ reader' = Closed
  PROVE  ReaderInv'
  <1>1. CASE reader' = Closed
    BY <1>1 DEF ReaderInv, Closed
  <1>2. CASE reader' = reader /\ reader # Closed
    <2>1. /\ reader.of \in Uploads /\ row[reader.of] # NoRow /\ Len(blob[reader.of]) = Size
          /\ reader.key = row[reader.of].key /\ reader.skip <= reader.offset
          /\ StandsAt(IV(reader.key), reader.stream, reader.offset - reader.skip)
      BY <1>2 DEF ReaderInv
    <2>2. row'[reader.of] # NoRow /\ row'[reader.of].key = row[reader.of].key
      BY <2>1 DEF KeysKept
    <2> QED BY <1>2, <2>1, <2>2 DEF ReaderInv
  <1> QED BY <1>1, <1>2

LEMMA GotKept ==
  ASSUME ReadsWhatWasWritten, got' = got \/ got' = Nothing
  PROVE  ReadsWhatWasWritten'
  BY DEF ReadsWhatWasWritten, Nothing

LEMMA Settled ==
  ASSUME Streaming, KeyInv', KeysKept, UNCHANGED blob,
         reader' = reader \/ reader' = Closed, got' = got \/ got' = Nothing
  PROVE  Streaming'
  BY BlobsKept, ReaderKept, GotKept DEF Streaming

(* Steps that leave the table alone.                                       *)
LEMMA TableKept ==
  ASSUME KeyInv, UNCHANGED <<row, issued>>, rot' = rot \/ rot'.pc # "rows"
  PROVE  KeyInv' /\ KeysKept
  BY DEF KeyInv, KeysKept

LEMMA InitStreaming == Init => Streaming
  <1> SUFFICES ASSUME Init PROVE Streaming
    OBVIOUS
  <1>1. \A u \in Uploads : row[u] = NoRow /\ blob[u] = <<>> /\ Len(blob[u]) = 0
    BY DEF Init
  <1>2. KeyInv
    BY <1>1 DEF Init, KeyInv, Idle
  <1>3. BlobInv
    BY <1>1 DEF BlobInv
  <1>4. ReaderInv /\ ReadsWhatWasWritten
    BY DEF Init, ReaderInv, ReadsWhatWasWritten, Nothing
  <1> QED BY <1>2, <1>3, <1>4 DEF Streaming

LEMMA CreateStreaming ==
  ASSUME Inv, Streaming, NEW u \in Uploads, Create(u)
  PROVE  Streaming'
  <1>1. PICK k \in Keys \ issued : row' = [row EXCEPT ![u] = Stored(server, k)] /\ issued' = issued \cup {k}
    BY DEF Create, NewAtRestKey
  <1>2. row \in [Uploads -> StoredKeys] /\ row[u] = NoRow /\ rot.pc = "idle" /\ rot' = rot
    BY DEF Create, Inv, TypeInv, TypeOK, RotationInv
  <1>3. row'[u] = Stored(server, k) /\ \A v \in Uploads \ {u} : row'[v] = row[v]
    BY <1>1, <1>2
  <1>4. row'[u].key = k
    BY <1>3, WrapIs DEF Stored
  <1>5. KeysKept
    BY <1>2, <1>3 DEF KeysKept
  <1>6. \A v \in Uploads : row[v] # NoRow => row[v].key \in issued
    BY DEF Streaming, KeyInv
  <1>7. \A v, w \in Uploads : row'[v] # NoRow /\ row'[w] # NoRow /\ row'[v].key = row'[w].key => v = w
    <2> SUFFICES ASSUME NEW v \in Uploads, NEW w \in Uploads, row'[v] # NoRow, row'[w] # NoRow,
                        row'[v].key = row'[w].key
                 PROVE  v = w
      OBVIOUS
    <2>1. CASE v = u /\ w # u
      BY <1>1, <1>3, <1>4, <1>6, <2>1
    <2>2. CASE v # u /\ w = u
      BY <1>1, <1>3, <1>4, <1>6, <2>2
    <2>3. CASE v # u /\ w # u
      BY <1>3, <2>3 DEF Streaming, KeyInv
    <2> QED BY <2>1, <2>2, <2>3
  <1>8. \A v \in Uploads : row'[v] # NoRow => row'[v].key \in issued'
    BY <1>1, <1>3, <1>4, <1>6
  <1>9. KeyInv'
    BY <1>2, <1>7, <1>8 DEF KeyInv
  <1> QED BY <1>5, <1>9, Settled DEF Create

LEMMA BeginStreaming ==
  ASSUME Inv, Streaming, NEW old \in Files, NEW new \in Files, BeginRotation(old, new)
  PROVE  Streaming'
  <1>1. KeysKept
    BY DEF BeginRotation, KeysKept
  <1>2. KeyInv'
    <2>1. rot' = rot \/ rot'.table = row
      BY DEF BeginRotation
    <2> QED BY <2>1 DEF BeginRotation, KeyInv, Streaming
  <1> QED BY <1>1, <1>2, Settled DEF BeginRotation

(* A rotation rewraps a key and does not change it.                        *)
LEMMA RewrapKey ==
  ASSUME NEW old, NEW new, NEW s, rewrap(old, new, s) # NoRow
  PROVE  rewrap(old, new, s).key = s.key
  <1>1. rewrap(old, new, s) = Stored(new, s.key)
    BY DEF rewrap, Stored
  <1> QED BY <1>1, WrapIs DEF Stored

LEMMA RewriteStreaming ==
  ASSUME Inv, Streaming, NEW u \in Uploads, RewriteRow(u)
  PROVE  Streaming'
  <1>1. PICK next : next = rewrap(rot.old, rot.new, rot.table[u])
    OBVIOUS
  <1>2. /\ rot.pc = "rows"
        /\ rot' = IF next # NoRow THEN [rot EXCEPT !.todo = @ \ {u}, !.table[u] = next] ELSE Idle
        /\ UNCHANGED <<row, issued, blob, reader, got>>
    BY <1>1 DEF RewriteRow
  <1>3. rot \in [pc : {"idle", "rows", "report"}, old : KeyFiles, new : KeyFiles,
                 todo : SUBSET Uploads, table : [Uploads -> StoredKeys]]
    BY DEF Inv, TypeInv
  <1>4. KeysKept
    BY <1>2 DEF KeysKept
  <1>5. CASE next = NoRow
    <2>1. rot'.pc # "rows"
      BY <1>2, <1>5 DEF Idle
    <2> QED BY <1>2, <2>1, TableKept, Settled DEF Streaming
  <1>6. CASE next # NoRow
    <2>1. rot.table[u] # NoRow /\ next.key = rot.table[u].key
      BY <1>1, <1>6, NoRowRefused, RewrapKey
    <2>2. rot' = [rot EXCEPT !.todo = rot.todo \ {u}, !.table = [rot.table EXCEPT ![u] = next]]
      BY <1>2, <1>3, <1>6
    <2>3. rot'.table = [rot.table EXCEPT ![u] = next]
      BY <1>3, <2>2
    <2>4. rot'.table[u] = next /\ \A v \in Uploads \ {u} : rot'.table[v] = rot.table[v]
      BY <1>3, <2>3
    <2>5. \A v \in Uploads : (rot'.table[v] = NoRow <=> row[v] = NoRow) /\ rot'.table[v].key = row[v].key
      BY <1>2, <1>6, <2>1, <2>4 DEF Streaming, KeyInv
    <2>6. KeyInv'
      BY <1>2, <2>5 DEF Streaming, KeyInv
    <2> QED BY <1>2, <1>4, <2>6, Settled
  <1> QED BY <1>5, <1>6

LEMMA CommitStreaming ==
  ASSUME Inv, Streaming, CommitRotation
  PROVE  Streaming'
  <1>1. rot \in [pc : {"idle", "rows", "report"}, old : KeyFiles, new : KeyFiles,
                 todo : SUBSET Uploads, table : [Uploads -> StoredKeys]]
    BY DEF Inv, TypeInv
  <1>2. rot' = [rot EXCEPT !.pc = "report"] /\ row' = rot.table /\ UNCHANGED <<issued, blob, reader, got>>
    BY DEF CommitRotation
  <1>3. rot'.pc = "report"
    BY <1>1, <1>2
  <1>4. \A u \in Uploads : (row'[u] = NoRow <=> row[u] = NoRow) /\ row'[u].key = row[u].key
    BY <1>2 DEF Streaming, KeyInv, CommitRotation
  <1>5. KeysKept
    BY <1>4 DEF KeysKept
  <1>6. KeyInv'
    BY <1>2, <1>3, <1>4 DEF Streaming, KeyInv
  <1> QED BY <1>2, <1>5, <1>6, Settled

LEMMA WriteStreaming ==
  ASSUME Inv, Streaming, NEW u \in Uploads, NEW n \in 1 .. Size, WriteChunk(u, n)
  PROVE  Streaming'
  <1>1. PICK key, start : key = opened(server, row[u]) /\ start = Len(blob[u])
    OBVIOUS
  <1>2. PICK ctr : ctr = Advance(streamAt(IV(key.key), start), blockOffset(start).skip).stream
    OBVIOUS
  <1>3. PICK units : units = Advance(ctr, n).units
    OBVIOUS
  <1>4. PICK chunk : chunk = [i \in 1 .. n |-> [plain |-> <<u, start + i>>, unit |-> <<key.key, units[i]>>]]
    OBVIOUS
  <1>5. /\ blob' = [blob EXCEPT ![u] = blob[u] \o chunk]
        /\ row[u] # NoRow /\ key.ok /\ start + n <= Size
        /\ UNCHANGED <<row, issued, reader, got, rot>>
    BY <1>1, <1>2, <1>3, <1>4 DEF WriteChunk
  <1>6. PICK k \in Keys : k = row[u].key /\ k = key.key /\ IV(k) \in Counter
    BY <1>1, <1>5, RowKey, OpenedKey
  <1>7. IsSeq(blob[u]) /\ start \in Nat /\ n \in Nat /\ blob \in [Uploads -> {blob[v] : v \in Uploads}]
    BY <1>1, AtRestAssumption DEF Inv, TypeInv, IsSeq, AtRestAssumption
  <1>8. PICK p \in Nat : p = start - blockOffset(start).skip /\ blockOffset(start).skip \in Nat
                         /\ StandsAt(IV(k), streamAt(IV(k), start), p)
    BY <1>6, <1>7, StreamAtStands
  <1>9. StandsAt(IV(k), ctr, start)
    <2>1. PICK skip \in Nat : skip = blockOffset(start).skip /\ p + skip = start
      BY <1>7, <1>8
    <2>2. Walked(IV(k), p, skip, Advance(streamAt(IV(k), start), skip))
      BY <1>6, <1>8, AdvanceStands
    <2> QED BY <1>2, <1>6, <2>1, <2>2 DEF Walked
  <1>10. \A i \in 1 .. n : Covers(IV(k), start + (i - 1), units[i])
    <2>1. Walked(IV(k), start, n, Advance(ctr, n))
      BY <1>6, <1>7, <1>9, AdvanceStands
    <2> QED BY <1>3, <2>1 DEF Walked
  <1>11. blob'[u] = blob[u] \o chunk /\ \A v \in Uploads \ {u} : blob'[v] = blob[v]
    BY <1>5, <1>7
  <1>12. /\ Len(blob'[u]) = start + n
         /\ \A i \in 1 .. start : blob'[u][i] = blob[u][i]
         /\ \A i \in 1 .. n : blob'[u][start + i] = chunk[i]
    <2>1. chunk = [i \in 1 .. n |-> chunk[i]]
      BY <1>4
    <2>2. IsSeq(chunk) /\ Len(chunk) = n
      BY <1>7, <2>1, Counts
    <2>3. PICK S : blob[u] \in Seq(S) /\ chunk \in Seq(S)
      <3> DEFINE S == {blob[u][i] : i \in DOMAIN blob[u]} \cup {chunk[i] : i \in DOMAIN chunk}
      <3>1. blob[u] \in Seq(S) /\ chunk \in Seq(S)
        BY <1>7, <2>2 DEF IsSeq
      <3> QED BY <3>1
    <2>4. PICK b : b = blob[u]
      OBVIOUS
    <2>5. /\ Len(b \o chunk) = Len(b) + Len(chunk)
          /\ \A i \in 1 .. Len(b) : (b \o chunk)[i] = b[i]
          /\ \A i \in 1 .. n : (b \o chunk)[start + i] = chunk[i]
      BY <1>1, <1>7, <2>2, <2>3, <2>4
    <2> QED BY <1>1, <1>11, <2>2, <2>4, <2>5
  <1>13. BlobInv'
    <2> SUFFICES ASSUME NEW v \in Uploads, NEW i \in 1 .. Len(blob'[v]) PROVE Hidden(v, i, blob[v][i])'
      BY DEF BlobInv
    <2>1. CASE v # u
      <3>1. Hidden(v, i, blob[v][i])
        BY <1>11, <2>1 DEF Streaming, BlobInv
      <3> QED BY <1>5, <1>11, <2>1, <3>1 DEF Hidden
    <2>2. CASE v = u /\ i \in 1 .. start
      <3>1. Hidden(v, i, blob[v][i])
        BY <1>1, <2>2 DEF Streaming, BlobInv
      <3> QED BY <1>5, <1>12, <2>2, <3>1, ZenonT(40) DEF Hidden
    <2>3. CASE v = u /\ i \in start + 1 .. start + n
      <3>1. PICK j \in 1 .. n : i = start + j
        <4>1. i - start \in 1 .. n /\ i = start + (i - start)
          BY <1>7, <2>3
        <4> QED BY <4>1
      <3>2. PICK b : b = blob'[v][i]
        OBVIOUS
      <3>3. b = [plain |-> <<u, i>>, unit |-> <<k, units[j]>>]
        BY <1>4, <1>6, <1>12, <2>3, <3>1, <3>2
      <3>4. b.plain = <<u, i>> /\ b.unit = <<k, units[j]>>
        BY <3>3
      <3>5. start + (j - 1) = i - 1
        BY <1>7, <3>1
      <3>6. PICK s \in Streams : StandsAt(IV(k), s, i - 1) /\ units[j] = <<s.counter, s.used>>
        BY <1>10, <3>5 DEF Covers
      <3>7. row' = row
        BY <1>5
      <3> QED BY <1>5, <1>6, <2>3, <3>2, <3>4, <3>6, <3>7 DEF Hidden, Streams
    <2>4. v # u \/ i \in 1 .. start \/ i \in start + 1 .. start + n
      BY <1>7, <1>12
    <2> QED BY <2>1, <2>2, <2>3, <2>4
  <1>14. ReaderInv'
    <2>1. CASE reader = Closed
      BY <1>5, <2>1 DEF ReaderInv, Closed
    <2>2. CASE reader # Closed
      <3>1. /\ reader.of \in Uploads /\ row[reader.of] # NoRow /\ Len(blob[reader.of]) = Size
            /\ reader.key = row[reader.of].key /\ reader.skip <= reader.offset
            /\ StandsAt(IV(reader.key), reader.stream, reader.offset - reader.skip)
        BY <2>2 DEF Streaming, ReaderInv
      <3>2. reader.of # u
        BY <1>1, <1>5, <1>7, <3>1, AtRestAssumption DEF AtRestAssumption
      <3>3. blob'[reader.of] = blob[reader.of]
        BY <1>11, <3>1, <3>2
      <3> QED BY <1>5, <3>1, <3>3 DEF ReaderInv
    <2> QED BY <2>1, <2>2
  <1>15. KeyInv' /\ ReadsWhatWasWritten'
    BY <1>5, TableKept, GotKept DEF Streaming
  <1> QED BY <1>13, <1>14, <1>15 DEF Streaming

(* A reader rebuilt anywhere in a whole blob.                              *)
LEMMA ReseekStreaming ==
  ASSUME Inv, Streaming, NEW r, NEW p \in 0 .. Size,
         r \in [of : Uploads \cup {None}, key : {r.key}, stream : {r.stream},
                skip : 0 .. BlockSize - 1, offset : 0 .. Size],
         r.of \in Uploads, row[r.of] # NoRow, Len(blob[r.of]) = Size, r.key = row[r.of].key,
         reader' = reseek(r, p), UNCHANGED <<row, issued, blob, got, rot>>
  PROVE  Streaming'
  <1>1. p \in Nat
    BY AtRestAssumption DEF AtRestAssumption
  <1>2. PICK k \in Keys : k = r.key /\ IV(k) \in Counter
    BY RowKey
  <1> DEFINE s == streamAt(IV(k), p)
  <1>3. PICK skip \in Nat :
          skip = blockOffset(p).skip /\ skip <= p /\ StandsAt(IV(k), s, p - skip)
    BY <1>1, <1>2, StreamAtStands
  <1>4. reader' = [r EXCEPT !.stream = s, !.skip = skip, !.offset = p]
    BY <1>2, <1>3 DEF reseek
  <1> HIDE DEF s
  <1>5. /\ reader'.of = r.of /\ reader'.key = k /\ reader'.stream = s /\ reader'.skip = skip
        /\ reader'.offset = p
    BY <1>2, <1>4
  <1>6. ReaderInv'
    BY <1>2, <1>3, <1>5 DEF ReaderInv
  <1>7. KeyInv' /\ KeysKept
    BY TableKept DEF Streaming
  <1>8. BlobInv' /\ ReadsWhatWasWritten'
    BY <1>7, BlobsKept, GotKept DEF Streaming
  <1> QED BY <1>6, <1>7, <1>8 DEF Streaming

LEMMA OpenStreaming ==
  ASSUME Inv, Streaming, NEW u \in Uploads, Open(u)
  PROVE  Streaming'
  <1>1. PICK key : key = opened(server, row[u]).key
    OBVIOUS
  <1>2. PICK r : r = [Closed EXCEPT !.of = u, !.key = key]
    OBVIOUS
  <1>3. r \in [of : Uploads \cup {None}, key : {r.key}, stream : {r.stream},
               skip : 0 .. BlockSize - 1, offset : 0 .. Size]
    BY <1>2, ClosedTyped DEF Closed
  <1>4. r.of = u /\ r.key = key
    BY <1>2 DEF Closed
  <1>5. row[u] # NoRow /\ Len(blob[u]) = Size /\ key = row[u].key
    BY <1>1, OpenedKey DEF Open
  <1>6. reader' = reseek(r, 0) /\ UNCHANGED <<row, issued, blob, got, rot>>
    BY <1>1, <1>2 DEF Open
  <1>7. PICK z \in 0 .. Size : z = 0
    BY ClosedTyped
  <1> QED BY <1>3, <1>4, <1>5, <1>6, <1>7, ReseekStreaming

LEMMA SeekStreaming ==
  ASSUME Inv, Streaming, NEW p \in 0 .. Size, Seek(p)
  PROVE  Streaming'
  <1>1. reader \in [of : Uploads \cup {None}, key : {reader.key}, stream : {reader.stream},
                    skip : 0 .. BlockSize - 1, offset : 0 .. Size]
    BY DEF Inv, TypeInv
  <1>2. /\ reader.of \in Uploads /\ row[reader.of] # NoRow /\ Len(blob[reader.of]) = Size
        /\ reader.key = row[reader.of].key
    BY DEF Seek, Streaming, ReaderInv
  <1>3. reader' = reseek(reader, p) /\ UNCHANGED <<row, issued, blob, got, rot>>
    BY DEF Seek
  <1> QED BY <1>1, <1>2, <1>3, ReseekStreaming

(* The reader's key stream meets the writer's at every byte it takes.      *)
LEMMA ReadStreaming ==
  ASSUME Inv, Streaming, NEW n \in 1 .. Size, Read(n)
  PROVE  Streaming'
  <1>1. reader \in [of : Uploads \cup {None}, key : {reader.key}, stream : {reader.stream},
                    skip : 0 .. BlockSize - 1, offset : 0 .. Size]
    BY DEF Inv, TypeInv
  <1>2. /\ reader.of \in Uploads /\ row[reader.of] # NoRow /\ Len(blob[reader.of]) = Size
        /\ reader.key = row[reader.of].key /\ reader.skip <= reader.offset
        /\ StandsAt(IV(reader.key), reader.stream, reader.offset - reader.skip)
    BY DEF Read, Streaming, ReaderInv
  <1>3. PICK of \in Uploads, k \in Keys : of = reader.of /\ k = reader.key /\ IV(k) \in Counter
    BY <1>2, RowKey
  <1>4. PICK at \in Nat, skip \in Nat : at = reader.offset /\ skip = reader.skip /\ at <= Size
    BY <1>1, AtRestAssumption, CounterAssumption DEF AtRestAssumption, CounterAssumption
  <1>5. PICK count \in Nat : count = (IF n < Size - at THEN n ELSE Size - at) /\ at + count <= Size
    BY <1>4, AtRestAssumption DEF AtRestAssumption
  <1>6. PICK ctr : ctr = Advance(reader.stream, skip).stream
    OBVIOUS
  <1>7. PICK next : next = Advance(ctr, count)
    OBVIOUS
  <1>8. StandsAt(IV(k), ctr, at)
    <2>1. PICK p \in Nat : p = at - skip /\ p + skip = at
      BY <1>2, <1>4
    <2>2. Walked(IV(k), p, skip, Advance(reader.stream, skip))
      BY <1>2, <1>3, <1>4, <2>1, AdvanceStands
    <2> QED BY <1>6, <2>1, <2>2 DEF Walked
  <1>9. Walked(IV(k), at, count, next)
    BY <1>3, <1>7, <1>8, AdvanceStands
  <1>10. /\ got' = [of |-> of, at |-> at, bytes |-> [i \in 1 .. count |->
                      LET b == blob[of][at + i] IN
                      IF b.unit = <<k, next.units[i]>> THEN b.plain ELSE Noise]]
         /\ reader' = [reader EXCEPT !.stream = next.stream, !.skip = 0, !.offset = at + count]
         /\ UNCHANGED <<row, issued, blob, rot>>
    BY <1>3, <1>4, <1>5, <1>6, <1>7 DEF Read
  <1>11. ReadsWhatWasWritten'
    <2>1. /\ got'.of = of /\ got'.at = at /\ DOMAIN got'.bytes = 1 .. count
          /\ \A i \in 1 .. count : got'.bytes[i] =
               IF blob[of][at + i].unit = <<k, next.units[i]>> THEN blob[of][at + i].plain ELSE Noise
      BY <1>10
    <2>2. ASSUME NEW i \in 1 .. count PROVE got'.bytes[i] = <<of, at + i>>
      <3>1. PICK j \in Nat : j = at + i /\ j \in 1 .. Len(blob[of]) /\ j - 1 = at + (i - 1) /\ j - 1 \in Nat
        <4>1. Len(blob[of]) = Size /\ Size \in Nat
          BY <1>2, <1>3, AtRestAssumption DEF AtRestAssumption
        <4>2. at + i \in 1 .. Size /\ (at + i) - 1 = at + (i - 1) /\ (at + i) - 1 \in Nat
          BY <1>5, <4>1
        <4> QED BY <4>1, <4>2
      <3>2. PICK b : b = blob[of][j]
        OBVIOUS
      <3>3. Hidden(of, j, b)
        BY <3>1, <3>2 DEF Streaming, BlobInv
      <3>4. PICK s \in Streams : StandsAt(IV(k), s, j - 1) /\ b.unit = <<k, <<s.counter, s.used>>>>
        BY <1>2, <1>3, <3>3 DEF Hidden, Streams
      <3>5. PICK t \in Streams : StandsAt(IV(k), t, j - 1) /\ next.units[i] = <<t.counter, t.used>>
        BY <1>9, <3>1 DEF Walked, Covers
      <3>6. s = t
        BY <1>3, <3>4, <3>5, SamePlace
      <3>7. b.unit = <<k, next.units[i]>> /\ b.plain = <<of, j>>
        BY <3>3, <3>4, <3>5, <3>6 DEF Hidden
      <3> QED BY <2>1, <3>1, <3>2, <3>7
    <2> QED BY <2>1, <2>2 DEF ReadsWhatWasWritten
  <1>12. ReaderInv'
    <2> DEFINE s == next.stream
    <2>1. PICK c \in Nat : c = at + count
      OBVIOUS
    <2>2. StandsAt(IV(k), s, c)
      BY <1>9, <2>1 DEF Walked
    <2>3. reader' = [reader EXCEPT !.stream = s, !.skip = 0, !.offset = c]
      BY <1>10, <2>1
    <2> HIDE DEF s
    <2>4. /\ reader'.of = of /\ reader'.key = k /\ reader'.stream = s /\ reader'.skip = 0
          /\ reader'.offset = c
      BY <1>1, <1>3, <2>3
    <2>5. c - 0 = c /\ 0 <= c
      OBVIOUS
    <2> QED BY <1>2, <1>3, <1>10, <2>2, <2>4, <2>5 DEF ReaderInv
  <1>13. KeyInv' /\ KeysKept
    BY <1>10, TableKept DEF Streaming
  <1>14. BlobInv'
    BY <1>10, <1>13, BlobsKept DEF Streaming
  <1> QED BY <1>11, <1>12, <1>13, <1>14 DEF Streaming

LEMMA StepStreaming == Inv /\ Streaming /\ [Next]_vars => Streaming'
  <1> SUFFICES ASSUME Inv, Streaming, [Next]_vars PROVE Streaming'
    OBVIOUS
  <1>1. CASE StartServer \/ StopServer \/ Close \/ \E m \in MasterKeys : TurnOn(m)
    <2>1. UNCHANGED <<row, issued, blob, rot>> /\ reader' \in {reader, Closed} /\ got' \in {got, Nothing}
      BY <1>1 DEF StartServer, StopServer, Close, TurnOn
    <2> QED BY <2>1, TableKept, Settled DEF Streaming
  <1>2. CASE Adopt \/ RotationDies
    <2>1. UNCHANGED <<row, issued, blob, reader, got>> /\ rot'.pc # "rows"
      BY <1>2 DEF Adopt, RotationDies, Idle
    <2> QED BY <2>1, TableKept, Settled DEF Streaming
  <1>3. ASSUME NEW u \in Uploads, Create(u) PROVE Streaming'
    BY <1>3, CreateStreaming
  <1>4. ASSUME NEW u \in Uploads, Open(u) PROVE Streaming'
    BY <1>4, OpenStreaming
  <1>5. ASSUME NEW u \in Uploads, RewriteRow(u) PROVE Streaming'
    BY <1>5, RewriteStreaming
  <1>6. ASSUME NEW u \in Uploads, NEW n \in 1 .. Size, WriteChunk(u, n) PROVE Streaming'
    BY <1>6, WriteStreaming
  <1>7. ASSUME NEW p \in 0 .. Size, Seek(p) PROVE Streaming'
    BY <1>7, SeekStreaming
  <1>8. ASSUME NEW n \in 1 .. Size, Read(n) PROVE Streaming'
    BY <1>8, ReadStreaming
  <1>9. ASSUME NEW old \in Files, NEW new \in Files, BeginRotation(old, new) PROVE Streaming'
    BY <1>9, BeginStreaming
  <1>10. CASE CommitRotation
    BY <1>10, CommitStreaming
  <1>11. CASE UNCHANGED vars
    <2>1. UNCHANGED <<row, issued, blob, reader, got, rot>>
      BY <1>11 DEF vars
    <2> QED BY <2>1, TableKept, Settled DEF Streaming
  <1> QED BY <1>1, <1>2, <1>3, <1>4, <1>5, <1>6, <1>7, <1>8, <1>9, <1>10, <1>11 DEF Next

LEMMA StreamInvariance == Spec => []StreamInv
  <1>1. Init => StreamInv
    BY InitInv, InitStreaming DEF StreamInv, Streaming
  <1>2. StreamInv /\ [Next]_vars => StreamInv'
    BY StepKeeps, StepStreaming DEF StreamInv, Streaming
  <1> QED BY <1>1, <1>2, PTL DEF Spec

(* Whatever the chunks, the seeks and the rotations, and whatever the      *)
(* counter's width, a reader delivers the bytes that were written where it *)
(* reads them (shred.go stream, reseek and Read, incrementCounter's        *)
(* carries against the cipher's own).                                      *)
THEOREM ReadsTrue == Spec => []ReadsWhatWasWritten
  BY StreamInvariance, PTL DEF StreamInv

(* No unit of key stream covers two bytes, of one upload or of two         *)
(* (NewAtRestKey; the counter does not come round within one blob).        *)
THEOREM StreamNeverReused == Spec => []KeyStreamOnce
  <1>1. StreamInv => KeyStreamOnce
    <2> SUFFICES ASSUME StreamInv, NEW u \in Uploads, NEW v \in Uploads,
                        NEW i \in DOMAIN blob[u], NEW j \in DOMAIN blob[v],
                        blob[u][i].unit = blob[v][j].unit
                 PROVE  u = v /\ i = j
      BY DEF KeyStreamOnce
    <2> USE DEF StreamInv
    <2>1. i \in 1 .. Len(blob[u]) /\ j \in 1 .. Len(blob[v]) /\ Len(blob[u]) <= Size /\ Len(blob[v]) <= Size
      BY DEF Inv, TypeInv, TypeOK, IsSeq
    <2>2. Hidden(u, i, blob[u][i]) /\ Hidden(v, j, blob[v][j])
      BY <2>1 DEF BlobInv
    <2>3. PICK s \in Streams : StandsAt(IV(row[u].key), s, i - 1)
                               /\ blob[u][i].unit = <<row[u].key, <<s.counter, s.used>>>>
      BY <2>2 DEF Hidden, Streams
    <2>4. PICK t \in Streams : StandsAt(IV(row[v].key), t, j - 1)
                               /\ blob[v][j].unit = <<row[v].key, <<t.counter, t.used>>>>
      BY <2>2 DEF Hidden, Streams
    <2>5. row[u].key = row[v].key /\ s.counter = t.counter /\ s.used = t.used
      <3>1. <<row[u].key, <<s.counter, s.used>>>> = <<row[v].key, <<t.counter, t.used>>>>
        BY <2>3, <2>4, Zenon
      <3> QED BY <3>1
    <2>6. s = t
      BY <2>5 DEF Streams
    <2>7. u = v
      BY <2>2, <2>5 DEF KeyInv, Hidden
    <2>8. IV(row[u].key) \in Counter
      BY <2>2, RowKey DEF Hidden
    <2>9. PICK p \in Nat, q \in Nat : p = i - 1 /\ q = j - 1 /\ p < Size /\ q < Size
      BY <2>1, AtRestAssumption DEF AtRestAssumption
    <2>10. p < BlockSize * Period /\ q < BlockSize * Period
      <3>1. PICK m \in Nat : m = BlockSize * Period
        BY PeriodType, Sizes
      <3>2. Size <= m /\ Size \in Nat
        BY <3>1, AtRestAssumption DEF AtRestAssumption, Period
      <3> QED BY <2>9, <3>1, <3>2
    <2>11. p = q
      BY <2>3, <2>4, <2>6, <2>7, <2>8, <2>9, <2>10, PlacesApart
    <2> QED BY <2>1, <2>7, <2>9, <2>11
  <1> QED BY <1>1, StreamInvariance, PTL
=============================================================================
