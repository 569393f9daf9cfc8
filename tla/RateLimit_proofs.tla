-------------------------- MODULE RateLimit_proofs --------------------------
(***************************************************************************)
(* The bound on what a limiter admits in any window of time, for any       *)
(* burst, rate and number of requests and in whatever order they reach the *)
(* mutex, and what a refused request is told.                              *)
(***************************************************************************)
EXTENDS RateLimit, TLAPS

-----------------------------------------------------------------------------
(* Arithmetic.                                                             *)

LEMMA Monotone ==
  ASSUME NEW r \in Nat, NEW a \in Int, NEW b \in Int, a <= b
  PROVE  r * a <= r * b
  OBVIOUS

LEMMA Distributes ==
  ASSUME NEW r \in Int, NEW a \in Int, NEW b \in Int
  PROVE  r * (a + b) = r * a + r * b /\ r * a \in Int /\ r * b \in Int
  OBVIOUS

LEMMA Products ==
  ASSUME NEW r \in Int, NEW a \in Int
  PROVE  r * a \in Int /\ (a + 1) * r = a * r + r /\ 0 * r = 0 /\ r * 0 = 0
  OBVIOUS

-----------------------------------------------------------------------------
(* What AllowN makes of a bucket.                                          *)

Stored == [tokens : 0 .. Burst, seen : Nat]

LEMMA StoredIsBucket == NoBucket \notin Stored
<1>1. Stored \subseteq [tokens : Nat, seen : Nat]
  BY LimitAssumption DEF Stored
<1> QED
  BY <1>1, LimitAssumption

LEMMA CreditedType ==
  ASSUME NEW b \in Stored \cup {NoBucket}, NEW t \in Nat
  PROVE  Credited(b, t) \in Stored /\ Credited(b, t).seen = t
<1>1. CASE b = NoBucket
  BY <1>1, LimitAssumption DEF Credited, Stored
<1>2. CASE b \in Stored
  <2>1. b # NoBucket /\ b.tokens \in 0 .. Burst /\ b.seen \in Nat
    BY <1>2, StoredIsBucket DEF Stored
  <2>2. CASE t > b.seen
    <3>1. 0 <= Rate * (t - b.seen) /\ Rate * (t - b.seen) \in Int
      BY <2>1, <2>2, LimitAssumption, Products, Monotone
    <3>2. Level(b, t) \in 0 .. Burst
      BY <2>1, <3>1, LimitAssumption DEF Level, Capped
    <3> QED
      BY <2>1, <2>2, <3>2 DEF Credited, Stored
  <2>3. CASE ~(t > b.seen)
    BY <2>1, <2>3 DEF Credited, Stored
  <2> QED
    BY <2>2, <2>3
<1> QED
  BY <1>1, <1>2

(* The credit is at most the rate times the time that has passed.          *)
LEMMA CreditedBound ==
  ASSUME NEW b \in Stored, NEW t \in Nat, b.seen <= t
  PROVE  Credited(b, t).tokens <= b.tokens + Rate * (t - b.seen)
<1>1. b # NoBucket /\ b.tokens \in 0 .. Burst /\ b.seen \in Nat
  BY StoredIsBucket DEF Stored
<1>2. CASE t > b.seen
  <2>1. Rate * (t - b.seen) \in Int
    BY <1>1, LimitAssumption, Products
  <2>2. Credited(b, t).tokens = Level(b, t)
    BY <1>1, <1>2 DEF Credited
  <2> QED
    BY <1>1, <2>1, <2>2, LimitAssumption DEF Level, Capped
<1>3. CASE t = b.seen
  <2>1. t - b.seen = 0 /\ Rate * 0 = 0
    BY <1>1, <1>3, LimitAssumption, Products
  <2>2. Credited(b, t).tokens = b.tokens
    BY <1>1, <1>3 DEF Credited
  <2> QED
    BY <1>1, <2>1, <2>2
<1> QED
  BY <1>1, <1>2, <1>3

LEMMA RewindType ==
  ASSUME NEW b \in Stored \cup {NoBucket}, NEW t \in Nat
  PROVE  Rewind(b, t) \in Nat
  BY DEF Rewind, Stored

(* A bucket set back is credited nothing.                                  *)
LEMMA CreditedBack ==
  ASSUME NEW b \in Stored, NEW t \in Nat, t < b.seen
  PROVE  Credited(b, t).tokens = b.tokens /\ Rewind(b, t) = b.seen - t
  BY StoredIsBucket DEF Credited, Rewind, Stored

-----------------------------------------------------------------------------
(* Type correctness.                                                       *)

Busy == [pc : {"allow", "refused", "retry", "answer"}, key : Keys, t : Nat, wait : Nat]

LEMMA RetryType ==
  ASSUME NEW b \in Stored \cup {NoBucket}, NEW t \in Nat
  PROVE  RetryAfterSeconds(Retry(b, t)) \in Nat
<1>1. Retry(b, t) \in Int
  <2>1. CASE b = NoBucket
    BY <2>1 DEF Retry
  <2>2. CASE b \in Stored
    <3>1. b.tokens \in Nat /\ b.seen \in Nat
      BY <2>2 DEF Stored
    <3>2. Rate * (t - b.seen) \in Int
      BY <3>1, LimitAssumption, Products
    <3>3. Level(b, t) \in Int
      BY <3>1, <3>2, LimitAssumption DEF Level, Capped
    <3>4. Token - Level(b, t) \in Int
      BY <3>3, LimitAssumption
    <3>5. (Token - Level(b, t)) \div Rate \in Int
      BY <3>4, LimitAssumption
    <3> QED
      BY <2>2, <3>5, StoredIsBucket DEF Retry
  <2> QED
    BY <2>1, <2>2
<1> HIDE DEF Retry
<1>2. CASE Retry(b, t) <= 0
  BY <1>2 DEF RetryAfterSeconds
<1>3. CASE ~(Retry(b, t) <= 0)
  <2>1. Retry(b, t) + Second - 1 \in Nat
    BY <1>1, <1>3, LimitAssumption
  <2>2. (Retry(b, t) + Second - 1) \div Second \in Nat
    BY <2>1, LimitAssumption
  <2> QED
    BY <1>3, <2>2 DEF RetryAfterSeconds
<1> QED
  BY <1>2, <1>3

(* Every step keeps the type invariant.                                    *)
LEMMA TypeStep == TypeOK /\ [Next]_vars => TypeOK'
<1> SUFFICES ASSUME TypeOK, [Next]_vars PROVE TypeOK'
  OBVIOUS
<1>1. /\ clock \in Nat
      /\ buckets \in [Keys -> Stored \cup {NoBucket}]
      /\ caller \in [Callers -> Busy \cup {Resting}]
      /\ sweeper \in [pc : {"idle", "sweep"}, t : Nat]
      /\ since \in [Keys -> Nat] /\ admitted \in [Keys -> Nat] /\ rewound \in [Keys -> Nat]
  BY DEF TypeOK, Stored, Busy
<1>2. /\ clock' \in Nat
      /\ buckets' \in [Keys -> Stored \cup {NoBucket}]
      /\ caller' \in [Callers -> Busy \cup {Resting}]
      /\ sweeper' \in [pc : {"idle", "sweep"}, t : Nat]
      /\ since' \in [Keys -> Nat] /\ admitted' \in [Keys -> Nat] /\ rewound' \in [Keys -> Nat]
      => TypeOK'
  BY DEF TypeOK, Stored, Busy
<1>3. ASSUME NEW c \in Callers, caller[c].pc # "idle" PROVE caller[c] \in Busy
  BY <1>1, <1>3 DEF Resting
<1>4. ASSUME NEW c \in Callers, NEW k \in Keys, ReadClock(c, k)
      PROVE  TypeOK'
  <2>1. [Resting EXCEPT !.pc = "allow", !.key = k, !.t = clock] \in Busy
    BY <1>1 DEF Resting, Busy
  <2>2. caller' \in [Callers -> Busy \cup {Resting}]
    BY <1>1, <1>4, <2>1 DEF ReadClock
  <2> QED
    BY <1>1, <1>2, <1>4, <2>2 DEF ReadClock, window
<1>5. ASSUME NEW c \in Callers, AllowN(c)
      PROVE  TypeOK'
  <2> DEFINE k == caller[c].key
             t == caller[c].t
             b == Credited(buckets[k], t)
  <2>1. caller[c] \in Busy /\ k \in Keys /\ t \in Nat
    BY <1>3, <1>5 DEF AllowN, Busy
  <2>2. b \in Stored
    BY <1>1, <2>1, CreditedType
  <2>3. [caller[c] EXCEPT !.pc = "refused"] \in Busy
    BY <2>1 DEF Busy
  <2>4. b.tokens >= Token => [b EXCEPT !.tokens = b.tokens - Token] \in Stored
    BY <2>2, LimitAssumption DEF Stored
  <2>5. admitted[k] + 1 \in Nat /\ b.tokens \in Nat
    BY <1>1, <2>1, <2>2 DEF Stored
  <2> DEFINE z == Rewind(buckets[k], t)
  <2>8. rewound' \in [Keys -> Nat]
    <3>1. z \in Nat
      BY <1>1, <2>1, RewindType
    <3>2. rewound' = [rewound EXCEPT ![k] = rewound[k] + z]
      BY <1>5 DEF AllowN
    <3>3. rewound[k] + z \in Nat
      BY <1>1, <2>1, <3>1
    <3> HIDE DEF z, k
    <3> QED
      BY <1>1, <3>2, <3>3
  <2> HIDE DEF b, k, t, z
  <2>6. CASE b.tokens < Token
    <3>1. buckets' = [buckets EXCEPT ![k] = b]
      BY <1>5, <2>6 DEF AllowN, b, k, t
    <3>2. caller' = [caller EXCEPT ![c] = [caller[c] EXCEPT !.pc = "refused"]]
      BY <1>5, <2>6 DEF AllowN, b, k, t
    <3>3. UNCHANGED <<clock, sweeper, since, admitted>>
      BY <1>5, <2>6 DEF AllowN, b, k, t
    <3> QED
      BY <1>1, <1>2, <2>2, <2>3, <2>8, <3>1, <3>2, <3>3
  <2>7. CASE ~(b.tokens < Token)
    <3>1. buckets' = [buckets EXCEPT ![k] = [b EXCEPT !.tokens = b.tokens - Token]]
      BY <1>5, <2>7 DEF AllowN, b, k, t
    <3>2. caller' = [caller EXCEPT ![c] = Resting]
      BY <1>5, <2>7 DEF AllowN, b, k, t
    <3>3. UNCHANGED <<clock, sweeper, since>>
      BY <1>5 DEF AllowN
    <3>4. admitted' = [admitted EXCEPT ![k] = admitted[k] + 1] \/ admitted' = admitted
      BY <1>5, <2>7 DEF AllowN, b, k, t
    <3>5. admitted' \in [Keys -> Nat]
      BY <1>1, <2>5, <3>4
    <3>6. [b EXCEPT !.tokens = b.tokens - Token] \in Stored
      BY <2>4, <2>5, <2>7, LimitAssumption
    <3> QED
      BY <1>1, <1>2, <2>8, <3>1, <3>2, <3>3, <3>5, <3>6
  <2> QED
    BY <2>6, <2>7
<1>6. ASSUME NEW c \in Callers, ReadRetry(c) \/ AskRetry(c) \/ Answer(c)
      PROVE  TypeOK'
  <2>1. caller[c] \in Busy /\ caller[c].key \in Keys /\ caller[c].t \in Nat
    BY <1>3, <1>6 DEF ReadRetry, AskRetry, Answer, Busy
  <2> DEFINE w == RetryAfterSeconds(Retry(buckets[caller[c].key], caller[c].t))
  <2>2. w \in Nat
    BY <1>1, <2>1, RetryType
  <2> HIDE DEF w
  <2>3. \/ caller' = [caller EXCEPT ![c] = [caller[c] EXCEPT !.pc = "retry", !.t = clock]]
        \/ caller' = [caller EXCEPT ![c] = [caller[c] EXCEPT !.pc = "answer", !.wait = w]]
        \/ caller' = [caller EXCEPT ![c] = Resting]
    BY <1>6 DEF ReadRetry, AskRetry, Answer, w
  <2>4. /\ [caller[c] EXCEPT !.pc = "retry", !.t = clock] \in Busy
        /\ [caller[c] EXCEPT !.pc = "answer", !.wait = w] \in Busy
    BY <1>1, <2>1, <2>2 DEF Busy
  <2>5. caller' \in [Callers -> Busy \cup {Resting}]
    BY <1>1, <2>3, <2>4
  <2> QED
    BY <1>1, <1>2, <1>6, <2>5 DEF ReadRetry, AskRetry, Answer, window
<1>7. ASSUME NEW k \in Keys, Forget(k) \/ OpenWindow(k)
      PROVE  TypeOK'
  BY <1>1, <1>2, <1>7 DEF Forget, OpenWindow, Anew
<1>8. ASSUME ReadSweep \/ Sweep \/ Tick
      PROVE  TypeOK'
  BY <1>1, <1>2, <1>8 DEF ReadSweep, Sweep, Anew, Asleep, Tick, window
<1>9. ASSUME UNCHANGED vars
      PROVE  TypeOK'
  BY <1>1, <1>2, <1>9 DEF vars
<1> QED
  BY <1>4, <1>5, <1>6, <1>7, <1>8, <1>9, Zenon DEF Next

-----------------------------------------------------------------------------
(* The clock goes on, and a request holds a reading of its past.           *)
LEMMA ReadingsStep ==
  ASSUME TypeOK, [Next]_vars
  PROVE  /\ clock' \in {clock, clock + 1}
         /\ \A c \in Callers : caller'[c].t \in {caller[c].t, clock, 0}
<1>1. clock' \in {clock, clock + 1}
  BY DEF Next, vars, ReadClock, AllowN, ReadRetry, AskRetry, Answer, Forget, OpenWindow,
         ReadSweep, Sweep, Tick
<1> SUFFICES ASSUME NEW c \in Callers PROVE caller'[c].t \in {caller[c].t, clock, 0}
  BY <1>1
<1>2. c \in DOMAIN caller
  BY DEF TypeOK
<1>3. CASE caller' = caller
  BY <1>3
<1>4. ASSUME NEW d \in Callers, NEW k \in Keys, ReadClock(d, k)
      PROVE  caller'[c].t \in {caller[c].t, clock, 0}
  BY <1>2, <1>4 DEF ReadClock, Resting
<1>5. ASSUME NEW d \in Callers, AllowN(d) \/ ReadRetry(d) \/ AskRetry(d) \/ Answer(d)
      PROVE  caller'[c].t \in {caller[c].t, clock, 0}
  <2> DEFINE w == RetryAfterSeconds(Retry(buckets[caller[d].key], caller[d].t))
  <2> HIDE DEF w
  <2>1. caller[d] \in Busy
    BY <1>5 DEF TypeOK, Busy, Resting, AllowN, ReadRetry, AskRetry, Answer
  <2>2. PICK r : /\ caller' = [caller EXCEPT ![d] = r]
                 /\ \/ r = [caller[d] EXCEPT !.pc = "refused"]
                    \/ r = [caller[d] EXCEPT !.pc = "retry", !.t = clock]
                    \/ r = [caller[d] EXCEPT !.pc = "answer", !.wait = w]
                    \/ r = Resting
    <3>1. CASE AllowN(d)
      BY <3>1 DEF AllowN
    <3>2. CASE ReadRetry(d) \/ AskRetry(d) \/ Answer(d)
      BY <3>2 DEF ReadRetry, AskRetry, Answer, w
    <3> QED
      BY <1>5, <3>1, <3>2
  <2>3. r.t \in {caller[d].t, clock, 0}
    <3>1. CASE r = [caller[d] EXCEPT !.pc = "refused"]
      BY <2>1, <3>1 DEF Busy
    <3>2. CASE r = [caller[d] EXCEPT !.pc = "retry", !.t = clock]
      BY <2>1, <3>2 DEF Busy
    <3>3. CASE r = [caller[d] EXCEPT !.pc = "answer", !.wait = w]
      BY <2>1, <3>3 DEF Busy
    <3>4. CASE r = Resting
      BY <3>4 DEF Resting
    <3> QED
      BY <2>2, <3>1, <3>2, <3>3, <3>4
  <2> QED
    BY <1>2, <2>2, <2>3
<1> QED
  BY <1>3, <1>4, <1>5 DEF Next, vars, Forget, OpenWindow, ReadSweep, Sweep, Tick

-----------------------------------------------------------------------------
(* Balance.                                                                *)

(* A key the step leaves alone stays in balance.                           *)
LEMMA BalancedFrame ==
  ASSUME LimitInv, [Next]_vars, NEW k \in Keys, buckets'[k] = buckets[k],
         since'[k] = since[k], admitted'[k] = admitted[k], rewound'[k] = rewound[k]
  PROVE  Balanced(k)'
<1>1. TypeOK /\ Balanced(k)
  BY DEF LimitInv
<1>2. clock \in Nat /\ clock' \in {clock, clock + 1}
  BY <1>1, ReadingsStep DEF TypeOK
<1>3. buckets[k] # NoBucket => buckets[k].seen \in Nat
  BY <1>1 DEF TypeOK
<1>4. buckets[k] # NoBucket => buckets[k].seen <= clock'
  BY <1>1, <1>2, <1>3 DEF Balanced
<1> QED
  BY <1>1, <1>4 DEF Balanced

(* A key whose count starts anew is in balance.                            *)
LEMMA BalancedAnew ==
  ASSUME LimitInv, [Next]_vars, NEW k \in Keys, admitted'[k] = 0,
         buckets'[k] = NoBucket \/ buckets'[k] = buckets[k]
  PROVE  Balanced(k)'
<1>1. TypeOK /\ Balanced(k)
  BY DEF LimitInv
<1>2. clock \in Nat /\ clock' \in {clock, clock + 1}
  BY <1>1, ReadingsStep DEF TypeOK
<1>3. buckets[k] # NoBucket => buckets[k].seen \in Nat
  BY <1>1 DEF TypeOK
<1>4. buckets'[k] # NoBucket => buckets'[k].seen <= clock'
  BY <1>1, <1>2, <1>3 DEF Balanced
<1> QED
  BY <1>4 DEF Balanced

(* The credit of a visit is covered by the time it moves the bucket on, or *)
(* by the time it moves it back.                                           *)
LEMMA VisitCovered ==
  ASSUME NEW b \in Stored, NEW t \in Nat
  PROVE  Credited(b, t).tokens <= b.tokens + Rate * (t - b.seen + Rewind(b, t))
<1>1. b # NoBucket /\ b.tokens \in Nat /\ b.seen \in Nat
  BY StoredIsBucket, LimitAssumption DEF Stored
<1>2. CASE b.seen <= t
  <2>1. t - b.seen + Rewind(b, t) = t - b.seen
    BY <1>1, <1>2 DEF Rewind
  <2> QED
    BY <1>2, <2>1, CreditedBound
<1>3. CASE t < b.seen
  <2>1. t - b.seen + Rewind(b, t) = 0 /\ Credited(b, t).tokens = b.tokens
    BY <1>1, <1>3, CreditedBack
  <2>2. Rate * 0 = 0
    BY LimitAssumption, Products
  <2> QED
    BY <1>1, <2>1, <2>2
<1> QED
  BY <1>1, <1>2, <1>3

(* The event of AllowN spends what was credited.                           *)
LEMMA BalancedAllow ==
  ASSUME LimitInv, NEW c \in Callers, AllowN(c), NEW k, k = caller[c].key
  PROVE  Balanced(k)'
<1> DEFINE t == caller[c].t
           b == Credited(buckets[k], t)
           z == Rewind(buckets[k], t)
<1>1. TypeOK /\ clock' = clock /\ since' = since
  BY DEF LimitInv, AllowN
<1>2. k \in Keys /\ t \in Nat /\ clock \in Nat /\ t <= clock
  BY <1>1 DEF TypeOK, AllowN, Resting, LimitInv
<1>3. /\ buckets[k] \in Stored \cup {NoBucket}
      /\ since[k] \in Nat /\ admitted[k] \in Nat /\ rewound[k] \in Nat
      /\ k \in DOMAIN buckets /\ k \in DOMAIN admitted /\ k \in DOMAIN rewound
  BY <1>1, <1>2 DEF TypeOK, Stored
<1>4. b \in Stored /\ b.seen = t /\ b.tokens \in Nat /\ b.tokens <= Burst
  <2>1. b \in Stored /\ b.seen = t
    BY <1>2, <1>3, CreditedType
  <2> QED
    BY <2>1, LimitAssumption DEF Stored
<1>5. z \in Nat
  BY <1>2, <1>3, RewindType
<1>6. Balanced(k)
  BY <1>2 DEF LimitInv
<1>7. rewound'[k] = rewound[k] + z
  BY <1>3 DEF AllowN
(* What was admitted and what is there now do not exceed the allowance.    *)
<1>8. ASSUME admitted[k] > 0
      PROVE  admitted[k] * Token + b.tokens <= Burst + Rate * (t - since[k] + (rewound[k] + z))
  <2> DEFINE s == buckets[k].seen
             m == buckets[k].tokens
             p == s - since[k] + rewound[k]
             q == t - s + z
  <2>1. buckets[k] \in Stored /\ s \in Nat /\ m \in Nat
    <3>1. buckets[k] \in Stored
      BY <1>3, <1>6, <1>8 DEF Balanced
    <3> QED
      BY <3>1, LimitAssumption DEF Stored
  <2>2. admitted[k] * Token + m <= Burst + Rate * p
    BY <1>6, <1>8 DEF Balanced
  <2>3. b.tokens <= m + Rate * q
    BY <1>2, <2>1, VisitCovered
  <2>4. p \in Int /\ q \in Int /\ t - since[k] + (rewound[k] + z) = p + q
    <3> HIDE DEF z, s, t
    <3> QED
      BY <1>2, <1>3, <1>5, <2>1
  <2> HIDE DEF p, q
  <2>5. Rate * (p + q) = Rate * p + Rate * q /\ Rate * p \in Int /\ Rate * q \in Int
    BY <2>4, LimitAssumption, Distributes
  <2>6. admitted[k] * Token \in Int
    BY <1>3, LimitAssumption, Products
  <2> HIDE DEF b, m, s, t, z
  <2>7. admitted[k] * Token + b.tokens <= Burst + Rate * (p + q)
    BY <1>4, <2>1, <2>2, <2>3, <2>5, <2>6, LimitAssumption
  <2> QED
    BY <2>4, <2>7
<1> HIDE DEF b, t, z
<1>9. CASE b.tokens < Token
  <2>1. buckets'[k] = b /\ admitted' = admitted
    BY <1>3, <1>9 DEF AllowN, b, t
  <2>2. b # NoBucket
    BY <1>4, StoredIsBucket
  <2> QED
    BY <1>1, <1>2, <1>4, <1>7, <1>8, <2>1, <2>2 DEF Balanced
<1>10. CASE ~(b.tokens < Token)
  <2> DEFINE e == [b EXCEPT !.tokens = b.tokens - Token]
             x == t - since[k] + (rewound[k] + z)
  <2>1. buckets'[k] = e
    BY <1>3, <1>10 DEF AllowN, b, t
  <2>2. e \in Stored /\ e.tokens = b.tokens - Token /\ e.seen = t
    BY <1>4, <1>10, LimitAssumption DEF Stored
  <2>3. e # NoBucket
    BY <2>2, StoredIsBucket
  <2>4. x \in Int /\ Rate * x \in Int /\ admitted[k] * Token \in Int
    <3>1. x \in Int
      BY <1>2, <1>3, <1>5
    <3> HIDE DEF x
    <3> QED
      BY <1>3, <3>1, LimitAssumption, Products
  <2> HIDE DEF e, x
  <2>5. CASE t >= since[k]
    <3>1. admitted'[k] = admitted[k] + 1
      BY <1>3, <1>10, <2>5 DEF AllowN, b, t
    <3>2. (admitted[k] + 1) * Token = admitted[k] * Token + Token
      BY <1>3, LimitAssumption, Products
    <3>3. admitted[k] * Token + b.tokens <= Burst + Rate * x
      <4>1. CASE admitted[k] = 0
        <5>1. admitted[k] * Token = 0
          BY <4>1, LimitAssumption, Products
        <5>2. 0 <= x
          BY <1>2, <1>3, <1>5, <2>5 DEF x
        <5>3. Rate * 0 <= Rate * x /\ Rate * 0 = 0
          BY <2>4, <5>2, LimitAssumption, Monotone, Products
        <5> QED
          BY <1>4, <2>4, <5>1, <5>3, LimitAssumption
      <4>2. CASE admitted[k] > 0
        BY <1>8, <4>2 DEF x
      <4> QED
        BY <1>3, <4>1, <4>2
    <3>4. (admitted[k] + 1) * Token + e.tokens <= Burst + Rate * x
      BY <1>4, <2>2, <2>4, <3>2, <3>3, LimitAssumption
    <3> QED
      BY <1>1, <1>2, <1>7, <2>1, <2>2, <2>3, <3>1, <3>4 DEF Balanced, x
  <2>6. CASE ~(t >= since[k])
    <3>1. admitted' = admitted
      BY <1>10, <2>6 DEF AllowN, b, t
    <3>2. admitted[k] > 0 => admitted[k] * Token + e.tokens <= Burst + Rate * x
      <4>1. admitted[k] > 0 => admitted[k] * Token + b.tokens <= Burst + Rate * x
        BY <1>8 DEF x
      <4> QED
        BY <1>4, <2>2, <2>4, <4>1, LimitAssumption
    <3> QED
      BY <1>1, <1>2, <1>7, <2>1, <2>2, <2>3, <3>1, <3>2 DEF Balanced, x
  <2> QED
    BY <2>5, <2>6
<1> QED
  BY <1>9, <1>10

LEMMA LimitInit == Init => LimitInv
<1> SUFFICES ASSUME Init PROVE LimitInv
  OBVIOUS
<1>1. TypeOK
  BY DEF Init, TypeOK, Asleep
<1>2. clock = 0 /\ \A c \in Callers : caller[c].t = 0
  BY DEF Init, Resting
<1>3. \A k \in Keys : since[k] = 0 /\ admitted[k] = 0 /\ buckets[k] = NoBucket
  BY DEF Init
<1>4. ASSUME NEW k \in Keys PROVE Balanced(k)
  <2>1. buckets[k] = NoBucket /\ ~(admitted[k] > 0)
    BY <1>3
  <2> QED
    BY <2>1 DEF Balanced
<1> QED
  BY <1>1, <1>2, <1>3, <1>4 DEF LimitInv

LEMMA LimitStep == LimitInv /\ [Next]_vars => LimitInv'
<1> SUFFICES ASSUME LimitInv, [Next]_vars PROVE LimitInv'
  OBVIOUS
<1>1. TypeOK /\ TypeOK'
  BY TypeStep DEF LimitInv
<1>2. clock \in Nat /\ clock' \in {clock, clock + 1}
  BY <1>1, ReadingsStep DEF TypeOK
<1>3. ASSUME NEW c \in Callers PROVE caller'[c].t <= clock'
  <2>1. caller'[c].t \in {caller[c].t, clock, 0}
    BY <1>1, ReadingsStep
  <2>2. caller[c].t \in Nat /\ caller[c].t <= clock
    BY <1>1 DEF LimitInv, TypeOK, Resting
  <2> QED
    BY <1>2, <2>1, <2>2
<1>4. ASSUME NEW k \in Keys PROVE since'[k] <= clock'
  <2>1. since[k] \in Nat /\ since[k] <= clock /\ k \in DOMAIN since
    BY <1>1 DEF TypeOK, LimitInv
  <2>2. since'[k] = since[k] \/ since'[k] = clock
    BY <2>1 DEF Next, vars, window, Anew, ReadClock, AllowN, ReadRetry, AskRetry, Answer,
                Forget, OpenWindow, ReadSweep, Sweep, Tick
  <2> QED
    BY <1>2, <2>1, <2>2
<1>5. ASSUME NEW k \in Keys PROVE Balanced(k)'
  <2>1. k \in DOMAIN buckets /\ k \in DOMAIN since /\ k \in DOMAIN admitted /\ k \in DOMAIN rewound
    BY <1>1 DEF TypeOK
  <2>2. CASE Sweep
    <3>1. CASE IdleAt(k, sweeper.t)
      <4>1. buckets'[k] = NoBucket /\ admitted'[k] = 0
        BY <2>2, <3>1 DEF Sweep, Anew
      <4> QED
        BY <4>1, BalancedAnew
    <3>2. CASE ~IdleAt(k, sweeper.t)
      <4>1. /\ buckets'[k] = buckets[k] /\ since'[k] = since[k]
            /\ admitted'[k] = admitted[k] /\ rewound'[k] = rewound[k]
        BY <2>2, <3>2 DEF Sweep, Anew
      <4> QED
        BY <4>1, BalancedFrame
    <3> QED
      BY <3>1, <3>2
  <2>3. ASSUME NEW c \in Callers, AllowN(c)
        PROVE  Balanced(k)'
    <3>1. CASE k = caller[c].key
      BY <2>3, <3>1, BalancedAllow
    <3>2. CASE k # caller[c].key
      <4>1. /\ buckets'[k] = buckets[k] /\ since'[k] = since[k]
            /\ admitted'[k] = admitted[k] /\ rewound'[k] = rewound[k]
        BY <2>1, <2>3, <3>2 DEF AllowN
      <4> QED
        BY <4>1, BalancedFrame
    <3> QED
      BY <3>1, <3>2
  <2>4. ASSUME NEW j \in Keys, Forget(j) \/ OpenWindow(j)
        PROVE  Balanced(k)'
    <3>1. CASE k = j
      <4>1. admitted'[k] = 0 /\ (buckets'[k] = NoBucket \/ buckets'[k] = buckets[k])
        BY <2>1, <2>4, <3>1 DEF Forget, OpenWindow, Anew
      <4> QED
        BY <4>1, BalancedAnew
    <3>2. CASE k # j
      <4>1. /\ buckets'[k] = buckets[k] /\ since'[k] = since[k]
            /\ admitted'[k] = admitted[k] /\ rewound'[k] = rewound[k]
        BY <2>1, <2>4, <3>2 DEF Forget, OpenWindow, Anew
      <4> QED
        BY <4>1, BalancedFrame
    <3> QED
      BY <3>1, <3>2
  <2>5. CASE UNCHANGED <<buckets, since, admitted, rewound>>
    BY <2>5, BalancedFrame
  <2> QED
    BY <2>2, <2>3, <2>4, <2>5
    DEF Next, vars, window, ReadClock, ReadRetry, AskRetry, Answer, ReadSweep, Tick
<1> QED
  BY <1>1, <1>3, <1>4, <1>5 DEF LimitInv

(* The balance of a key is its bound.                                      *)
LEMMA BalanceBounds == LimitInv => Bounded
<1> SUFFICES ASSUME LimitInv, NEW k \in Keys
             PROVE  admitted[k] * Token <= Burst + Rate * (clock - since[k] + rewound[k])
  BY DEF Bounded
<1> DEFINE x == clock - since[k] + rewound[k]
<1>1. TypeOK /\ Balanced(k) /\ since[k] <= clock
  BY DEF LimitInv
<1>2. clock \in Nat /\ since[k] \in Nat /\ admitted[k] \in Nat /\ rewound[k] \in Nat
  BY <1>1 DEF TypeOK
<1>3. x \in Int /\ 0 <= x
  BY <1>1, <1>2
<1>4. admitted[k] * Token \in Int /\ Rate * x \in Int /\ 0 <= Rate * x
  <2>1. Rate * 0 <= Rate * x /\ Rate * 0 = 0
    BY <1>3, LimitAssumption, Monotone, Products
  <2> HIDE DEF x
  <2>2. Rate * x \in Int
    BY <1>3, LimitAssumption, Products
  <2>3. admitted[k] * Token \in Int
    BY <1>2, LimitAssumption, Products
  <2> QED
    BY <2>1, <2>2, <2>3
<1>5. CASE admitted[k] = 0
  <2>1. admitted[k] * Token = 0
    BY <1>5, LimitAssumption, Products
  <2> HIDE DEF x
  <2>2. admitted[k] * Token <= Burst + Rate * x
    BY <1>4, <2>1, LimitAssumption
  <2> QED
    BY <2>2 DEF x
<1>6. CASE admitted[k] > 0
  <2> DEFINE m == buckets[k].tokens
             y == buckets[k].seen - since[k] + rewound[k]
  <2>1. buckets[k] # NoBucket /\ buckets[k].seen <= clock /\ admitted[k] * Token + m <= Burst + Rate * y
    BY <1>1, <1>6 DEF Balanced
  <2>2. buckets[k].seen \in Nat /\ m \in Nat
    BY <1>1, <2>1, LimitAssumption DEF TypeOK
  <2>3. y \in Int /\ y <= x
    BY <1>2, <2>1, <2>2
  <2> HIDE DEF m, x, y
  <2>4. Rate * y <= Rate * x /\ Rate * y \in Int
    BY <1>3, <2>3, LimitAssumption, Monotone, Products
  <2>5. admitted[k] * Token <= Burst + Rate * x
    BY <1>4, <2>1, <2>2, <2>4, LimitAssumption
  <2> QED
    BY <2>5 DEF x
<1> QED
  BY <1>2, <1>5, <1>6

(* In every window of a bucket's life the limiter admits at most its burst *)
(* and its sustained rate, and beyond them only what readings that reached *)
(* AllowN out of order gave back, for every burst, rate, retention, key    *)
(* and number of concurrent requests.                                      *)
THEOREM WindowBounded == Spec => []Bounded
<1>1. LimitInv /\ [Next]_vars => LimitInv'
  BY LimitStep
<1> QED
  BY <1>1, LimitInit, BalanceBounds, PTL DEF Spec

-----------------------------------------------------------------------------
(* What a refused request is told.                                         *)

LEMMA Quotient ==
  ASSUME NEW a \in Nat, NEW r \in Nat \ {0}
  PROVE  a \div r \in Nat /\ r * (a \div r) <= a /\ a < r * ((a \div r) + 1)
  OBVIOUS

(* Seconds are rounded up: enough to cover d, and not a second more.       *)
LEMMA RoundedUp ==
  ASSUME NEW d \in Nat
  PROVE  LET w == RetryAfterSeconds(d)
         IN w \in Nat \ {0} /\ d <= w * Second /\ (w > 1 => (w - 1) * Second < d)
<1>0. Second \in Nat \ {0}
  BY LimitAssumption
<1>1. CASE d = 0
  BY <1>0, <1>1 DEF RetryAfterSeconds
<1>2. CASE d > 0
  <2>1. PICK w : w = (d + Second - 1) \div Second
    OBVIOUS
  <2>2. w \in Nat /\ Second * w <= d + Second - 1 /\ d + Second - 1 < Second * (w + 1)
    <3>1. d + Second - 1 \in Nat
      BY <1>0
    <3> QED
      BY <1>0, <2>1, <3>1, Quotient
  <2>3. PICK m \in Int : m = Second * w
    BY <1>0, <2>2, Products
  <2>4. Second * (w + 1) = m + Second /\ w * Second = m /\ (w - 1) * Second = m - Second
    BY <1>0, <2>2, <2>3
  <2>5. d <= m /\ m - Second < d
    BY <1>0, <2>2, <2>3, <2>4
  <2>6. w # 0
    BY <1>0, <1>2, <2>3, <2>5
  <2>7. RetryAfterSeconds(d) = w
    BY <1>2, <2>1 DEF RetryAfterSeconds
  <2> QED
    BY <2>2, <2>4, <2>5, <2>6, <2>7
<1> QED
  BY <1>1, <1>2

(* A bucket reaches one token after the wait, and not a second before.     *)
LEMMA WaitExact ==
  ASSUME NEW b \in Stored, NEW t \in Nat
  PROVE  LET w == RetryAfterSeconds(Retry(b, t))
         IN /\ w >= 1 /\ Level(b, t + w * Second + 1) >= Token
            /\ w > 1 => Level(b, t + (w - 1) * Second) < Token
<1>0. /\ b # NoBucket /\ b.tokens \in Nat /\ b.seen \in Nat
      /\ Rate \in Nat \ {0} /\ Token \in Nat \ {0} /\ Burst \in Nat /\ Burst >= Token /\ Second \in Nat \ {0}
  BY StoredIsBucket, LimitAssumption DEF Stored
<1>1. PICK x \in Int : x = b.tokens + Rate * (t - b.seen)
  BY <1>0, Products
<1>2. Level(b, t) = Capped(x)
  BY <1>1 DEF Level
<1>3. ASSUME NEW y \in Int PROVE Level(b, t + y) = Capped(x + Rate * y) /\ Rate * y \in Int
  <2>1. Rate * ((t + y) - b.seen) = Rate * (t - b.seen) + Rate * y /\ Rate * y \in Int
    <3>1. \A a \in Int : Rate * (a + y) = Rate * a + Rate * y /\ Rate * y \in Int
      BY <1>0
    <3>2. t - b.seen \in Int /\ (t + y) - b.seen = (t - b.seen) + y
      BY <1>0
    <3> QED
      BY <3>1, <3>2
  <2>2. b.tokens + Rate * ((t + y) - b.seen) = x + Rate * y
    <3>1. Rate * (t - b.seen) \in Int
      BY <1>0, Products
    <3> QED
      BY <1>0, <1>1, <2>1, <3>1
  <2>3. Level(b, t + y) = Capped(x + Rate * y)
    BY <2>2 DEF Level
  <2> QED
    BY <2>1, <2>3
<1>4. \A z \in Int : (Capped(z) >= Token <=> z >= Token)
  BY <1>0 DEF Capped
<1>5. PICK d : d = Retry(b, t)
  OBVIOUS
<1>6. d \in Nat /\ x + Rate * (d + 1) >= Token /\ (d > 0 => x + Rate * (d - 1) < Token)
  <2>1. CASE x >= Token
    <3>1. d = 0
      BY <1>0, <1>1, <1>2, <1>4, <1>5, <2>1 DEF Retry
    <3>2. Rate * (d + 1) = Rate
      BY <1>0, <3>1
    <3> QED
      BY <1>0, <2>1, <3>1, <3>2
  <2>2. CASE x < Token
    <3>1. Capped(x) = x
      BY <1>0, <2>2 DEF Capped
    <3>2. ~(Capped(x) >= Token) /\ d = (Token - x) \div Rate
      BY <1>0, <1>2, <1>5, <2>2, <3>1 DEF Retry
    <3>3. Token - x \in Nat
      BY <1>0, <2>2
    <3>4. d \in Nat /\ Rate * d <= Token - x /\ Token - x < Rate * (d + 1)
      BY <1>0, <3>2, <3>3, Quotient
    <3>5. Rate * d \in Int /\ Rate * (d + 1) \in Int /\ Rate * (d - 1) = Rate * d - Rate
      BY <1>0, <3>4
    <3> QED
      BY <1>0, <3>4, <3>5
  <2> QED
    BY <1>0, <2>1, <2>2
<1>7. PICK w : w = RetryAfterSeconds(d)
  OBVIOUS
<1>8. w \in Nat \ {0} /\ d <= w * Second /\ (w > 1 => (w - 1) * Second < d)
  BY <1>6, <1>7, RoundedUp
<1>9. w * Second \in Int /\ (w - 1) * Second \in Int
  BY <1>0, <1>8, Products
<1>10. Level(b, t + w * Second + 1) >= Token
  <2>1. PICK y \in Int : y = w * Second + 1
    BY <1>9
  <2>2. d + 1 <= y
    BY <1>6, <1>8, <1>9, <2>1
  <2>3. Rate * (d + 1) <= Rate * y /\ Rate * (d + 1) \in Int
    BY <1>0, <1>6, <2>2, Monotone, Products
  <2>4. Rate * y \in Int /\ x + Rate * y >= Token
    BY <1>0, <1>3, <1>6, <2>3
  <2>5. t + w * Second + 1 = t + y
    BY <1>9, <2>1
  <2>6. Level(b, t + y) = Capped(x + Rate * y) /\ Capped(x + Rate * y) >= Token
    BY <1>3, <1>4, <2>4
  <2> QED
    BY <2>5, <2>6
<1>11. ASSUME w > 1 PROVE Level(b, t + (w - 1) * Second) < Token
  <2>1. PICK y \in Int : y = (w - 1) * Second
    BY <1>9
  <2>2. y <= d - 1 /\ d > 0
    <3>1. w - 1 \in Nat
      BY <1>8
    <3>2. y < d /\ 0 <= y
      BY <1>0, <1>8, <1>11, <2>1, <3>1
    <3> QED
      BY <1>6, <3>2
  <2>3. Rate * y <= Rate * (d - 1) /\ Rate * (d - 1) \in Int
    BY <1>0, <1>6, <2>2, Monotone, Products
  <2>4. Rate * y \in Int /\ x + Rate * y < Token
    BY <1>0, <1>3, <1>6, <2>2, <2>3
  <2>5. Level(b, t + y) = x + Rate * y
    BY <1>0, <1>3, <2>4 DEF Capped
  <2> QED
    BY <2>1, <2>4, <2>5
<1> QED
  BY <1>5, <1>7, <1>8, <1>10, <1>11

(* Only AskRetry tells a request how long to wait.                         *)
LEMMA ToldByAskRetry ==
  ASSUME TypeOK, [Next]_vars, NEW c \in Callers, caller[c].pc = "retry", caller'[c].pc = "answer"
  PROVE  AskRetry(c)
<1>0. "retry" # "answer" /\ caller \in [Callers -> Busy \cup {Resting}]
  BY DEF TypeOK, Busy
<1>1. caller' # caller
  BY <1>0
<1>2. PICK d \in Callers :
        \/ \E k \in Keys : ReadClock(d, k)
        \/ AllowN(d) \/ ReadRetry(d) \/ AskRetry(d) \/ Answer(d)
  BY <1>1 DEF Next, vars, Forget, OpenWindow, ReadSweep, Sweep, Tick
<1>3. CASE d # c
  <2>1. caller'[c] = caller[c]
    BY <1>0, <1>2, <1>3 DEF ReadClock, AllowN, ReadRetry, AskRetry, Answer
  <2> QED
    BY <2>1
<1>4. CASE d = c
  BY <1>0, <1>2, <1>4 DEF ReadClock, AllowN, ReadRetry, Answer, Resting
<1> QED
  BY <1>3, <1>4

(* Retry and RetryAfterSeconds are exact for every rate, burst and length  *)
(* of a second: a caller who waits as long as it was told finds a token    *)
(* unless somebody took it, and one second less would not have done.       *)
THEOREM WaitsHonest == Spec => RetryHonest
<1>1. ASSUME TypeOK, [Next]_vars, NEW c \in Callers, caller[c].pc = "retry", caller'[c].pc = "answer"
      PROVE  LET b == buckets[caller[c].key]
                 t == caller[c].t
                 w == caller'[c].wait
             IN /\ w >= 1
                /\ b # NoBucket => /\ Level(b, t + w * Second + 1) >= Token
                                   /\ w > 1 => Level(b, t + (w - 1) * Second) < Token
  <2>1. AskRetry(c)
    BY <1>1, ToldByAskRetry
  <2>2. caller[c] \in Busy
    BY <1>1 DEF TypeOK, Busy, Resting
  <2>3. caller[c].key \in Keys /\ caller[c].t \in Nat
    BY <2>2 DEF Busy
  <2>4. buckets[caller[c].key] \in Stored \cup {NoBucket}
    BY <1>1, <2>3 DEF TypeOK, Stored
  <2>5. caller'[c].wait = RetryAfterSeconds(Retry(buckets[caller[c].key], caller[c].t))
    <3>1. caller'[c] = [caller[c] EXCEPT !.pc = "answer",
                          !.wait = RetryAfterSeconds(Retry(buckets[caller[c].key], caller[c].t))]
      BY <1>1, <2>1 DEF AskRetry, TypeOK
    <3> QED
      BY <2>2, <3>1 DEF Busy
  <2>6. CASE buckets[caller[c].key] = NoBucket
    <3>1. RetryAfterSeconds(Retry(NoBucket, caller[c].t)) = 1
      BY DEF Retry, RetryAfterSeconds
    <3> QED
      BY <2>5, <2>6, <3>1
  <2>7. CASE buckets[caller[c].key] \in Stored
    BY <2>3, <2>5, <2>7, WaitExact
  <2> QED
    BY <2>4, <2>6, <2>7
<1>2. TypeOK /\ [Next]_vars =>
        [\A c \in Callers : caller[c].pc = "retry" /\ caller'[c].pc = "answer" =>
           LET b == buckets[caller[c].key]
               t == caller[c].t
               w == caller'[c].wait
           IN /\ w >= 1
              /\ b # NoBucket => /\ Level(b, t + w * Second + 1) >= Token
                                 /\ w > 1 => Level(b, t + (w - 1) * Second) < Token]_vars
  BY <1>1
<1>3. Init => TypeOK
  BY LimitInit DEF LimitInv
<1> QED
  BY <1>2, <1>3, TypeStep, PTL DEF Spec, RetryHonest
=============================================================================
