----------------------------- MODULE RateLimit -----------------------------
(***************************************************************************)
(* The token bucket of internal/ratelimit, shared by every request of a    *)
(* key: the client's address (internal/httpapi/ratelimit.go) or the upload *)
(* a password is tried against.                                            *)
(*                                                                         *)
(* AllowN, Retry and Sweep read the clock before they take the mutex, so   *)
(* they may find a bucket that a later reading has already moved: AllowN   *)
(* then moves it back.  What happens under the mutex is one step.          *)
(*                                                                         *)
(* Tokens are counted in fractions, Token of them to one event, and the    *)
(* clock in units of the duration type: Second of them to one second.      *)
(***************************************************************************)
EXTENDS Integers

CONSTANTS
  Keys, Callers,
  NoKey, NoBucket,
  Token,    \* fractions to one event
  Burst,    \* fractions a bucket holds
  Rate,     \* fractions credited in one unit of time
  Idle,     \* how long an unused bucket is kept
  Second,   \* units of time to the second
  MaxTime   \* bound on the clock

ASSUME LimitAssumption ==
  /\ Token \in Nat \ {0} /\ Burst \in Nat /\ Burst >= Token
  /\ Rate \in Nat \ {0} /\ Idle \in Nat \ {0} /\ Second \in Nat \ {0}
  /\ MaxTime \in Nat
  /\ NoKey \notin Keys /\ NoBucket \notin [tokens : Nat, seen : Nat]

VARIABLES
  clock,
  buckets,  \* the map, NoBucket where a key has no entry
  caller,   \* requests
  sweeper,  \* the goroutine that sweeps, if there is one
  since,    \* history: when the observed window of a key began
  admitted, \* history: events admitted of those read since then
  rewound   \* history: how far buckets were moved back since then

window == <<since, admitted, rewound>>
vars == <<clock, buckets, caller, sweeper, since, admitted, rewound>>

Bucket == [tokens : Nat, seen : Nat]
Resting == [pc |-> "idle", key |-> NoKey, t |-> 0, wait |-> 0]
Asleep  == [pc |-> "idle", t |-> 0]

Init ==
  /\ clock = 0
  /\ buckets = [k \in Keys |-> NoBucket]
  /\ caller = [c \in Callers |-> Resting]
  /\ sweeper = Asleep
  /\ since = [k \in Keys |-> 0]
  /\ admitted = [k \in Keys |-> 0]
  /\ rewound = [k \in Keys |-> 0]

-----------------------------------------------------------------------------
Capped(x) == IF x > Burst THEN Burst ELSE x

(* What Retry takes the bucket to hold at time t, which may lie before the *)
(* time it was last seen.                                                  *)
Level(b, t) == Capped(b.tokens + Rate * (t - b.seen))

(* Variant: nothing caps the credit.                                       *)
CreditedUncapped(b, t) ==
  IF b = NoBucket THEN [tokens |-> Burst, seen |-> t]
  ELSE [tokens |-> IF t > b.seen THEN b.tokens + Rate * (t - b.seen) ELSE b.tokens, seen |-> t]

(* The bucket AllowN works on: a new one is full, an old one is credited   *)
(* with what has passed since it was seen, if anything has.                *)
Credited(b, t) ==
  IF b = NoBucket THEN [tokens |-> Burst, seen |-> t]
  ELSE [tokens |-> IF t > b.seen THEN Level(b, t) ELSE b.tokens, seen |-> t]

(* Variant: the wait is rounded to the nearest second.                     *)
RetryAfterRounded(d) ==
  IF d <= 0 THEN 1 ELSE (d + (Second \div 2)) \div Second

(* Whole seconds, rounded up, and at least one.                            *)
RetryAfterSeconds(d) == IF d <= 0 THEN 1 ELSE (d + Second - 1) \div Second

(* Retry: how long until one event is permitted.                           *)
Retry(b, t) ==
  IF b = NoBucket THEN 0
  ELSE IF Level(b, t) >= Token THEN 0 ELSE (Token - Level(b, t)) \div Rate

(* How far a reading t sets a bucket back.                                 *)
Rewind(b, t) == IF b # NoBucket /\ t < b.seen THEN b.seen - t ELSE 0

-----------------------------------------------------------------------------
(* Allow reads the clock ...                                               *)
ReadClock(c, k) ==
  /\ caller[c].pc = "idle"
  /\ caller' = [caller EXCEPT ![c] = [Resting EXCEPT !.pc = "allow", !.key = k, !.t = clock]]
  /\ UNCHANGED <<clock, buckets, sweeper, window>>

(* ... and consumes a token under the mutex, or is refused.                *)
AllowN(c) ==
  /\ caller[c].pc = "allow"
  /\ LET k == caller[c].key
         t == caller[c].t
         b == Credited(buckets[k], t)
     IN /\ rewound' = [rewound EXCEPT ![k] = rewound[k] + Rewind(buckets[k], t)]
        /\ IF b.tokens < Token
           THEN /\ buckets' = [buckets EXCEPT ![k] = b]
                /\ caller' = [caller EXCEPT ![c] = [@ EXCEPT !.pc = "refused"]]
                /\ UNCHANGED admitted
           ELSE /\ buckets' = [buckets EXCEPT ![k] = [b EXCEPT !.tokens = b.tokens - Token]]
                /\ caller' = [caller EXCEPT ![c] = Resting]
                /\ admitted' = IF t >= since[k] THEN [admitted EXCEPT ![k] = admitted[k] + 1]
                               ELSE admitted
  /\ UNCHANGED <<clock, sweeper, since>>

(* A refused request asks how long to wait, with a reading of its own.     *)
ReadRetry(c) ==
  /\ caller[c].pc = "refused"
  /\ caller' = [caller EXCEPT ![c] = [@ EXCEPT !.pc = "retry", !.t = clock]]
  /\ UNCHANGED <<clock, buckets, sweeper, window>>

AskRetry(c) ==
  /\ caller[c].pc = "retry"
  /\ caller' = [caller EXCEPT ![c] = [@ EXCEPT !.pc = "answer",
        !.wait = RetryAfterSeconds(Retry(buckets[caller[c].key], caller[c].t))]]
  /\ UNCHANGED <<clock, buckets, sweeper, window>>

Answer(c) ==
  /\ caller[c].pc = "answer"
  /\ caller' = [caller EXCEPT ![c] = Resting]
  /\ UNCHANGED <<clock, buckets, sweeper, window>>

(* What is observed of a set of keys starts anew.                          *)
Anew(K) ==
  /\ since' = [k \in Keys |-> IF k \in K THEN clock ELSE since[k]]
  /\ admitted' = [k \in Keys |-> IF k \in K THEN 0 ELSE admitted[k]]
  /\ rewound' = [k \in Keys |-> IF k \in K THEN 0 ELSE rewound[k]]

(* A right password or the deletion of the upload: the key starts afresh,  *)
(* and so does what is observed of it.                                     *)
Forget(k) ==
  /\ buckets' = [buckets EXCEPT ![k] = NoBucket]
  /\ Anew({k})
  /\ UNCHANGED <<clock, caller, sweeper>>

ReadSweep ==
  /\ sweeper.pc = "idle"
  /\ sweeper' = [pc |-> "sweep", t |-> clock]
  /\ UNCHANGED <<clock, buckets, caller, window>>

IdleAt(k, t) == buckets[k] # NoBucket /\ buckets[k].seen < t - Idle

(* A swept key starts afresh as well.  Nothing ties Idle to the time a     *)
(* bucket takes to fill, so it may be swept before it is full.             *)
Sweep ==
  /\ sweeper.pc = "sweep"
  /\ buckets' = [k \in Keys |-> IF IdleAt(k, sweeper.t) THEN NoBucket ELSE buckets[k]]
  /\ sweeper' = Asleep
  /\ Anew({k \in Keys : IdleAt(k, sweeper.t)})
  /\ UNCHANGED <<clock, caller>>

(* The observer starts counting a key anew, at any time it likes: what is  *)
(* shown of since and admitted holds of every window.                      *)
OpenWindow(k) ==
  /\ Anew({k})
  /\ UNCHANGED <<clock, buckets, caller, sweeper>>

Tick ==
  /\ clock < MaxTime /\ clock' = clock + 1
  /\ UNCHANGED <<buckets, caller, sweeper, window>>

Next ==
  \/ \E c \in Callers, k \in Keys : ReadClock(c, k)
  \/ \E c \in Callers : AllowN(c) \/ ReadRetry(c) \/ AskRetry(c) \/ Answer(c)
  \/ \E k \in Keys : Forget(k) \/ OpenWindow(k)
  \/ ReadSweep \/ Sweep \/ Tick

Spec == Init /\ [][Next]_vars

-----------------------------------------------------------------------------
(* Every variable keeps its type.                                          *)
TypeOK ==
  /\ clock \in Nat
  /\ buckets \in [Keys -> [tokens : 0 .. Burst, seen : Nat] \cup {NoBucket}]
  /\ caller \in [Callers -> [pc : {"allow", "refused", "retry", "answer"},
                             key : Keys, t : Nat, wait : Nat] \cup {Resting}]
  /\ sweeper \in [pc : {"idle", "sweep"}, t : Nat]
  /\ since \in [Keys -> Nat] /\ admitted \in [Keys -> Nat] /\ rewound \in [Keys -> Nat]

(* In every window of a bucket's life no more events are admitted than the *)
(* burst, the sustained rate and the time that readings out of order have  *)
(* given back allow: that time is credited twice, and nothing else is.     *)
Bounded == \A k \in Keys :
  admitted[k] * Token <= Burst + Rate * (clock - since[k] + rewound[k])

(* What the configuration promises, "the sustained number of permitted     *)
(* events per second" and "how many may arrive at once", with nothing      *)
(* credited twice.                                                         *)
WithinRate == \A k \in Keys :
  admitted[k] * Token <= Burst + Rate * (clock - since[k])

(* A caller who waits as long as it was told finds a token, to within the  *)
(* unit of time the wait was truncated to, if nobody took it; and it was   *)
(* not told to wait a second longer than that takes.                       *)
RetryHonest ==
  [][\A c \in Callers : caller[c].pc = "retry" /\ caller'[c].pc = "answer" =>
       LET b == buckets[caller[c].key]
           t == caller[c].t
           w == caller'[c].wait
       IN /\ w >= 1
          /\ b # NoBucket => /\ Level(b, t + w * Second + 1) >= Token
                             /\ w > 1 => Level(b, t + (w - 1) * Second) < Token]_vars

-----------------------------------------------------------------------------
(* The inductive invariant behind Bounded: no reading is of the future,    *)
(* and what was admitted plus what is left never exceeds what was credited *)
(* up to the time the bucket was seen, which may lie before the window.    *)
Balanced(k) ==
  LET b == buckets[k] IN
  /\ b # NoBucket => b.seen <= clock
  /\ admitted[k] > 0 =>
       /\ b # NoBucket
       /\ admitted[k] * Token + b.tokens <= Burst + Rate * (b.seen - since[k] + rewound[k])

LimitInv ==
  /\ TypeOK
  /\ \A c \in Callers : caller[c].t <= clock
  /\ \A k \in Keys : since[k] <= clock /\ Balanced(k)
=============================================================================
