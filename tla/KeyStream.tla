----------------------------- MODULE KeyStream -----------------------------
(***************************************************************************)
(* The at-rest key stream (internal/blob/shred.go).  A stream is a counter *)
(* block and how much of the block it names is already used; one unit of   *)
(* it covers one byte.  Octet, Octets and BlockSize are 256, 16 and 16 in  *)
(* the code; small values bring carries and the wrap of the whole counter  *)
(* within a short blob.                                                    *)
(***************************************************************************)
EXTENDS Integers, Sequences

CONSTANTS
  Octet,       \* values of one octet of the counter
  Octets,      \* octets of the counter
  BlockSize    \* bytes of one block

ASSUME CounterAssumption ==
  Octet \in Nat \ {0, 1} /\ Octets \in Nat \ {0} /\ BlockSize \in Nat \ {0}

Counter == [1 .. Octets -> 0 .. Octet - 1]

(* Split an offset into whole blocks before it and the place in its block. *)
blockOffset(position) == [blocks |-> position \div BlockSize, skip |-> position % BlockSize]

(* Variant: what one octet carries into the next is lost.                  *)
incrementCounterDropping(counter, n) ==
  LET after[i \in 0 .. Octets] ==
        IF i = 0 THEN [counter |-> counter, carry |-> n]
        ELSE LET before == after[i - 1]
                 at     == Octets + 1 - i
                 sum    == before.counter[at] + (before.carry % Octet)
             IN [counter |-> [before.counter EXCEPT ![at] = sum % Octet],
                 carry   |-> before.carry \div Octet]
  IN after[Octets].counter

(* Add n to the big-endian counter, from its last octet: each takes the    *)
(* low octet of the carry, and what is left of the carry is joined by what *)
(* the octet overflowed.  after[i] is the state once i octets are done; an *)
(* empty carry changes no more of them.                                    *)
incrementCounter(counter, n) ==
  LET after[i \in 0 .. Octets] ==
        IF i = 0 THEN [counter |-> counter, carry |-> n]
        ELSE LET before == after[i - 1]
                 at     == Octets + 1 - i
                 sum    == before.counter[at] + (before.carry % Octet)
             IN [counter |-> [before.counter EXCEPT ![at] = sum % Octet],
                 carry   |-> (before.carry \div Octet) + (sum \div Octet)]
  IN after[Octets].counter

(* The cipher's own step to the next block (crypto/cipher's CTR): the last *)
(* octet that is not full grows by one and every octet after it is zero.   *)
NextBlock(counter) ==
  [i \in 1 .. Octets |->
     IF \A j \in i + 1 .. Octets : counter[j] = Octet - 1
     THEN (counter[i] + 1) % Octet ELSE counter[i]]

(* XORKeyStream over n bytes: the units it used, and the stream after it.  *)
Advance(stream, n) ==
  LET after[i \in 0 .. n] ==
        IF i = 0 THEN [units |-> <<>>, stream |-> stream]
        ELSE LET s == after[i - 1].stream IN
             [units  |-> Append(after[i - 1].units, <<s.counter, s.used>>),
              stream |-> IF s.used + 1 = BlockSize
                         THEN [counter |-> NextBlock(s.counter), used |-> 0]
                         ELSE [s EXCEPT !.used = @ + 1]]
  IN after[n]

(* A stream positioned at the block that holds offset; the caller discards *)
(* what precedes the offset in it.                                         *)
streamAt(iv, offset) ==
  [counter |-> incrementCounter(iv, blockOffset(offset).blocks), used |-> 0]
-----------------------------------------------------------------------------
(* What the proofs say of a stream.                                        *)

(* What arithmetic says of powers, for provers that do not know it.        *)
ASSUME PowerAssumption ==
  Octet^0 = 1 /\ \A i \in 0 .. Octets - 1 : Octet^(i + 1) = Octet * Octet^i

(* A counter as a number: Low(counter)[i] is what its last i octets say.   *)
Low(counter) ==
  LET low[i \in 0 .. Octets] ==
        IF i = 0 THEN 0 ELSE low[i - 1] + counter[Octets + 1 - i] * Octet^(i - 1)
  IN low

Value(counter) == Low(counter)[Octets]

(* The stream that begins at iv stands before the byte at p.               *)
StandsAt(iv, stream, p) ==
  /\ stream \in [counter : Counter, used : 0 .. BlockSize - 1]
  /\ stream.used = p % BlockSize
  /\ Value(stream.counter) = (Value(iv) + (p \div BlockSize)) % Octet^Octets
=============================================================================
