--------------------------- MODULE Transfer_proofs ---------------------------
(***************************************************************************)
(* The content format, for files and records of any size.  Whatever units  *)
(* arrive, what a receiver has written is a prefix of the file, and the    *)
(* destination becomes the whole file or stays as it was.  The length that *)
(* is declared for a file is the one the encoder writes, and a link to it  *)
(* opens.                                                                  *)
(***************************************************************************)
EXTENDS Transfer, SequenceTheorems, WellFoundedInduction, TLAPS

-----------------------------------------------------------------------------
(* Arithmetic and sequences.                                               *)

LEMMA Times ==
  ASSUME NEW m \in Nat
  PROVE  /\ \A a \in Nat : a * m \in Nat /\ (a + 1) * m = a * m + m
         /\ 0 * m = 0
  OBVIOUS

LEMMA TimesMonotonic ==
  ASSUME NEW m \in Nat, NEW a \in Nat, NEW b \in Nat, a <= b
  PROVE  a * m <= b * m
  <1>1. \A x, y \in Nat : (x + y) * m = x * m + y * m /\ y * m \in Nat /\ x * m \in Nat
    OBVIOUS
  <1>2. b - a \in Nat /\ a + (b - a) = b
    OBVIOUS
  <1>3. b * m = a * m + (b - a) * m /\ (b - a) * m \in Nat /\ a * m \in Nat
    BY <1>1, <1>2
  <1> QED BY <1>3

(* The plaintext of a record continues the plaintext before it.            *)
LEMMA Continued ==
  ASSUME NEW a \in Nat, NEW n \in Nat
  PROVE  Plaintext(a) \o [i \in 1 .. n |-> a + i] = Plaintext(a + n)
  <1> DEFINE s == Plaintext(a)
             t == [i \in 1 .. n |-> a + i]
             u == Plaintext(a + n)
  <1>1. s \in Seq(Nat) /\ Len(s) = a /\ \A i \in 1 .. a : s[i] = i
    BY DEF Plaintext
  <1>2. t \in Seq(Nat) /\ Len(t) = n /\ \A i \in 1 .. n : t[i] = a + i
    OBVIOUS
  <1>3. u \in Seq(Nat) /\ Len(u) = a + n /\ \A i \in 1 .. a + n : u[i] = i
    BY DEF Plaintext
  <1> HIDE DEF s, t, u
  <1>4. s \o t \in Seq(Nat) /\ Len(s \o t) = a + n
    BY <1>1, <1>2
  <1>5. ASSUME NEW i \in 1 .. a + n PROVE (s \o t)[i] = u[i]
    <2>1. CASE i <= a
      BY <1>1, <1>2, <1>3, <2>1
    <2>2. CASE i > a
      <3>1. (s \o t)[i] = t[i - a] /\ i - a \in 1 .. n
        BY <1>1, <1>2, <2>2
      <3>2. t[i - a] = a + (i - a) /\ a + (i - a) = i
        BY <1>2, <3>1
      <3>3. u[i] = i
        BY <1>3
      <3> QED BY <3>1, <3>2, <3>3
    <2>3. i <= a \/ i > a
      OBVIOUS
    <2> QED BY <2>1, <2>2, <2>3
  <1>6. s \o t = u
    BY <1>3, <1>4, <1>5, SMTT(30)
  <1> QED BY <1>6 DEF s, t, u

LEMMA PlaintextFacts ==
  ASSUME NEW n \in Nat
  PROVE  Plaintext(n) \in Seq(Nat) /\ Len(Plaintext(n)) = n
  BY DEF Plaintext

-----------------------------------------------------------------------------
(* The encoder.                                                            *)

LEMMA Types ==
  ASSUME TypeOK
  PROVE  /\ MaxPlain \in Nat \ {0} /\ src.len \in Nat /\ Len(out) \in Nat
         /\ enc.n \in 0 .. MaxPlain /\ enc.read \in Nat /\ enc.closed \in BOOLEAN
         /\ rcv.seq \in Nat /\ rcv.pos \in Nat
  <1>1. MaxPlain \in Nat \ {0} /\ Lengths \subseteq Nat
    BY RecordAssumption, TransferAssumption DEF RecordAssumption, TransferAssumption
  <1>2. src.len \in Lengths
    BY DEF TypeOK
  <1>3. Len(out) \in Nat /\ enc.n \in 0 .. MaxPlain /\ enc.read \in Nat /\ enc.closed \in BOOLEAN
    BY DEF TypeOK
  <1>4. rcv.seq \in Nat /\ rcv.pos \in Nat
    BY DEF TypeOK, Receivers
  <1> QED BY <1>1, <1>2, <1>3, <1>4

LEMMA FullFacts ==
  ASSUME TypeOK, EncoderInv
  PROVE  Full \in Nat /\ Full * MaxPlain \in Nat /\ Full * MaxPlain <= src.len
  <1>0. /\ MaxPlain \in Nat /\ src.len \in Nat /\ Len(out) \in Nat
        /\ enc.n \in Nat /\ enc.read \in Nat /\ enc.closed \in BOOLEAN
    BY Types
  <1>1. Full \in Nat
    <2>1. enc.closed => Len(out) > 0
      BY DEF EncoderInv
    <2> QED BY <1>0, <2>1 DEF Full
  <1>2. Full * MaxPlain \in Nat
    BY <1>0, <1>1, Times
  <1>3. CASE ~enc.closed
    <2>1. enc.read = Full * MaxPlain + enc.n /\ enc.read <= src.len
      BY <1>3 DEF EncoderInv
    <2> QED BY <1>0, <1>1, <1>2, <2>1
  <1>4. CASE enc.closed
    <2>1. Len(out) > 0 /\ out[Len(out)].n = src.len - Full * MaxPlain
      BY <1>4 DEF EncoderInv
    <2>2. out \in Seq(Record) /\ Len(out) \in 1 .. Len(out)
      BY <1>0, <2>1 DEF TypeOK
    <2>3. out[Len(out)] \in Record
      BY <2>2
    <2>4. out[Len(out)].n \in 0 .. MaxPlain
      BY <2>3 DEF Record
    <2> QED BY <1>0, <1>1, <1>2, <2>1, <2>4
  <1> QED BY <1>0, <1>1, <1>2, <1>3, <1>4

-----------------------------------------------------------------------------
(* Steps of the sender.                                                    *)

(* A step that seals nothing and leaves the receiver alone.                *)
LEMMA Elsewhere ==
  ASSUME Inv, UNCHANGED <<src, enc, out, rcv, temp, dest>>,
         snd' \in Senders,
         link' \in BOOLEAN, damages' \in 0 .. MaxDamages, inst' \in Descriptions
  PROVE  Inv'
  <1>1. TypeOK'
    BY DEF Inv, TypeOK
  <1>2. Full' = Full
    BY DEF Full
  <1>3. EncoderInv'
    BY <1>2 DEF Inv, EncoderInv
  <1>4. ReceiverInv'
    BY <1>2 DEF Inv, ReceiverInv, Plaintext
  <1>5. SavedWhole'
    BY DEF Inv, SavedWhole, Plaintext
  <1> QED BY <1>1, <1>3, <1>4, <1>5 DEF Inv

(* The sender's next place.                                                *)
LEMMA SndSteps ==
  ASSUME TypeOK, NEW pc \in {"spool", "create", "stream", "done", "failed", "interrupted"}, SndStep(pc)
  PROVE  snd' \in Senders
  BY DEF TypeOK, SndStep, Senders

LEMMA QuietKeeps ==
  ASSUME Inv, NEW p \in Passwords, NEW again \in Passwords,
         \/ TakePassword(p) \/ PromptPassword(p, again) \/ OpenSource \/ SourceFails
         \/ BodyMismatch \/ SendAnswered \/ SendBroken \/ Interrupt
  PROVE  Inv'
  <1>0. TypeOK /\ inst \in Descriptions /\ link \in BOOLEAN /\ damages \in 0 .. MaxDamages
    BY DEF Inv, TypeOK
  <1>1. CASE TakePassword(p) \/ PromptPassword(p, again)
    <2>1. snd' \in Senders
      BY <1>0, <1>1 DEF TypeOK, Senders, TakePassword, PromptPassword
    <2> QED BY <1>0, <1>1, <2>1, Elsewhere DEF TakePassword, PromptPassword, receiver
  <1>2. CASE OpenSource
    <2>1. SndStep("spool") \/ SndStep("create")
      BY <1>2 DEF OpenSource
    <2> QED BY <1>0, <1>2, <2>1, SndSteps, Elsewhere DEF OpenSource, receiver
  <1>3. CASE SourceFails
    BY <1>0, <1>3, SndSteps, Elsewhere DEF SourceFails, receiver
  <1>4. CASE BodyMismatch
    BY <1>0, <1>4, SndSteps, Elsewhere DEF BodyMismatch, receiver
  <1>5. CASE SendAnswered
    BY <1>0, <1>5, SndSteps, Elsewhere DEF SendAnswered, receiver
  <1>6. CASE SendBroken
    BY <1>0, <1>6, SndSteps, Elsewhere DEF SendBroken, receiver
  <1>7. CASE Interrupt
    BY <1>0, <1>7, SndSteps, Elsewhere DEF Interrupt, receiver
  <1> QED BY <1>1, <1>2, <1>3, <1>4, <1>5, <1>6, <1>7

LEMMA CreateUploadKeeps ==
  ASSUME Inv, NEW accepted \in BOOLEAN, NEW arrives \in BOOLEAN, CreateUpload(accepted, arrives)
  PROVE  Inv'
  <1>0. TypeOK /\ inst \in Descriptions /\ link \in BOOLEAN /\ damages \in 0 .. MaxDamages
    BY DEF Inv, TypeOK
  <1>1. PlainSize \in Nat
    <2>1. src.stat \in Lengths \cup {Pipe} /\ Lengths \subseteq Nat /\ enc.read \in Nat
      BY <1>0, TransferAssumption DEF TypeOK, TransferAssumption
    <2> QED BY <2>1 DEF PlainSize
  <1>2. Description \in Descriptions
    <2>1. snd.password \in Passwords
      BY <1>0 DEF TypeOK, Senders
    <2> QED BY <1>1, <2>1 DEF Description, Descriptions
  <1>3. inst' \in Descriptions
    BY <1>0, <1>2 DEF CreateUpload
  <1>4. SndStep("stream") \/ SndStep("failed")
    BY DEF CreateUpload
  <1> QED BY <1>0, <1>3, <1>4, SndSteps, Elsewhere DEF CreateUpload, receiver

(* What the instance does with the upload, and what becomes of it.         *)
LEMMA InstanceKeeps ==
  ASSUME Inv, StoreUnit \/ FinishUpload \/ Removed \/ Damaged
  PROVE  Inv'
  <1>0. /\ TypeOK /\ inst \in Descriptions /\ link \in BOOLEAN /\ damages \in 0 .. MaxDamages
        /\ snd \in Senders
    BY DEF Inv, TypeOK
  <1>1. CASE StoreUnit
    BY <1>0, <1>1, Elsewhere DEF StoreUnit, sender, receiver
  <1>2. CASE FinishUpload
    <2>1. inst' \in Descriptions
      BY <1>0, <1>2 DEF FinishUpload, Descriptions
    <2> QED BY <1>0, <1>2, <2>1, Elsewhere DEF FinishUpload, sender, receiver
  <1>3. CASE Removed
    <2>1. NoUpload \in Descriptions
      BY TransferAssumption DEF NoUpload, Descriptions, TransferAssumption
    <2> QED BY <1>0, <1>3, <2>1, Elsewhere DEF Removed, sender, receiver
  <1>4. CASE Damaged
    <2>1. PICK s : Damage(s)
      BY <1>4 DEF Damaged
    <2>2. damages' \in 0 .. MaxDamages
      BY <1>0, <2>1, TransferAssumption DEF Damage, TransferAssumption
    <2> QED BY <1>0, <2>1, <2>2, Elsewhere DEF Damage, sender, receiver
  <1> QED BY <1>1, <1>2, <1>3, <1>4

-----------------------------------------------------------------------------
(* Steps of the encoder.                                                   *)

(* The receiver does not depend on how far the encoder is.                 *)
LEMMA ReceiverUnmoved ==
  ASSUME Inv, UNCHANGED <<src, rcv, temp, dest>>, Full' \in Nat, Full <= Full'
  PROVE  ReceiverInv' /\ SavedWhole'
  <1>1. ReceiverInv /\ SavedWhole /\ TypeOK /\ EncoderInv
    BY DEF Inv
  <1>2. rcv.seq \in Nat /\ Full \in Nat
    BY <1>1, Types, FullFacts
  <1>3. rcv.pc = "records" => rcv.seq <= Full'
    BY <1>1, <1>2 DEF ReceiverInv
  <1>4. ReceiverInv'
    BY <1>1, <1>3 DEF ReceiverInv, Plaintext
  <1> QED BY <1>1, <1>4 DEF SavedWhole, Plaintext

(* The encoder's buffer takes one more unit.                               *)
LEMMA Buffers ==
  ASSUME TypeOK, NEW n \in 0 .. MaxPlain, NEW r \in Nat, enc' = [enc EXCEPT !.n = n, !.read = r]
  PROVE  /\ enc' \in [n : 0 .. MaxPlain, read : Nat, closed : BOOLEAN]
         /\ enc'.n = n /\ enc'.read = r /\ enc'.closed = enc.closed
  <1>1. enc \in [n : 0 .. MaxPlain, read : Nat, closed : BOOLEAN]
    BY DEF TypeOK
  <1>2. enc' \in [n : 0 .. MaxPlain, read : Nat, closed : BOOLEAN]
    BY <1>1
  <1> QED BY <1>1, <1>2

LEMMA Closes ==
  ASSUME TypeOK, MaxPlain \in Nat, enc' = [enc EXCEPT !.n = 0, !.closed = TRUE]
  PROVE  /\ enc' \in [n : 0 .. MaxPlain, read : Nat, closed : BOOLEAN]
         /\ enc'.read = enc.read /\ enc'.closed
  <1>1. enc \in [n : 0 .. MaxPlain, read : Nat, closed : BOOLEAN] /\ 0 \in 0 .. MaxPlain
    BY DEF TypeOK
  <1>2. enc' \in [n : 0 .. MaxPlain, read : Nat, closed : BOOLEAN]
    BY <1>1
  <1>3. enc'.read = enc.read
    BY <1>1
  <1>4. enc'.closed = TRUE
    BY <1>1
  <1> QED BY <1>2, <1>3, <1>4

LEMMA EncodeUnitKeeps ==
  ASSUME Inv, EncodeUnit
  PROVE  Inv'
  <1>0. /\ TypeOK /\ EncoderInv /\ enc.read < src.len /\ ~enc.closed
        /\ enc.read = Full * MaxPlain + enc.n
        /\ UNCHANGED <<src, snd, inst, link, rcv, temp, dest, damages>>
    <2>1. TypeOK /\ EncoderInv /\ enc.read < src.len
      BY DEF Inv, EncodeUnit
    <2>2. ~enc.closed
      <3>1. enc.closed => enc.read = src.len
        BY <2>1 DEF EncoderInv
      <3> QED BY <2>1, <3>1, Types
    <2> QED BY <2>1, <2>2 DEF EncodeUnit, receiver, EncoderInv
  <1>1. /\ MaxPlain \in Nat \ {0} /\ src.len \in Nat /\ Len(out) \in Nat /\ out \in Seq(Record)
        /\ enc.n \in 0 .. MaxPlain /\ enc.read \in Nat /\ Full = Len(out)
    BY <1>0, Types DEF Full, TypeOK
  <1>2. CASE enc.n = MaxPlain
    <2> DEFINE r == [n |-> MaxPlain, final |-> FALSE]
    <2>1. r \in Record /\ out' = Append(out, r) /\ enc' = [enc EXCEPT !.n = 1, !.read = @ + 1]
      BY <1>1, <1>2 DEF EncodeUnit, Record
    <2>2. /\ enc' \in [n : 0 .. MaxPlain, read : Nat, closed : BOOLEAN]
          /\ enc'.n = 1 /\ enc'.read = enc.read + 1 /\ ~enc'.closed
      <3>1. 1 \in 0 .. MaxPlain /\ enc.read + 1 \in Nat
        BY <1>1
      <3> QED BY <1>0, <2>1, <3>1, Buffers
    <2> HIDE DEF r
    <2>3. /\ out' \in Seq(Record) /\ Len(out') = Len(out) + 1 /\ out'[Len(out) + 1] = r
          /\ \A k \in 1 .. Len(out) : out'[k] = out[k]
      BY <1>1, <2>1
    <2>4. Full' = Full + 1 /\ Full \in Nat
      BY <1>1, <2>2, <2>3 DEF Full
    <2>5. TypeOK'
      BY <1>0, <2>2, <2>3 DEF TypeOK
    <2>6. \A k \in 1 .. Full' : out'[k] = r
      <3> SUFFICES ASSUME NEW k \in 1 .. Full' PROVE out'[k] = r
        OBVIOUS
      <3>1. k \in 1 .. Full \/ k = Len(out) + 1
        BY <1>1, <2>4
      <3>2. k \in 1 .. Full => out[k] = r
        BY <1>0 DEF EncoderInv, r
      <3> QED BY <1>1, <2>3, <3>1, <3>2
    <2>7. enc'.read = Full' * MaxPlain + enc'.n
      <3>1. (Full + 1) * MaxPlain = Full * MaxPlain + MaxPlain /\ Full * MaxPlain \in Nat
        BY <1>1, <2>4, Times
      <3> QED BY <1>0, <1>1, <1>2, <2>2, <2>4, <3>1
    <2>8. enc'.read <= src'.len
      BY <1>0, <1>1, <2>2
    <2>9. EncoderInv'
      BY <2>2, <2>6, <2>7, <2>8 DEF EncoderInv, r
    <2>10. ReceiverInv' /\ SavedWhole'
      BY <1>0, <2>4, ReceiverUnmoved
    <2> QED BY <2>5, <2>9, <2>10 DEF Inv
  <1>3. CASE enc.n # MaxPlain
    <2>1. enc' = [enc EXCEPT !.n = @ + 1, !.read = @ + 1] /\ UNCHANGED out
      BY <1>3 DEF EncodeUnit
    <2>2. /\ enc' \in [n : 0 .. MaxPlain, read : Nat, closed : BOOLEAN]
          /\ enc'.n = enc.n + 1 /\ enc'.read = enc.read + 1 /\ ~enc'.closed
      <3>1. enc.n + 1 \in 0 .. MaxPlain /\ enc.read + 1 \in Nat
        BY <1>1, <1>3
      <3> QED BY <1>0, <2>1, <3>1, Buffers
    <2>3. Full' = Full /\ Full \in Nat /\ Full * MaxPlain \in Nat
      BY <1>0, <1>1, <2>1, <2>2, FullFacts DEF Full
    <2>4. TypeOK'
      BY <1>0, <2>1, <2>2 DEF TypeOK
    <2>5. enc'.read = Full' * MaxPlain + enc'.n /\ enc'.read <= src'.len
      <3>1. PICK m \in Nat : m = Full * MaxPlain
        BY <2>3
      <3>2. enc.read = m + enc.n
        BY <1>0, <3>1
      <3>3. enc.n \in Nat /\ enc'.read = m + enc'.n
        BY <1>1, <2>2, <3>2
      <3>4. enc'.read <= src.len
        BY <1>0, <1>1, <2>2
      <3> QED BY <1>0, <2>3, <3>1, <3>3, <3>4
    <2>6. EncoderInv'
      BY <1>0, <2>1, <2>2, <2>3, <2>5 DEF EncoderInv
    <2>7. ReceiverInv' /\ SavedWhole'
      BY <1>0, <2>3, ReceiverUnmoved
    <2> QED BY <2>4, <2>6, <2>7 DEF Inv
  <1> QED BY <1>2, <1>3

LEMMA CloseEncoderKeeps ==
  ASSUME Inv, CloseEncoder
  PROVE  Inv'
  <1>0. /\ TypeOK /\ EncoderInv /\ enc.read = src.len /\ ~enc.closed
        /\ enc.read = Full * MaxPlain + enc.n
        /\ UNCHANGED <<src, inst, link, rcv, temp, dest, damages>>
    BY DEF Inv, CloseEncoder, receiver, EncoderInv
  <1>1. /\ MaxPlain \in Nat \ {0} /\ src.len \in Nat /\ Len(out) \in Nat /\ out \in Seq(Record)
        /\ enc.n \in 0 .. MaxPlain /\ Full = Len(out) /\ Full * MaxPlain \in Nat
    BY <1>0, Types, FullFacts DEF Full, TypeOK
  <1> DEFINE r == [n |-> enc.n, final |-> TRUE]
  <1>2. /\ r \in Record /\ r.final /\ r.n = enc.n
        /\ out' = Append(out, r) /\ enc' = [enc EXCEPT !.n = 0, !.closed = TRUE]
    BY <1>1 DEF CloseEncoder, Record
  <1>3. /\ enc' \in [n : 0 .. MaxPlain, read : Nat, closed : BOOLEAN]
        /\ enc'.read = enc.read /\ enc'.closed
    BY <1>0, <1>1, <1>2, Closes
  <1> HIDE DEF r
  <1>4. /\ out' \in Seq(Record) /\ Len(out') = Len(out) + 1 /\ out'[Len(out) + 1] = r
        /\ \A k \in 1 .. Len(out) : out'[k] = out[k]
    BY <1>1, <1>2
  <1>5. Full' = Full /\ Full \in Nat
    BY <1>1, <1>3, <1>4 DEF Full
  <1>6. snd' \in Senders
    <2>1. UNCHANGED snd \/ SndStep("create")
      BY DEF CloseEncoder
    <2> QED BY <1>0, <2>1, SndSteps DEF TypeOK
  <1>7. TypeOK'
    BY <1>0, <1>3, <1>4, <1>6 DEF TypeOK
  <1>8. out'[Len(out')].final /\ out'[Len(out')].n = src.len - Full' * MaxPlain
    BY <1>0, <1>1, <1>2, <1>4, <1>5
  <1>9. EncoderInv'
    <2>1. \A k \in 1 .. Full' : out'[k] = [n |-> MaxPlain, final |-> FALSE]
      <3>1. \A k \in 1 .. Full : out[k] = [n |-> MaxPlain, final |-> FALSE]
        BY <1>0 DEF EncoderInv
      <3>2. 1 .. Full' = 1 .. Len(out)
        BY <1>1, <1>5
      <3> QED BY <1>1, <1>4, <3>1, <3>2
    <2>2. enc'.read = src'.len /\ enc'.read <= src'.len /\ Len(out') > 0
      <3>1. enc'.read = src.len /\ src' = src
        BY <1>0, <1>3
      <3>2. Len(out') > 0
        BY <1>1, <1>4
      <3> QED BY <1>1, <3>1, <3>2
    <2> QED BY <1>0, <1>3, <1>8, <2>1, <2>2 DEF EncoderInv
  <1>10. ReceiverInv' /\ SavedWhole'
    BY <1>0, <1>5, ReceiverUnmoved
  <1> QED BY <1>7, <1>9, <1>10 DEF Inv

-----------------------------------------------------------------------------
(* Steps of the receiver.                                                  *)

(* A step of the receiver is judged by what it leaves in the two files.    *)
LEMMA ReceiverMoves ==
  ASSUME Inv, UNCHANGED <<sender, inst, damages>>, rcv' \in Receivers,
         dest' \in {Old, Plaintext(src.len)}, ReceiverInv'
  PROVE  Inv'
  <1>0. UNCHANGED <<src, snd, enc, out, link, inst, damages>>
    BY DEF sender
  <1>1. TypeOK'
    BY <1>0 DEF Inv, TypeOK
  <1>2. EncoderInv'
    <2>1. Full' = Full
      BY <1>0 DEF Full
    <2> QED BY <1>0, <2>1 DEF Inv, EncoderInv
  <1>3. SavedWhole'
    BY <1>0 DEF SavedWhole, Plaintext
  <1> QED BY <1>1, <1>2, <1>3 DEF Inv

LEMMA FailsKeeps ==
  ASSUME Inv, NEW cause \in {"unavailable", "password", "broken", "damaged", "disk"}, Fails(cause)
  PROVE  Inv'
  <1>0. /\ TypeOK /\ ReceiverInv /\ SavedWhole /\ rcv \in Receivers /\ UNCHANGED <<dest, src>>
    BY DEF Inv, TypeOK, Fails, sender
  <1>1. rcv' = [rcv EXCEPT !.pc = "failed", !.cause = cause]
    BY DEF Fails
  <1>2. rcv' \in Receivers /\ rcv'.pc = "failed" /\ rcv'.stdout = rcv.stdout
    BY <1>0, <1>1 DEF Receivers
  <1>3. temp' = temp \/ temp' = NoFile
    BY DEF Fails
  <1>4. ReceiverInv'
    BY <1>0, <1>2, <1>3 DEF ReceiverInv, Plaintext
  <1> QED BY <1>0, <1>2, <1>4, ReceiverMoves DEF Fails, SavedWhole

LEMMA DescribeKeeps ==
  ASSUME Inv, Describe
  PROVE  Inv'
  <1>1. CASE Fails("unavailable")
    BY <1>1, FailsKeeps
  <1>2. CASE Continues([rcv EXCEPT !.pc = "open", !.file = inst]) /\ UNCHANGED temp
    <2>0. TypeOK /\ ReceiverInv /\ SavedWhole /\ rcv \in Receivers /\ inst \in Descriptions /\ rcv.pc = "idle"
      BY DEF Inv, TypeOK, Describe
    <2>1. rcv' = [rcv EXCEPT !.pc = "open", !.file = inst] /\ UNCHANGED <<dest, src>>
      BY <1>2 DEF Continues, sender
    <2>2. rcv' \in Receivers /\ rcv'.pc = "open" /\ rcv'.stdout = rcv.stdout /\ rcv'.seq = rcv.seq
      BY <2>0, <2>1 DEF Receivers
    <2>3. ReceiverInv'
      BY <1>2, <2>0, <2>1, <2>2 DEF ReceiverInv, Plaintext
    <2> QED BY <1>2, <2>0, <2>2, <2>3, ReceiverMoves DEF Continues, SavedWhole
  <1> QED BY <1>1, <1>2 DEF Describe

LEMMA OpenUploadKeeps ==
  ASSUME Inv, NEW p \in Passwords, NEW stdout \in BOOLEAN, NEW ok \in BOOLEAN,
         OpenUpload(p, stdout, ok)
  PROVE  Inv'
  <1>1. CASE Fails("password") \/ Fails("disk")
    BY <1>1, FailsKeeps
  <1>2. CASE Continues([rcv EXCEPT !.pc = "header", !.stdout = stdout]) /\ temp' = <<>>
    <2>0. TypeOK /\ ReceiverInv /\ SavedWhole /\ rcv \in Receivers /\ rcv.pc = "open" /\ src.len \in Nat
      BY Types DEF Inv, TypeOK, OpenUpload
    <2>1. rcv' = [rcv EXCEPT !.pc = "header", !.stdout = stdout] /\ UNCHANGED <<dest, src>>
      BY <1>2 DEF Continues, sender
    <2>2. rcv' \in Receivers /\ rcv'.pc = "header" /\ rcv'.seq = rcv.seq
      BY <2>0, <2>1 DEF Receivers
    <2>3. temp' = Plaintext(0) /\ 0 \in 0 .. src.len
      BY <1>2, <2>0 DEF Plaintext
    <2>4. ReceiverInv'
      BY <2>0, <2>1, <2>2, <2>3 DEF ReceiverInv, Plaintext
    <2> QED BY <1>2, <2>0, <2>2, <2>4, ReceiverMoves DEF Continues, SavedWhole
  <1> QED BY <1>1, <1>2 DEF OpenUpload, OpenDestination

LEMMA ReadHeaderKeeps ==
  ASSUME Inv, ReadHeader
  PROVE  Inv'
  <1>1. CASE Fails("unavailable") \/ Fails("damaged")
    BY <1>1, FailsKeeps
  <1>2. CASE Continues([rcv EXCEPT !.pc = "records", !.pos = 2]) /\ UNCHANGED temp
    <2>0. /\ TypeOK /\ EncoderInv /\ ReceiverInv /\ SavedWhole /\ rcv \in Receivers /\ rcv.pc = "header"
          /\ Full \in Nat /\ MaxPlain \in Nat
      BY Types, FullFacts DEF Inv, TypeOK, ReadHeader
    <2>1. rcv' = [rcv EXCEPT !.pc = "records", !.pos = 2] /\ UNCHANGED <<dest, src, enc, out>>
      BY <1>2 DEF Continues, sender
    <2>2. rcv' \in Receivers /\ rcv'.pc = "records" /\ rcv'.seq = 0
      BY <2>0, <2>1 DEF Receivers, ReceiverInv
    <2>3. Full' = Full /\ 0 <= Full
      BY <2>0, <2>1 DEF Full
    <2>4. temp' = Plaintext(rcv'.seq * MaxPlain)
      BY <1>2, <2>0, <2>2, Times DEF ReceiverInv
    <2>5. ReceiverInv'
      <3>1. \E n \in 0 .. src.len : temp' = Plaintext(n)
        <4>1. 0 \in 0 .. src.len /\ temp = Plaintext(0)
          BY <2>0, Types DEF ReceiverInv
        <4> QED BY <1>2, <4>1
      <3> QED BY <2>1, <2>2, <2>3, <2>4, <3>1 DEF ReceiverInv, Plaintext
    <2> QED BY <1>2, <2>0, <2>2, <2>5, ReceiverMoves DEF Continues, SavedWhole
  <1> QED BY <1>1, <1>2 DEF ReadHeader

(* A slice that opens is the record sealed at this place, and its          *)
(* plaintext continues what was written.                                   *)
LEMMA Opened ==
  ASSUME Inv, rcv.pc = "records", Opens(out, Slice, rcv.seq)
  PROVE  /\ Origin(Slice) = rcv.seq + 1 /\ rcv.seq + 1 \in 1 .. Len(out)
         /\ out[rcv.seq + 1] \in Record /\ Len(Slice) = out[rcv.seq + 1].n + 1
         /\ temp \o PlainOf(out, rcv.seq + 1) = Plaintext(rcv.seq * MaxPlain + out[rcv.seq + 1].n)
  <1>0. /\ TypeOK /\ ReceiverInv /\ out \in Seq(Record) /\ MaxPlain \in Nat /\ rcv.seq \in Nat
    BY Types DEF Inv, TypeOK
  <1>1. rcv.seq + 1 \in 1 .. Len(out) /\ Slice = RecordUnits(out, rcv.seq + 1)
    BY <1>0 DEF Opens
  <1>2. out[rcv.seq + 1] \in Record
    BY <1>0, <1>1
  <1>3. PICK n \in Nat : n = out[rcv.seq + 1].n
    BY <1>0, <1>2 DEF Record
  <1>4. PICK k : k = rcv.seq + 1
    OBVIOUS
  <1>5. k - 1 = rcv.seq /\ Slice = [i \in 1 .. n + 1 |-> <<k - 1, i>>]
    BY <1>0, <1>1, <1>3, <1>4 DEF RecordUnits
  <1>6. Len(Slice) = n + 1 /\ Origin(Slice) = rcv.seq + 1
    <2>1. Slice[1] = <<k - 1, 1>> /\ Len(Slice) = n + 1
      BY <1>3, <1>5
    <2> QED BY <1>5, <2>1 DEF Origin
  <1>7. PICK m \in Nat : m = rcv.seq * MaxPlain
    BY <1>0, Times
  <1>8. PlainOf(out, rcv.seq + 1) = [i \in 1 .. n |-> m + i]
    <2>1. PlainOf(out, k) = [i \in 1 .. n |-> (k - 1) * MaxPlain + i] /\ (k - 1) * MaxPlain = m
      BY <1>3, <1>4, <1>5, <1>7 DEF PlainOf
    <2> QED BY <1>4, <2>1
  <1>9. temp = Plaintext(m)
    BY <1>0, <1>7 DEF ReceiverInv
  <1>10. temp \o PlainOf(out, rcv.seq + 1) = Plaintext(m + n)
    BY <1>8, <1>9, Continued
  <1> QED BY <1>1, <1>2, <1>3, <1>6, <1>7, <1>10

LEMMA NextRecordKeeps ==
  ASSUME Inv, NextRecord
  PROVE  Inv'
  <1>1. CASE Fails("damaged")
    BY <1>1, FailsKeeps
  <1>2. CASE ~Fails("damaged")
    <2>0. /\ TypeOK /\ EncoderInv /\ ReceiverInv /\ SavedWhole /\ rcv \in Receivers /\ rcv.pc = "records"
          /\ Full \in Nat /\ MaxPlain \in Nat /\ rcv.seq \in Nat /\ rcv.pos \in Nat /\ src.len \in Nat
          /\ Full * MaxPlain \in Nat /\ Full * MaxPlain <= src.len /\ rcv.seq <= Full
          /\ Len(out) \in Nat /\ enc.closed \in BOOLEAN
      BY Types, FullFacts DEF Inv, TypeOK, NextRecord, ReceiverInv
    <2>1. PICK k : k = rcv.seq + 1
      OBVIOUS
    <2>2. /\ Opens(out, Slice, rcv.seq) /\ temp' = temp \o PlainOf(out, Origin(Slice))
          /\ Continues([rcv EXCEPT !.pc = IF out[Origin(Slice)].final THEN "finish" ELSE "records",
                                   !.pos = @ + Len(Slice), !.seq = @ + 1])
      BY <1>2 DEF NextRecord
    <2>3. /\ k \in 1 .. Len(out) /\ out[k] \in Record /\ Origin(Slice) = k
          /\ Len(Slice) \in Nat /\ out[k].n \in Nat /\ out[k].final \in BOOLEAN
          /\ temp' = Plaintext(rcv.seq * MaxPlain + out[k].n)
      <3>1. /\ k \in 1 .. Len(out) /\ out[k] \in Record /\ Origin(Slice) = k /\ Len(Slice) = out[k].n + 1
            /\ temp \o PlainOf(out, k) = Plaintext(rcv.seq * MaxPlain + out[k].n)
        BY <2>0, <2>1, <2>2, Opened
      <3>2. out[k].n \in Nat /\ out[k].final \in BOOLEAN
        BY <2>0, <3>1 DEF Record
      <3> QED BY <2>2, <3>1, <3>2
    <2>4. UNCHANGED <<dest, src, enc, out>> /\ Full' = Full
      BY <2>2 DEF Continues, sender, Full
    <2>5. /\ rcv' \in Receivers /\ rcv'.seq = k /\ rcv'.stdout = rcv.stdout
          /\ rcv'.pc = IF out[k].final THEN "finish" ELSE "records"
      <3>1. PICK pc \in {"finish", "records"} : pc = IF out[k].final THEN "finish" ELSE "records"
        OBVIOUS
      <3>2. PICK pos \in Nat : pos = rcv.pos + Len(Slice)
        BY <2>0, <2>3
      <3>3. rcv' = [rcv EXCEPT !.pc = pc, !.pos = pos, !.seq = k]
        BY <2>1, <2>2, <2>3, <3>1, <3>2 DEF Continues
      <3>4. k \in Nat
        BY <2>0, <2>1
      <3>5. rcv' \in Receivers
        BY <2>0, <3>3, <3>4 DEF Receivers
      <3> QED BY <2>0, <3>1, <3>3, <3>5 DEF Receivers
    <2>6. CASE ~out[k].final
      <3>1. k <= Full
        <4>1. enc.closed => out[Len(out)].final
          BY <2>0 DEF EncoderInv
        <4> QED BY <2>0, <2>3, <2>6, <4>1 DEF Full
      <3>2. out[k] = [n |-> MaxPlain, final |-> FALSE]
        <4>1. k \in 1 .. Full
          BY <2>0, <2>3, <3>1
        <4> QED BY <2>0, <4>1 DEF EncoderInv
      <3>3. rcv.seq * MaxPlain + MaxPlain = k * MaxPlain
        BY <2>0, <2>1, Times
      <3>4. temp' = Plaintext(k * MaxPlain)
        BY <2>3, <3>2, <3>3
      <3>5. k * MaxPlain \in 0 .. src.len
        <4>1. k \in Nat /\ k * MaxPlain \in Nat
          BY <2>0, <2>1, Times
        <4>2. k * MaxPlain <= Full * MaxPlain
          BY <2>0, <3>1, <4>1, TimesMonotonic
        <4> QED BY <2>0, <4>1, <4>2
      <3>6. rcv'.pc = "records" /\ \E n \in 0 .. src.len : temp' = Plaintext(n)
        BY <2>5, <2>6, <3>4, <3>5
      <3>7. ReceiverInv'
        BY <2>4, <2>5, <3>1, <3>4, <3>6 DEF ReceiverInv, Plaintext
      <3> QED BY <2>0, <2>2, <2>5, <3>7, ReceiverMoves DEF Continues, SavedWhole
    <2>7. CASE out[k].final
      <3>1. k > Full
        <4>1. \A j \in 1 .. Full : ~out[j].final
          BY <2>0 DEF EncoderInv
        <4> QED BY <2>0, <2>3, <2>7, <4>1
      <3>2. enc.closed /\ k = Len(out) /\ rcv.seq = Full
        BY <2>0, <2>1, <2>3, <3>1 DEF Full
      <3>3. out[k].n = src.len - Full * MaxPlain
        BY <2>0, <3>2 DEF EncoderInv
      <3>4. rcv.seq * MaxPlain + out[k].n = src.len
        BY <2>0, <3>2, <3>3
      <3>5. temp' = Plaintext(src.len) /\ src.len \in 0 .. src.len
        BY <2>0, <2>3, <3>4
      <3>6. rcv'.pc = "finish"
        BY <2>5, <2>7
      <3>7. ReceiverInv'
        BY <2>4, <3>5, <3>6 DEF ReceiverInv, Plaintext
      <3> QED BY <2>0, <2>2, <2>5, <3>7, ReceiverMoves DEF Continues, SavedWhole
    <2> QED BY <2>6, <2>7
  <1> QED BY <1>1, <1>2

LEMMA FinishKeeps ==
  ASSUME Inv, NEW ok \in BOOLEAN, Finish(ok)
  PROVE  Inv'
  <1>1. CASE Fails("damaged") \/ Fails("disk")
    BY <1>1, FailsKeeps
  <1>2. CASE /\ rcv' = [rcv EXCEPT !.pc = "saved"]
             /\ dest' = IF rcv.stdout THEN dest ELSE temp
             /\ temp' = IF rcv.stdout THEN temp ELSE NoFile
             /\ UNCHANGED <<sender, inst, stored, damages>>
    <2>0. TypeOK /\ ReceiverInv /\ SavedWhole /\ rcv \in Receivers /\ rcv.pc = "finish" /\ UNCHANGED src
      BY <1>2 DEF Inv, TypeOK, Finish, sender
    <2>1. rcv' \in Receivers /\ rcv'.pc = "saved" /\ rcv'.stdout = rcv.stdout
      BY <1>2, <2>0 DEF Receivers
    <2>2. (temp' = temp /\ rcv.stdout) \/ temp' = NoFile
      BY <1>2
    <2>3. ReceiverInv'
      BY <2>0, <2>1, <2>2 DEF ReceiverInv, Plaintext
    <2>4. dest' \in {Old, Plaintext(src.len)}
      BY <1>2, <2>0 DEF ReceiverInv, SavedWhole
    <2> QED BY <1>2, <2>1, <2>3, <2>4, ReceiverMoves
  <1> QED BY <1>1, <1>2 DEF Finish, Settle

LEMMA KilledKeeps ==
  ASSUME Inv, Killed
  PROVE  Inv'
  <1>0. /\ TypeOK /\ ReceiverInv /\ SavedWhole /\ rcv \in Receivers
        /\ UNCHANGED <<src, temp, dest>> /\ rcv' = [rcv EXCEPT !.pc = "killed"]
    BY DEF Inv, TypeOK, Killed, sender
  <1>1. rcv' \in Receivers /\ rcv'.pc = "killed"
    BY <1>0 DEF Receivers
  <1>2. ReceiverInv'
    BY <1>0, <1>1 DEF ReceiverInv, Plaintext
  <1> QED BY <1>0, <1>1, <1>2, ReceiverMoves DEF Killed, SavedWhole

-----------------------------------------------------------------------------

LEMMA InitInv == Init => Inv
  <1> SUFFICES ASSUME Init PROVE Inv
    OBVIOUS
  <1>0. /\ MaxPlain \in Nat \ {0} /\ Lengths \subseteq Nat /\ NoPassword \in Passwords /\ MaxDamages \in Nat
    BY RecordAssumption, TransferAssumption DEF RecordAssumption, TransferAssumption
  <1>1. NoUpload \in Descriptions
    BY <1>0 DEF NoUpload, Descriptions
  <1>2. rcv \in Receivers /\ rcv.pc = "idle" /\ rcv.seq = 0 /\ rcv.stdout = FALSE
    BY <1>1 DEF Init, Receivers
  <1>3. /\ enc \in [n : 0 .. MaxPlain, read : Nat, closed : BOOLEAN]
        /\ enc.n = 0 /\ enc.read = 0 /\ enc.closed = FALSE
    BY <1>0 DEF Init
  <1>4. out \in Seq(Record) /\ Len(out) = 0
    BY DEF Init
  <1>5. snd \in Senders /\ 0 \in 0 .. MaxDamages
    BY <1>0 DEF Init, Senders
  <1>6. TypeOK
    BY <1>1, <1>2, <1>3, <1>4, <1>5 DEF Init, TypeOK
  <1>7. Full = 0 /\ 0 * MaxPlain + 0 = 0
    BY <1>0, <1>3, <1>4, Times DEF Full
  <1>8. src.len \in Nat
    BY <1>6, Types
  <1>9. EncoderInv
    BY <1>3, <1>7, <1>8 DEF EncoderInv
  <1>10. ReceiverInv /\ SavedWhole
    BY <1>2 DEF Init, ReceiverInv, SavedWhole
  <1> QED BY <1>6, <1>9, <1>10 DEF Inv

(* The invariant is kept by every step.                                    *)
LEMMA StepKeeps ==
  ASSUME Inv, [Next]_vars
  PROVE  Inv'
  <1>1. CASE Next
    <2>0. NoPassword \in Passwords
      BY TransferAssumption DEF TransferAssumption
    <2>1. CASE \E p, again \in Passwords : TakePassword(p) \/ PromptPassword(p, again)
      BY <2>1, QuietKeeps
    <2>2. CASE OpenSource \/ SourceFails \/ BodyMismatch \/ SendAnswered \/ SendBroken \/ Interrupt
      BY <2>0, <2>2, QuietKeeps
    <2>3. CASE EncodeUnit \/ CloseEncoder
      BY <2>3, EncodeUnitKeeps, CloseEncoderKeeps
    <2>4. CASE \E accepted, arrives \in BOOLEAN : CreateUpload(accepted, arrives)
      BY <2>4, CreateUploadKeeps
    <2>5. CASE StoreUnit \/ FinishUpload \/ Removed \/ Damaged
      BY <2>5, InstanceKeeps
    <2>6. CASE Describe \/ FetchBroken \/ ReadHeader \/ NextRecord \/ Killed
      BY <2>6, DescribeKeeps, FailsKeeps, ReadHeaderKeeps, NextRecordKeeps, KilledKeeps DEF FetchBroken
    <2>7. CASE \E p \in Passwords, o, ok \in BOOLEAN : OpenUpload(p, o, ok)
      BY <2>7, OpenUploadKeeps
    <2>8. CASE \E ok \in BOOLEAN : Finish(ok)
      BY <2>8, FinishKeeps
    <2> QED BY <1>1, <2>1, <2>2, <2>3, <2>4, <2>5, <2>6, <2>7, <2>8 DEF Next
  <1>2. CASE UNCHANGED vars
    <2>1. TypeOK
      BY DEF Inv
    <2> QED BY <1>2, <2>1, Elsewhere DEF vars, TypeOK
  <1> QED BY <1>1, <1>2

LEMMA Invariance == Spec => []Inv
  <1>1. Inv /\ [Next]_vars => Inv'
    BY StepKeeps
  <1> QED BY InitInv, <1>1, PTL DEF Spec

(* What `sendan down` has written, to a file or to standard output, is a   *)
(* prefix of what was sent: decoder.nextRecord takes only the record       *)
(* sealed at this place, whatever was lost, repeated, moved or damaged.    *)
THEOREM PrefixWritten == Spec => []PrefixOnly
  <1>1. ASSUME Inv PROVE PrefixOnly
    <2> SUFFICES ASSUME temp # NoFile PROVE temp = Plaintext(Len(temp)) /\ Len(temp) <= src.len
      BY DEF PrefixOnly
    <2>1. PICK n \in 0 .. src.len : temp = Plaintext(n)
      BY <1>1 DEF Inv, ReceiverInv
    <2>2. src.len \in Nat
      BY <1>1, Types DEF Inv
    <2>3. n \in Nat /\ n <= src.len
      BY <2>2
    <2>4. Len(temp) = n
      BY <2>1, <2>3, PlaintextFacts
    <2> QED BY <2>1, <2>3, <2>4
  <1> QED BY Invariance, <1>1, PTL

(* The destination holds what it held before or the whole file: the        *)
(* decoder ends only at a record sealed as the final one, so a stream cut  *)
(* off at a record's end is never taken for a shorter file.                *)
THEOREM DestinationWhole == Spec => []SavedWhole
  <1>1. Inv => SavedWhole
    BY DEF Inv
  <1> QED BY Invariance, <1>1, PTL

-----------------------------------------------------------------------------
(* Lengths.                                                                *)

(* Induction over the naturals, for a set that the provers can be given.   *)
LEMMA Induction ==
  ASSUME NEW S, 0 \in S, \A n \in Nat : n \in S => n + 1 \in S
  PROVE  \A n \in Nat : n \in S
  <1> DEFINE T == Nat \ S
             R == OpToRel(<, Nat)
  <1> SUFFICES ASSUME T # {} PROVE FALSE
    OBVIOUS
  <1>1. IsWellFoundedOn(R, Nat) /\ T \subseteq Nat
    BY NatLessThanWellFounded
  <1> HIDE DEF T, R
  <1>2. PICK x \in T : \A y \in T : ~(<<y, x>> \in R)
    BY <1>1, WFMin
  <1>3. \A y \in T : ~(y < x)
    BY <1>1, <1>2 DEF R, OpToRel
  <1>4. x \in Nat /\ x \notin S /\ x # 0
    BY DEF T
  <1>5. x - 1 \in Nat /\ x - 1 < x /\ (x - 1) + 1 = x
    BY <1>4
  <1>6. x - 1 \in T
    BY <1>4, <1>5 DEF T
  <1> QED BY <1>3, <1>5, <1>6

(* A quotient and its remainder.                                           *)
LEMMA Quotient ==
  ASSUME NEW d \in Nat \ {0}, NEW k \in Nat, NEW x \in Nat, x < d
  PROVE  (k * d + x) \div d = k /\ (k * d + x) % d = x
  OBVIOUS

(* A file of k full records and a last one of m units: the last is empty   *)
(* only if it is the only one.                                             *)
LEMMA LengthOf ==
  ASSUME NEW k \in Nat, NEW m \in 0 .. MaxPlain, k > 0 => m > 0
  PROVE  EncodedContentLength(k * MaxPlain + m) = HeaderSize + k * RecordSize + m + 1
  <1>0. MaxPlain \in Nat \ {0} /\ m \in Nat /\ k * MaxPlain \in Nat
    BY RecordAssumption, Times DEF RecordAssumption
  <1>1. PICK n \in Nat : n = k * MaxPlain + m
    BY <1>0
  <1>2. CASE m = 0
    <2>1. k = 0 /\ n = 0
      BY <1>0, <1>1, <1>2, Times
    <2>2. EncodedContentLength(n) = HeaderSize + 0 * RecordSize + (0 - 0 * MaxPlain) + 1
      BY <2>1 DEF EncodedContentLength
    <2>3. 0 * MaxPlain = 0 /\ 0 * RecordSize = 0
      BY <1>0 DEF RecordSize
    <2> QED BY <1>0, <1>1, <1>2, <2>1, <2>2, <2>3 DEF HeaderSize
  <1>3. CASE m > 0
    <2>1. n > 0
      BY <1>0, <1>1, <1>3
    <2>2. (k + 1) * MaxPlain = k * MaxPlain + MaxPlain /\ m - 1 \in Nat /\ m - 1 < MaxPlain
      BY <1>0, <1>3, Times
    <2>3. n + MaxPlain - 1 = (k + 1) * MaxPlain + (m - 1)
      BY <1>0, <1>1, <2>2
    <2>4. ((k + 1) * MaxPlain + (m - 1)) \div MaxPlain = k + 1
      BY <1>0, <2>2, Quotient
    <2>5. (n + MaxPlain - 1) \div MaxPlain - 1 = k
      BY <2>3, <2>4
    <2>6. EncodedContentLength(n) = HeaderSize + k * RecordSize + (n - k * MaxPlain) + 1
      BY <2>1, <2>5 DEF EncodedContentLength
    <2>7. n - k * MaxPlain = m
      BY <1>0, <1>1
    <2> QED BY <1>1, <2>6, <2>7
  <1> QED BY <1>0, <1>2, <1>3

(* Every length is one of those.                                           *)
LEMMA Divided ==
  ASSUME NEW n \in Nat
  PROVE  \E k \in Nat, m \in 0 .. MaxPlain : (k > 0 => m > 0) /\ n = k * MaxPlain + m
  <1>0. MaxPlain \in Nat \ {0}
    BY RecordAssumption DEF RecordAssumption
  <1>1. CASE n = 0
    <2>1. 0 \in Nat /\ 0 \in 0 .. MaxPlain /\ n = 0 * MaxPlain + 0
      BY <1>0, <1>1
    <2> QED BY <2>1
  <1>2. CASE n > 0
    <2>1. PICK k \in Nat, x \in Nat : x < MaxPlain /\ n - 1 = k * MaxPlain + x
      <3>1. n - 1 \in Nat
        BY <1>2
      <3>2. ASSUME NEW a \in Nat, NEW d \in Nat \ {0}
            PROVE  a \div d \in Nat /\ a % d \in Nat /\ a % d < d /\ a = (a \div d) * d + (a % d)
        BY SMT
      <3>3. /\ (n - 1) \div MaxPlain \in Nat /\ (n - 1) % MaxPlain \in Nat
            /\ (n - 1) % MaxPlain < MaxPlain
            /\ n - 1 = ((n - 1) \div MaxPlain) * MaxPlain + ((n - 1) % MaxPlain)
        BY <1>0, <3>1, <3>2
      <3> QED BY <3>3
    <2>2. x + 1 \in 0 .. MaxPlain /\ x + 1 > 0 /\ k * MaxPlain \in Nat
      BY <1>0, <2>1, Times
    <2>3. n = k * MaxPlain + (x + 1)
      BY <1>2, <2>1, <2>2
    <2> QED BY <2>2, <2>3
  <1> QED BY <1>1, <1>2

(* A longer file has a longer encoding.                                    *)
LEMMA Longer ==
  ASSUME NEW a \in Nat, NEW b \in Nat, a <= b
  PROVE  /\ EncodedContentLength(a) \in Nat /\ EncodedContentLength(b) \in Nat
         /\ EncodedContentLength(a) <= EncodedContentLength(b)
         /\ a < b => EncodedContentLength(a) < EncodedContentLength(b)
  <1>0. MaxPlain \in Nat \ {0}
    BY RecordAssumption DEF RecordAssumption
  <1>1. ASSUME NEW k \in Nat PROVE k * MaxPlain \in Nat /\ k * RecordSize = k * MaxPlain + k
    BY <1>0 DEF RecordSize
  <1>2. PICK k \in Nat, m \in 0 .. MaxPlain : (k > 0 => m > 0) /\ a = k * MaxPlain + m
    BY Divided
  <1>3. PICK j \in Nat, l \in 0 .. MaxPlain : (j > 0 => l > 0) /\ b = j * MaxPlain + l
    BY Divided
  <1>4. EncodedContentLength(a) = a + k + 2
    <2>1. EncodedContentLength(a) = HeaderSize + k * RecordSize + m + 1
      BY <1>2, LengthOf
    <2> QED BY <1>0, <1>1, <1>2, <2>1 DEF HeaderSize
  <1>5. EncodedContentLength(b) = b + j + 2
    <2>1. EncodedContentLength(b) = HeaderSize + j * RecordSize + l + 1
      BY <1>3, LengthOf
    <2> QED BY <1>0, <1>1, <1>3, <2>1 DEF HeaderSize
  <1>6. k <= j
    <2> SUFFICES ASSUME k > j PROVE FALSE
      OBVIOUS
    <2>1. (j + 1) * MaxPlain = j * MaxPlain + MaxPlain /\ j + 1 <= k
      BY <1>0, Times
    <2>2. (j + 1) * MaxPlain <= k * MaxPlain
      BY <1>0, <2>1, TimesMonotonic
    <2>3. m > 0
      BY <1>2
    <2> QED BY <1>0, <1>1, <1>2, <1>3, <2>1, <2>2, <2>3
  <1> QED BY <1>4, <1>5, <1>6

-----------------------------------------------------------------------------
(* The units of a stream.                                                  *)

LEMMA StreamFacts ==
  ASSUME NEW n \in Nat
  PROVE  /\ Len(Stream(n)) = n /\ DOMAIN Stream(n) = 1 .. n
         /\ \A p \in 1 .. n : Stream(n)[p] = UnitAt(p)
  BY DEF Stream

(* A stream without its header.                                            *)
PlaceAt(p) == <<(p - 1) \div RecordSize, ((p - 1) % RecordSize) + 1>>

Body(n) == [p \in 1 .. n |-> PlaceAt(p)]

LEMMA PlaceType ==
  ASSUME NEW p \in Nat \ {0}
  PROVE  PlaceAt(p) \in Int \X Int
  <1>0. RecordSize \in Nat \ {0}
    BY RecordAssumption DEF RecordAssumption, RecordSize
  <1>1. ASSUME NEW a \in Nat, NEW d \in Nat \ {0} PROVE a \div d \in Int /\ a % d \in Int
    OBVIOUS
  <1>2. p - 1 \in Nat
    OBVIOUS
  <1>3. (p - 1) \div RecordSize \in Int /\ (p - 1) % RecordSize \in Int
    BY <1>0, <1>1, <1>2
  <1> QED BY <1>3 DEF PlaceAt

LEMMA BodyFacts ==
  ASSUME NEW n \in Nat
  PROVE  Body(n) \in Seq(Int \X Int) /\ Len(Body(n)) = n /\ \A p \in 1 .. n : Body(n)[p] = PlaceAt(p)
  BY PlaceType DEF Body

(* A sequence that starts with s and goes on with t.                       *)
LEMMA Glued ==
  ASSUME NEW T, NEW s \in Seq(T), NEW t \in Seq(T), NEW u \in Seq(T), Len(u) = Len(s) + Len(t),
         \A i \in 1 .. Len(s) : u[i] = s[i],
         \A i \in 1 .. Len(t) : u[Len(s) + i] = t[i]
  PROVE  s \o t = u
  <1>1. Len(s) \in Nat /\ Len(t) \in Nat
    OBVIOUS
  <1>2. s \o t \in Seq(T) /\ Len(s \o t) = Len(s) + Len(t)
    BY ConcatProperties
  <1>3. ASSUME NEW p \in 1 .. Len(s) + Len(t) PROVE (s \o t)[p] = u[p]
    <2>1. CASE p <= Len(s)
      <3>1. p \in 1 .. Len(s)
        BY <1>1, <2>1
      <3>2. (s \o t)[p] = s[p]
        BY <1>1, <2>1, ConcatProperties
      <3> QED BY <3>1, <3>2
    <2>2. CASE p > Len(s)
      <3>0. p - Len(s) \in 1 .. Len(t) /\ p = Len(s) + (p - Len(s))
        BY <1>1, <2>2
      <3>1. PICK i \in 1 .. Len(t) : i = p - Len(s) /\ p = Len(s) + i
        BY <3>0, Zenon
      <3>2. (s \o t)[p] = t[p - Len(s)]
        BY <1>1, <2>2, ConcatProperties
      <3> QED BY <3>1, <3>2
    <2> QED BY <1>1, <2>1, <2>2
  <1> QED BY <1>2, <1>3, SeqEqual

LEMMA UnitType ==
  ASSUME NEW p \in Nat \ {0}
  PROVE  UnitAt(p) \in Int \X Int /\ UnitAt(1) = HeaderUnit /\ UnitAt(p + 1) = PlaceAt(p)
  <1>1. ASSUME NEW i \in Nat \ {0} PROVE UnitAt(i + 1) = PlaceAt(i)
    <2>1. i + 1 # 1 /\ (i + 1) - 2 = i - 1
      OBVIOUS
    <2> QED BY <2>1 DEF UnitAt, PlaceAt
  <1>2. UnitAt(1) = HeaderUnit
    BY DEF UnitAt
  <1>3. CASE p = 1
    BY <1>1, <1>2, <1>3 DEF HeaderUnit
  <1>4. CASE p # 1
    <2>1. p - 1 \in Nat \ {0} /\ (p - 1) + 1 = p
      BY <1>4
    <2>2. UnitAt(p) = PlaceAt(p - 1)
      BY <1>1, <2>1
    <2>3. PlaceAt(p - 1) \in Int \X Int
      BY <2>1, PlaceType
    <2> QED BY <1>1, <1>2, <2>2, <2>3
  <1> QED BY <1>3, <1>4

LEMMA Headed ==
  ASSUME NEW n \in Nat
  PROVE  <<HeaderUnit>> \o Body(n) = Stream(n + 1)
  <1> DEFINE s == <<HeaderUnit>>
             t == Body(n)
             u == Stream(n + 1)
             T == Int \X Int
  <1>1. s \in Seq(T) /\ Len(s) = 1 /\ s[1] = HeaderUnit
    BY DEF HeaderUnit
  <1>2. t \in Seq(T) /\ Len(t) = n /\ \A p \in 1 .. n : t[p] = PlaceAt(p)
    BY BodyFacts
  <1>3. u \in Seq(T) /\ Len(u) = n + 1 /\ \A p \in 1 .. n + 1 : u[p] = UnitAt(p)
    BY UnitType DEF Stream
  <1> HIDE DEF s, t, u, T
  <1>4. \A i \in 1 .. Len(s) : u[i] = s[i]
    <2>1. u[1] = UnitAt(1)
      BY <1>3
    <2>2. UnitAt(1) = HeaderUnit
      BY DEF UnitAt
    <2> QED BY <1>1, <2>1, <2>2
  <1>5. \A i \in 1 .. Len(t) : u[Len(s) + i] = t[i]
    <2> SUFFICES ASSUME NEW i \in 1 .. n PROVE u[1 + i] = t[i]
      BY <1>1, <1>2
    <2>1. i \in Nat \ {0} /\ 1 + i = i + 1 /\ i + 1 \in 1 .. n + 1
      OBVIOUS
    <2>2. u[i + 1] = UnitAt(i + 1)
      BY <1>3, <2>1
    <2>3. UnitAt(i + 1) = PlaceAt(i)
      BY <2>1, UnitType
    <2> QED BY <1>2, <2>1, <2>2, <2>3
  <1>6. Len(u) = Len(s) + Len(t)
    BY <1>1, <1>2, <1>3
  <1>7. s \o t = u
    BY <1>1, <1>2, <1>3, <1>4, <1>5, <1>6, Glued
  <1> QED BY <1>7 DEF s, t, u

(* What FlattenSeq computes, given the sequences it goes through.          *)
Accumulates(g, s, N) ==
  Len(s) = N /\ g[1] = s[1] /\ \A i \in 2 .. N : g[i] = g[i - 1] \o s[i]

LEMMA Flattened ==
  ASSUME NEW s, NEW N \in Nat \ {0}, NEW g, Accumulates(g, s, N)
  PROVE  FlattenSeq(s) = g[N]
  <1>0. Len(s) = N /\ g[1] = s[1] /\ \A i \in 2 .. N : g[i] = g[i - 1] \o s[i]
    BY DEF Accumulates
  <1> DEFINE F(f) == [i \in 1 .. N |-> IF i = 1 THEN s[i] ELSE f[i - 1] \o s[i]]
             f0 == CHOOSE f : f = F(f)
             h  == [i \in 1 .. N |-> g[i]]
  <1>1. h = F(h)
    <2>1. ASSUME NEW i \in 1 .. N PROVE h[i] = IF i = 1 THEN s[i] ELSE h[i - 1] \o s[i]
      <3>1. CASE i = 1
        BY <1>0, <3>1
      <3>2. CASE i # 1
        <4>1. i \in 2 .. N /\ i - 1 \in 1 .. N
          BY <3>2
        <4>2. h[i] = g[i] /\ h[i - 1] = g[i - 1] /\ g[i] = g[i - 1] \o s[i]
          BY <1>0, <4>1
        <4> QED BY <3>2, <4>2
      <3> QED BY <3>1, <3>2
    <2> HIDE DEF h
    <2>2. h = [i \in 1 .. N |-> h[i]]
      BY DEF h
    <2> QED BY <2>1, <2>2
  <1>2. f0 = F(f0)
    BY <1>1
  <1> HIDE DEF f0, h
  <1>3. \A i \in 1 .. N : f0[i] = IF i = 1 THEN s[i] ELSE f0[i - 1] \o s[i]
    BY <1>2
  <1> DEFINE S == {n \in Nat : n + 1 <= N => f0[n + 1] = g[n + 1]}
  <1>4. 0 \in S
    BY <1>0, <1>3
  <1>5. ASSUME NEW n \in Nat, n \in S PROVE n + 1 \in S
    <2> SUFFICES ASSUME (n + 1) + 1 <= N PROVE f0[(n + 1) + 1] = g[(n + 1) + 1]
      OBVIOUS
    <2>1. PICK i \in 2 .. N : i = (n + 1) + 1 /\ i - 1 = n + 1
      OBVIOUS
    <2>2. f0[i - 1] = g[i - 1]
      BY <1>5, <2>1
    <2>3. i \in 1 .. N /\ i # 1
      OBVIOUS
    <2>4. f0[i] = f0[i - 1] \o s[i] /\ g[i] = g[i - 1] \o s[i]
      BY <1>0, <1>3, <2>3, Zenon
    <2> QED BY <2>1, <2>2, <2>4
  <1> HIDE DEF S
  <1>6. N - 1 \in S /\ N - 1 \in Nat /\ (N - 1) + 1 = N
    BY <1>4, <1>5, Induction
  <1>7. f0[N] = g[N]
    BY <1>6 DEF S
  <1>8. FlattenSeq(s) = f0[N]
    BY <1>0 DEF FlattenSeq, f0
  <1> QED BY <1>7, <1>8

(* A record continues the records before it, which are full.               *)
LEMMA Joined ==
  ASSUME NEW k \in Nat, NEW n \in 0 .. MaxPlain
  PROVE  Body(k * RecordSize) \o [i \in 1 .. n + 1 |-> <<k, i>>] = Body(k * RecordSize + n + 1)
  <1>0. RecordSize \in Nat \ {0} /\ n + 1 \in Nat /\ n + 1 <= RecordSize /\ n \in Nat
    BY RecordAssumption DEF RecordAssumption, RecordSize
  <1>2. PICK b \in Nat : b = k * RecordSize
    BY <1>0, Times
  <1> DEFINE s == Body(b)
             t == [i \in 1 .. n + 1 |-> <<k, i>>]
             u == Body(b + (n + 1))
  <1>3. s \in Seq(Int \X Int) /\ Len(s) = b /\ \A p \in 1 .. b : s[p] = PlaceAt(p)
    BY PlaceType DEF Body
  <1>4. t \in Seq(Int \X Int) /\ Len(t) = n + 1 /\ \A i \in 1 .. n + 1 : t[i] = <<k, i>>
    BY <1>0
  <1>5. u \in Seq(Int \X Int) /\ Len(u) = b + (n + 1) /\ \A p \in 1 .. b + (n + 1) : u[p] = PlaceAt(p)
    BY <1>0, PlaceType DEF Body
  <1>6. ASSUME NEW i \in 1 .. n + 1 PROVE PlaceAt(b + i) = <<k, i>>
    <2>1. i - 1 \in Nat /\ i - 1 < RecordSize /\ (b + i) - 1 = k * RecordSize + (i - 1)
      BY <1>0, <1>2
    <2>2. (k * RecordSize + (i - 1)) \div RecordSize = k /\ (k * RecordSize + (i - 1)) % RecordSize = i - 1
      BY <1>0, <2>1, Quotient
    <2>3. PlaceAt(b + i) = <<k, (i - 1) + 1>>
      BY <2>1, <2>2 DEF PlaceAt
    <2> QED BY <1>0, <2>3
  <1> HIDE DEF s, t, u
  <1>10. PICK T : s \in Seq(T) /\ t \in Seq(T) /\ u \in Seq(T)
    BY <1>3, <1>4, <1>5
  <1>11. Len(s) = b /\ Len(t) = n + 1 /\ Len(u) = b + (n + 1)
    BY <1>3, <1>4, <1>5
  <1>7. s \o t \in Seq(T) /\ Len(s \o t) = b + (n + 1)
    BY <1>10, <1>11
  <1>8. ASSUME NEW p \in 1 .. b + (n + 1) PROVE (s \o t)[p] = u[p]
    <2>1. CASE p <= b
      BY <1>0, <1>3, <1>4, <1>5, <2>1
    <2>2. CASE p > b
      <3>1. PICK i \in 1 .. n + 1 : i = p - b /\ p = b + i
        BY <1>0, <2>2
      <3>2. (s \o t)[p] = t[i]
        BY <1>0, <1>3, <1>4, <2>2, <3>1, SMTT(30)
      <3> QED BY <1>4, <1>5, <1>6, <3>1, <3>2
    <2>3. p <= b \/ p > b
      BY <1>0
    <2> QED BY <2>1, <2>2, <2>3
  <1>9. s \o t = u
    <2>1. Len(s \o t) = Len(u) /\ \A p \in 1 .. Len(s \o t) : (s \o t)[p] = u[p]
      BY <1>11, <1>7, <1>8
    <2> QED BY <1>10, <1>7, <2>1, SeqEqual
  <1>12. k * RecordSize + n + 1 = b + (n + 1)
    BY <1>0, <1>2
  <1> QED BY <1>2, <1>9, <1>12 DEF s, t, u

(* What the encoder has written, unit by unit.                             *)
LEMMA UnitsWritten ==
  ASSUME Inv
  PROVE  Written \in Nat /\ Units(out) = Stream(Written)
  <1>0. /\ TypeOK /\ EncoderInv /\ out \in Seq(Record) /\ Len(out) \in Nat /\ Full \in Nat
        /\ RecordSize = MaxPlain + 1 /\ RecordSize \in Nat \ {0} /\ MaxPlain \in Nat /\ enc.closed \in BOOLEAN
    BY Types, FullFacts DEF Inv, TypeOK, RecordSize
  <1>1. CASE Len(out) = 0
    <2>1. out = <<>> /\ Written = 0 /\ Stream(0) = <<>>
      BY <1>0, <1>1 DEF Written, Stream
    <2> QED BY <2>1 DEF Units
  <1>2. CASE Len(out) # 0
    <2>1. PICK N \in Nat \ {0} : N = Len(out)
      BY <1>0, <1>2
    <2>2. Full \in {N - 1, N} /\ (enc.closed => Full = N - 1) /\ (~enc.closed => Full = N)
      BY <1>0, <2>1 DEF Full
    <2>3. ASSUME NEW i \in 1 .. N PROVE out[i].n \in 0 .. MaxPlain /\ (i <= Full => out[i].n = MaxPlain)
      <3>1. i \in 1 .. Len(out) /\ out[i] \in Record
        BY <1>0, <2>1
      <3>2. out[i].n \in 0 .. MaxPlain
        BY <3>1 DEF Record
      <3>3. i <= Full => out[i].n = MaxPlain
        BY <1>0, <2>1, <3>1 DEF EncoderInv
      <3> QED BY <3>2, <3>3
    <2> DEFINE s == [i \in DOMAIN out |-> RecordUnits(out, i)]
               w == [i \in 0 .. N |-> IF i <= Full THEN i * RecordSize ELSE Full * RecordSize + out[N].n + 1]
               g == [i \in 1 .. N |-> Body(w[i])]
    <2>4. ASSUME NEW i \in 1 .. N
          PROVE  /\ i - 1 \in Nat /\ w[i - 1] = (i - 1) * RecordSize
                 /\ w[i] = (i - 1) * RecordSize + out[i].n + 1
      <3>1. i - 1 \in Nat /\ i - 1 <= Full /\ i - 1 \in 0 .. N /\ i \in 0 .. N /\ (i - 1) + 1 = i
        BY <1>0, <2>2
      <3>2. (i - 1) * RecordSize \in Nat /\ i * RecordSize = (i - 1) * RecordSize + RecordSize
        BY <1>0, <3>1, Times
      <3>3. w[i - 1] = (i - 1) * RecordSize
        BY <3>1
      <3>4. CASE i <= Full
        <4>1. w[i] = i * RecordSize /\ out[i].n = MaxPlain
          BY <2>3, <3>1, <3>4
        <4> HIDE DEF w
        <4> QED BY <1>0, <3>1, <3>2, <3>3, <4>1
      <3>5. CASE ~(i <= Full)
        <4>1. i = N /\ i - 1 = Full /\ w[i] = Full * RecordSize + out[N].n + 1
          BY <1>0, <2>2, <3>1, <3>5
        <4> HIDE DEF w
        <4> QED BY <3>1, <3>3, <4>1
      <3> QED BY <3>4, <3>5
    <2>5. Len(s) = N /\ DOMAIN out = 1 .. N
      BY <1>0, <2>1
    <2>6. ASSUME NEW i \in 1 .. N
          PROVE  Body((i - 1) * RecordSize) \o s[i] = g[i]
      <3>1. PICK k \in Nat, n \in 0 .. MaxPlain : k = i - 1 /\ n = out[i].n
        BY <2>3, <2>4
      <3>2. s[i] = [j \in 1 .. n + 1 |-> <<k, j>>]
        BY <2>5, <3>1 DEF RecordUnits
      <3>3. g[i] = Body(k * RecordSize + n + 1)
        BY <2>4, <3>1
      <3> HIDE DEF s, g
      <3>4. Body(k * RecordSize) \o [j \in 1 .. n + 1 |-> <<k, j>>] = Body(k * RecordSize + n + 1)
        BY Joined
      <3> QED BY <3>1, <3>2, <3>3, <3>4
    <2>7. g[1] = s[1]
      <3>1. 1 \in 1 .. N /\ (1 - 1) * RecordSize = 0
        BY <1>0
      <3>2. Body(0) = <<>>
        BY DEF Body
      <3>3. s[1] \in Seq(Int \X Int)
        <4>1. out[1].n \in Nat
          BY <1>0, <2>3, <3>1
        <4> QED BY <2>5, <3>1, <4>1, SMTT(30) DEF RecordUnits
      <3> HIDE DEF s, g
      <3>4. <<>> \o s[1] = s[1]
        BY <3>3
      <3> QED BY <2>6, <3>1, <3>2, <3>4
    <2>8. ASSUME NEW i \in 2 .. N PROVE g[i] = g[i - 1] \o s[i]
      <3>1. i \in 1 .. N /\ i - 1 \in 1 .. N
        OBVIOUS
      <3>2. g[i - 1] = Body((i - 1) * RecordSize)
        BY <2>4, <3>1
      <3> HIDE DEF s, g
      <3> QED BY <2>6, <3>1, <3>2
    <2>9. N \in 1 .. N /\ g[N] = Body(w[N])
      OBVIOUS
    <2> HIDE DEF s, g
    <2>10. FlattenSeq(s) = Body(w[N])
      <3>1. Accumulates(g, s, N)
        BY <2>5, <2>7, <2>8 DEF Accumulates
      <3> HIDE DEF w
      <3>3. FlattenSeq(s) = g[N]
        BY <3>1, Flattened
      <3> QED BY <2>9, <3>3
    <2>11. w[N] \in Nat /\ Written = w[N] + 1
      <3>1. N \in 0 .. N /\ N * RecordSize \in Nat /\ Full * RecordSize \in Nat /\ out[N].n \in Nat
        <4>1. N \in 1 .. N /\ N \in Nat
          OBVIOUS
        <4>2. out[N].n \in 0 .. MaxPlain
          BY <2>3, <4>1
        <4>3. out[N].n \in Nat
          BY <1>0, <4>2
        <4>4. RecordSize \in Nat
          BY <1>0
        <4>5. N * RecordSize \in Nat /\ Full * RecordSize \in Nat
          BY <1>0, <4>1, <4>4, Times
        <4> QED BY <4>1, <4>3, <4>5
      <3>2. CASE enc.closed
        <4>1. w[N] = Full * RecordSize + out[N].n + 1
          BY <1>0, <2>2, <3>1, <3>2
        <4>2. Written = HeaderSize + Full * RecordSize + (out[N].n + 1)
          BY <1>2, <2>1, <3>2 DEF Written
        <4> HIDE DEF w
        <4> QED BY <3>1, <4>1, <4>2 DEF HeaderSize
      <3>3. CASE ~enc.closed
        <4>1. w[N] = N * RecordSize /\ Full = N
          BY <1>0, <2>2, <3>1, <3>3
        <4>2. Written = HeaderSize + Full * RecordSize + 0
          BY <1>2, <3>3 DEF Written
        <4> HIDE DEF w
        <4> QED BY <3>1, <4>1, <4>2 DEF HeaderSize
      <3> QED BY <3>2, <3>3
    <2> HIDE DEF w
    <2>12. out # <<>>
      BY <1>2
    <2>13. Units(out) = <<HeaderUnit>> \o FlattenSeq(s)
      BY <2>12 DEF Units, s
    <2>14. <<HeaderUnit>> \o Body(w[N]) = Stream(w[N] + 1)
      BY <2>11, Headed
    <2> QED BY <2>10, <2>11, <2>13, <2>14
  <1> QED BY <1>1, <1>2

-----------------------------------------------------------------------------
(* What is written is as long as what is declared for it.                  *)

LEMMA ClosedLength ==
  ASSUME Inv, NotEmpty, enc.closed
  PROVE  /\ Len(out) \in Nat \ {0} /\ Full = Len(out) - 1 /\ Full \in Nat /\ out[Len(out)].n \in 0 .. MaxPlain
         /\ Written = HeaderSize + Full * RecordSize + (out[Len(out)].n + 1)
         /\ Written = EncodedContentLength(src.len) /\ enc.read = src.len
  <1>0. /\ TypeOK /\ EncoderInv /\ out \in Seq(Record) /\ Len(out) \in Nat /\ Full \in Nat
        /\ RecordSize = MaxPlain + 1 /\ RecordSize \in Nat /\ MaxPlain \in Nat /\ src.len \in Nat
    BY Types, FullFacts DEF Inv, TypeOK, RecordSize
  <1>1. /\ Len(out) > 0 /\ out[Len(out)].n = src.len - Full * MaxPlain /\ Full = Len(out) - 1
        /\ enc.read = src.len
    BY <1>0 DEF EncoderInv, Full
  <1>2. PICK m \in 0 .. MaxPlain : m = out[Len(out)].n
    <2>1. out[Len(out)] \in Record
      BY <1>0, <1>1
    <2> QED BY <2>1 DEF Record
  <1>3. Full > 0 => m > 0
    BY <1>0, <1>1, <1>2 DEF NotEmpty
  <1>4. src.len = Full * MaxPlain + m /\ Full * MaxPlain \in Nat /\ m \in Nat /\ Full * RecordSize \in Nat
    <2>1. Full * MaxPlain \in Nat /\ Full * RecordSize \in Nat
      BY <1>0, Times
    <2>2. m \in Nat
      BY <1>0
    <2> QED BY <1>0, <1>1, <1>2, <2>1, <2>2, SMTT(30)
  <1>5. EncodedContentLength(src.len) = HeaderSize + Full * RecordSize + m + 1
    BY <1>0, <1>3, <1>4, LengthOf
  <1>6. Written = HeaderSize + Full * RecordSize + (m + 1)
    BY <1>1, <1>2 DEF Written
  <1>7. Written = EncodedContentLength(src.len)
    <2>1. PICK f \in Nat : f = Full * RecordSize
      BY <1>4
    <2> QED BY <1>4, <1>5, <1>6, <2>1 DEF HeaderSize
  <1>8. Len(out) \in Nat \ {0}
    BY <1>0, <1>1
  <1> QED BY <1>0, <1>1, <1>2, <1>6, <1>7, <1>8, Zenon

(* Until the encoder is closed it has written less than that.              *)
LEMMA OpenLength ==
  ASSUME Inv, NotEmpty, ~enc.closed
  PROVE  /\ Written \in Nat /\ EncodedContentLength(enc.read) \in Nat
         /\ Written < EncodedContentLength(enc.read)
  <1>0. /\ TypeOK /\ EncoderInv /\ out \in Seq(Record) /\ Len(out) \in Nat /\ Full \in Nat
        /\ RecordSize = MaxPlain + 1 /\ RecordSize \in Nat /\ MaxPlain \in Nat /\ enc.n \in 0 .. MaxPlain
    BY Types, FullFacts DEF Inv, TypeOK, RecordSize
  <1>1. enc.read = Full * MaxPlain + enc.n /\ Full = Len(out) /\ (Full > 0 => enc.n > 0)
    BY <1>0 DEF EncoderInv, Full, NotEmpty
  <1>2. EncodedContentLength(enc.read) = HeaderSize + Full * RecordSize + enc.n + 1
    BY <1>0, <1>1, LengthOf
  <1>3. Full * RecordSize \in Nat /\ enc.n \in Nat
    BY <1>0, Times
  <1>4. Written = 0 \/ Written = HeaderSize + Full * RecordSize + 0
    BY DEF Written
  <1> QED BY <1>2, <1>3, <1>4 DEF HeaderSize

LEMMA Frame ==
  ASSUME UNCHANGED <<src, enc, out>>
  PROVE  /\ Written' = Written /\ Full' = Full /\ PlainSize' = PlainSize /\ Grew' = Grew
         /\ NotEmpty => NotEmpty'
  BY DEF Written, Full, PlainSize, Grew, NotEmpty

LEMMA EncodeWrites ==
  ASSUME Inv, NotEmpty, EncodeUnit
  PROVE  NotEmpty' /\ Written \in Nat /\ Written' \in Nat /\ Written <= Written'
  <1>0. /\ TypeOK /\ EncoderInv /\ out \in Seq(Record) /\ Len(out) \in Nat /\ Full \in Nat
        /\ RecordSize \in Nat /\ MaxPlain \in Nat \ {0} /\ enc.n \in 0 .. MaxPlain /\ enc.read < src.len
        /\ enc \in [n : 0 .. MaxPlain, read : Nat, closed : BOOLEAN]
    BY Types, FullFacts DEF Inv, TypeOK, RecordSize, EncodeUnit
  <1>1. ~enc.closed /\ Full = Len(out) /\ enc.read \in Nat /\ src.len \in Nat
    <2>1. enc.closed => enc.read = src.len
      BY <1>0 DEF EncoderInv
    <2>2. enc.read \in Nat /\ src.len \in Nat
      BY <1>0, Types
    <2> QED BY <1>0, <2>1, <2>2 DEF Full
  <1>2. CASE enc.n = MaxPlain
    <2>1. out' = Append(out, [n |-> enc.n, final |-> FALSE]) /\ enc' = [enc EXCEPT !.n = 1, !.read = @ + 1]
      BY <1>2 DEF EncodeUnit
    <2>2. Len(out') = Len(out) + 1 /\ enc'.n = 1 /\ enc'.closed = enc.closed
      <3>1. [n |-> enc.n, final |-> FALSE] \in Record
        BY <1>0 DEF Record
      <3> QED BY <1>0, <2>1, <3>1
    <2>3. Full' = Full + 1 /\ Full * RecordSize \in Nat /\ (Full + 1) * RecordSize = Full * RecordSize + RecordSize
      BY <1>0, <1>1, <2>2, Times DEF Full
    <2>4. Written \in {0, HeaderSize + Full * RecordSize + 0}
      BY <1>1 DEF Written
    <2>5. Written' = HeaderSize + (Full + 1) * RecordSize + 0
      <3>1. RecordSize' = RecordSize /\ HeaderSize' = HeaderSize
        BY DEF RecordSize, HeaderSize
      <3> QED BY <1>0, <1>1, <2>2, <2>3, <3>1 DEF Written
    <2>6. NotEmpty'
      BY <1>1, <2>2 DEF NotEmpty
    <2> QED BY <1>0, <2>3, <2>4, <2>5, <2>6 DEF HeaderSize
  <1>3. CASE enc.n # MaxPlain
    <2>1. UNCHANGED out /\ enc' = [enc EXCEPT !.n = @ + 1, !.read = @ + 1]
      BY <1>3 DEF EncodeUnit
    <2>2. enc'.n = enc.n + 1 /\ enc'.closed = enc.closed
      BY <1>0, <2>1
    <2>3. Written' = Written
      BY <1>1, <2>1, <2>2 DEF Written, Full
    <2>4. NotEmpty'
      BY <1>0, <1>1, <2>1, <2>2 DEF NotEmpty
    <2>5. Written \in Nat
      BY UnitsWritten
    <2> QED BY <2>3, <2>4, <2>5
  <1> QED BY <1>2, <1>3

LEMMA CloseWrites ==
  ASSUME Inv, NotEmpty, CloseEncoder
  PROVE  NotEmpty' /\ Written \in Nat /\ Written' \in Nat /\ Written <= Written'
  <1>0. /\ TypeOK /\ EncoderInv /\ out \in Seq(Record) /\ Len(out) \in Nat /\ Full \in Nat
        /\ RecordSize \in Nat /\ MaxPlain \in Nat \ {0} /\ enc.n \in 0 .. MaxPlain /\ ~enc.closed
        /\ enc \in [n : 0 .. MaxPlain, read : Nat, closed : BOOLEAN]
        /\ out' = Append(out, [n |-> enc.n, final |-> TRUE])
        /\ enc' = [enc EXCEPT !.n = 0, !.closed = TRUE]
    BY Types, FullFacts DEF Inv, TypeOK, RecordSize, CloseEncoder
  <1>1. Full = Len(out) /\ enc.n \in Nat
    BY <1>0 DEF Full
  <1>2. Len(out') = Len(out) + 1 /\ out'[Len(out) + 1].n = enc.n /\ enc'.closed = TRUE
    <2>1. PICK r \in Record : r = [n |-> enc.n, final |-> TRUE]
      BY <1>0 DEF Record
    <2>2. Len(out') = Len(out) + 1 /\ out'[Len(out) + 1] = r
      BY <1>0, <2>1
    <2>3. enc'.closed = TRUE
      BY <1>0
    <2> QED BY <2>1, <2>2, <2>3
  <1>3. Full' = Full /\ Full * RecordSize \in Nat
    BY <1>0, <1>1, <1>2, Times DEF Full
  <1>4. Written \in {0, HeaderSize + Full * RecordSize + 0}
    BY <1>0 DEF Written
  <1>5. Written' = HeaderSize + Full * RecordSize + (enc.n + 1)
    <2>1. RecordSize' = RecordSize /\ HeaderSize' = HeaderSize
      BY DEF RecordSize, HeaderSize
    <2> QED BY <1>0, <1>2, <1>3, <2>1 DEF Written
  <1>6. NotEmpty'
    BY <1>0, <1>1, <1>2 DEF NotEmpty
  <1> QED BY <1>1, <1>3, <1>4, <1>5, <1>6 DEF HeaderSize

(* Only the encoder changes what is written.                               *)
LEMMA EncoderMoves ==
  ASSUME [Next]_vars
  PROVE  EncodeUnit \/ CloseEncoder \/ UNCHANGED <<src, enc, out>>
  <1>1. CASE Damaged
    BY <1>1 DEF Damaged, Damage, sender
  <1>2. ASSUME NEW c, Fails(c) PROVE UNCHANGED <<src, enc, out>>
    BY <1>2 DEF Fails, sender
  <1>3. ASSUME NEW r, Continues(r) PROVE UNCHANGED <<src, enc, out>>
    BY <1>3 DEF Continues, sender
  <1>4. CASE \/ Describe \/ (\E p \in Passwords, o, ok \in BOOLEAN : OpenUpload(p, o, ok))
             \/ FetchBroken \/ ReadHeader \/ NextRecord
             \/ (\E ok \in BOOLEAN : Finish(ok)) \/ Killed
    BY <1>2, <1>3, <1>4 DEF Describe, OpenUpload, OpenDestination, FetchBroken, ReadHeader, NextRecord,
       Finish, Settle, Killed, sender
  <1>5. CASE \/ \E p \in Passwords : TakePassword(p)
             \/ \E p, again \in Passwords : PromptPassword(p, again)
             \/ OpenSource \/ SourceFails
             \/ \E accepted, arrives \in BOOLEAN : CreateUpload(accepted, arrives)
             \/ StoreUnit \/ FinishUpload \/ BodyMismatch \/ SendAnswered \/ SendBroken
             \/ Interrupt \/ Removed
    BY <1>5 DEF TakePassword, PromptPassword, OpenSource, SourceFails, CreateUpload, StoreUnit,
       FinishUpload, BodyMismatch, SendAnswered, SendBroken, Interrupt, Removed, sender
  <1> QED BY <1>1, <1>4, <1>5 DEF Next, vars

LEMMA NotEmptyKept ==
  ASSUME Inv, NotEmpty, [Next]_vars
  PROVE  NotEmpty'
  BY EncoderMoves, EncodeWrites, CloseWrites, Frame

(* The length that EncodedContentLength computes from the size of a file,  *)
(* before anything is encoded, is the one the encoder then writes.         *)
THEOREM LengthDeclared == Spec => []DeclaredExactly
  <1>1. Init => NotEmpty
    <2> SUFFICES ASSUME Init PROVE NotEmpty
      OBVIOUS
    <2>1. Len(out) = 0 /\ enc.closed = FALSE
      BY DEF Init
    <2> QED BY <2>1 DEF NotEmpty
  <1>2. Inv /\ NotEmpty /\ [Next]_vars => NotEmpty'
    BY NotEmptyKept
  <1>3. ASSUME Inv, NotEmpty PROVE DeclaredExactly
    <2> SUFFICES ASSUME enc.closed PROVE Len(Units(out)) = EncodedContentLength(src.len)
      BY DEF DeclaredExactly
    <2>1. Written \in Nat /\ Units(out) = Stream(Written) /\ Written = EncodedContentLength(src.len)
      BY <1>3, UnitsWritten, ClosedLength
    <2>2. Len(Stream(Written)) = Written
      BY <2>1, StreamFacts
    <2> QED BY <2>1, <2>2
  <1>4. Spec => []NotEmpty
    BY <1>1, <1>2, Invariance, PTL DEF Spec
  <1> QED BY <1>3, <1>4, Invariance, PTL

-----------------------------------------------------------------------------
(* What is stored, and the link.                                           *)

(* Storing the next unit of what was written.                              *)
LEMMA Grown ==
  ASSUME NEW n \in Nat
  PROVE  Append(Stream(n), UnitAt(n + 1)) = Stream(n + 1)
  <1> DEFINE s == Stream(n)
             u == Stream(n + 1)
             T == Int \X Int
             t == <<UnitAt(n + 1)>>
  <1>1. s \in Seq(T) /\ Len(s) = n /\ \A p \in 1 .. n : s[p] = UnitAt(p)
    BY UnitType DEF Stream
  <1>2. u \in Seq(T) /\ Len(u) = n + 1 /\ \A p \in 1 .. n + 1 : u[p] = UnitAt(p)
    BY UnitType DEF Stream
  <1>3. UnitAt(n + 1) \in T
    BY UnitType
  <1> HIDE DEF s, u, T
  <1>4. Append(s, UnitAt(n + 1)) \in Seq(T) /\ Len(Append(s, UnitAt(n + 1))) = n + 1
    BY <1>1, <1>3
  <1>5. ASSUME NEW p \in 1 .. n + 1 PROVE Append(s, UnitAt(n + 1))[p] = u[p]
    <2>1. CASE p = n + 1
      BY <1>1, <1>2, <1>3, <2>1
    <2>2. CASE p # n + 1
      <3>1. p \in 1 .. n
        BY <2>2
      <3>2. Append(s, UnitAt(n + 1))[p] = s[p]
        BY <1>1, <1>3, <3>1
      <3> QED BY <1>1, <1>2, <3>1, <3>2
    <2> QED BY <2>1, <2>2
  <1>6. Append(s, UnitAt(n + 1)) = u
    BY <1>2, <1>4, <1>5, SeqEqual
  <1> QED BY <1>6 DEF s, u

(* Nothing of what is stored or written changes.                           *)
LEMMA StoredFrame ==
  ASSUME UNCHANGED <<src, enc, out, stored, damages>>
  PROVE  StoredInv => StoredInv'
  <1>1. Written' = Written
    BY Frame
  <1> QED BY <1>1 DEF StoredInv, Stream, UnitAt, RecordSize, HeaderUnit

(* Before the link there is no receiver.                                   *)
LEMMA NoLink ==
  ASSUME LinkInv, snd.pc # "done"
  PROVE  ~link /\ rcv.pc = "idle" /\ rcv.cause = "none"
  BY DEF LinkInv

LEMMA BeforeLink ==
  ASSUME LinkInv, snd.pc # "done", UNCHANGED <<rcv, link>>
  PROVE  LinkInv' /\ Delivered' /\ LinkOpens'
  <1>1. ~link /\ rcv.pc = "idle" /\ rcv.cause = "none"
    BY NoLink
  <1> QED BY <1>1 DEF LinkInv, Delivered, LinkOpens

LEMMA SenderStreams ==
  ASSUME Inv, StreamInv, NEW p \in Passwords, NEW again \in Passwords,
         \/ TakePassword(p) \/ PromptPassword(p, again) \/ OpenSource \/ SourceFails
         \/ BodyMismatch \/ SendBroken \/ Interrupt
  PROVE  StreamInv'
  <1>0. /\ NotEmpty /\ DeclaredInv /\ StoredInv /\ LinkInv
        /\ UNCHANGED <<src, enc, out, inst, stored, link, rcv, temp, dest, damages>>
        /\ snd.pc # "done" /\ snd \in Senders
    BY DEF StreamInv, TakePassword, PromptPassword, OpenSource, SourceFails, BodyMismatch, SendBroken,
       Interrupt, receiver, Inv, TypeOK
  <1>1. NotEmpty' /\ StoredInv' /\ LinkInv' /\ Delivered' /\ LinkOpens' /\ PlainSize' = PlainSize
    BY <1>0, Frame, StoredFrame, BeforeLink
  <1>2. CASE OpenSource
    <2>1. CASE src.stat = Pipe
      <3>1. snd'.pc = "spool"
        BY <1>0, <1>2, <2>1 DEF OpenSource, SndStep, Senders
      <3> QED BY <1>0, <1>1, <2>1, <3>1 DEF DeclaredInv, StreamInv
    <2>2. CASE src.stat # Pipe
      <3>1. snd'.pc = "create" /\ declared' = EncodedContentLength(src.stat)
        BY <1>0, <1>2, <2>2 DEF OpenSource, SndStep, Senders
      <3>2. EncodedContentLength(src.stat) = EncodedContentLength(PlainSize)
        BY <2>2 DEF PlainSize
      <3>3. declared' = EncodedContentLength(PlainSize)'
        BY <1>1, <3>1, <3>2 DEF EncodedContentLength, RecordSize, HeaderSize
      <3>4. DeclaredInv'
        BY <1>0, <2>2, <3>1, <3>3 DEF DeclaredInv
      <3> QED BY <1>1, <3>4 DEF StreamInv
    <2> QED BY <2>1, <2>2
  <1>3. CASE ~OpenSource
    <2>1. snd'.pc \in {"open", "failed", "interrupted"}
      BY <1>0, <1>3 DEF TakePassword, PromptPassword, SourceFails, BodyMismatch, SendBroken, Interrupt,
         SndStep, Senders
    <2>2. DeclaredInv'
      BY <2>1 DEF DeclaredInv
    <2> QED BY <1>1, <2>2 DEF StreamInv
  <1> QED BY <1>2, <1>3

LEMMA CreateStreams ==
  ASSUME Inv, StreamInv, NEW accepted \in BOOLEAN, NEW arrives \in BOOLEAN, CreateUpload(accepted, arrives)
  PROVE  StreamInv'
  <1>0. /\ NotEmpty /\ DeclaredInv /\ StoredInv /\ LinkInv
        /\ UNCHANGED <<src, enc, out, declared, stored, link, rcv, temp, dest, damages>>
        /\ snd.pc = "create" /\ snd \in Senders
    BY DEF StreamInv, CreateUpload, receiver, Inv, TypeOK
  <1>1. NotEmpty' /\ StoredInv' /\ LinkInv' /\ Delivered' /\ LinkOpens' /\ PlainSize' = PlainSize
    BY <1>0, Frame, StoredFrame, BeforeLink
  <1>2. CASE accepted /\ arrives
    <2>1. snd'.pc = "stream" /\ inst' = Description
      BY <1>0, <1>2 DEF CreateUpload, SndStep, Senders
    <2>2. inst'.size = PlainSize
      BY <2>1 DEF Description
    <2>3. declared = EncodedContentLength(PlainSize) /\ (src.stat = Pipe => enc.closed)
      BY <1>0 DEF DeclaredInv
    <2>4. declared' = EncodedContentLength(PlainSize)'
      BY <1>0, <1>1, <2>3 DEF EncodedContentLength, RecordSize, HeaderSize
    <2>5. DeclaredInv'
      BY <1>0, <1>1, <2>1, <2>2, <2>3, <2>4 DEF DeclaredInv
    <2> QED BY <1>1, <2>5 DEF StreamInv
  <1>3. CASE ~(accepted /\ arrives)
    <2>1. snd'.pc = "failed"
      BY <1>0, <1>3 DEF CreateUpload, SndStep, Senders
    <2>2. DeclaredInv'
      BY <2>1 DEF DeclaredInv
    <2> QED BY <1>1, <2>2 DEF StreamInv
  <1> QED BY <1>2, <1>3

(* More is written, and what is stored is still a part of it.              *)
LEMMA StoredPart ==
  ASSUME StoredInv, UNCHANGED <<stored, damages>>, Written \in Nat, Written' \in Nat, Written <= Written'
  PROVE  StoredInv'
  <1> SUFFICES ASSUME damages' = 0 PROVE StoredInv'
    BY DEF StoredInv
  <1>1. PICK n \in 0 .. Written : stored = Stream(n)
    BY DEF StoredInv
  <1>2. n \in 0 .. Written' /\ stored' = Stream(n)'
    BY <1>1 DEF Stream, UnitAt, RecordSize, HeaderUnit
  <1> QED BY <1>2 DEF StoredInv

(* While a measured file is read, what was declared for it stands.         *)
LEMMA MeasuredKept ==
  ASSUME DeclaredInv, snd.pc = "stream", ~enc.closed, UNCHANGED <<src, snd, declared, inst>>
  PROVE  DeclaredInv'
  <1>1. /\ declared = EncodedContentLength(PlainSize) /\ src.stat # Pipe /\ inst.size = PlainSize
    BY DEF DeclaredInv
  <1>2. PlainSize = src.stat /\ PlainSize' = src.stat
    BY <1>1 DEF PlainSize
  <1>3. declared' = EncodedContentLength(PlainSize)'
    BY <1>1, <1>2 DEF EncodedContentLength, RecordSize, HeaderSize
  <1> QED BY <1>1, <1>2, <1>3 DEF DeclaredInv

LEMMA EncodeStreams ==
  ASSUME Inv, StreamInv, EncodeUnit
  PROVE  StreamInv'
  <1>0. /\ NotEmpty /\ DeclaredInv /\ StoredInv /\ LinkInv /\ snd.pc \in {"spool", "stream"}
        /\ UNCHANGED <<src, snd, declared, inst, stored, link, rcv, temp, dest, damages>>
        /\ enc.read < src.len /\ TypeOK /\ EncoderInv
    BY DEF StreamInv, EncodeUnit, receiver, Inv
  <1>1. ~enc.closed
    <2>1. enc.closed => enc.read = src.len
      BY <1>0 DEF EncoderInv
    <2>2. enc.read \in Nat
      BY <1>0, Types
    <2> QED BY <1>0, <2>1, <2>2
  <1>2. NotEmpty' /\ Written \in Nat /\ Written' \in Nat /\ Written <= Written'
    BY <1>0, EncodeWrites
  <1>3. StoredInv' /\ LinkInv' /\ Delivered' /\ LinkOpens'
    BY <1>0, <1>2, StoredPart, BeforeLink
  <1>4. CASE snd.pc = "spool"
    <2>1. DeclaredInv'
      BY <1>0, <1>4 DEF DeclaredInv
    <2> QED BY <1>2, <1>3, <2>1 DEF StreamInv
  <1>5. CASE snd.pc = "stream"
    <2>1. DeclaredInv'
      BY <1>0, <1>1, <1>5, MeasuredKept
    <2> QED BY <1>2, <1>3, <2>1 DEF StreamInv
  <1> QED BY <1>0, <1>4, <1>5

(* ... and of the state a step leads to.                                   *)
LEMMA ClosedNext ==
  (Inv /\ NotEmpty /\ enc.closed)' =>
    (declared = Len(Units(out)) => declared = EncodedContentLength(src.len) /\ enc.read = src.len)'
  <1>1. ASSUME Inv, NotEmpty, enc.closed, declared = Len(Units(out))
        PROVE  declared = EncodedContentLength(src.len) /\ enc.read = src.len
    <2>1. /\ Written = EncodedContentLength(src.len) /\ enc.read = src.len
          /\ Written \in Nat /\ Units(out) = Stream(Written)
      BY <1>1, ClosedLength, UnitsWritten
    <2>2. Len(Stream(Written)) = Written
      BY <2>1, StreamFacts
    <2> QED BY <1>1, <2>1, <2>2
  <1>2. (Inv /\ NotEmpty /\ enc.closed) =>
          (declared = Len(Units(out)) => declared = EncodedContentLength(src.len) /\ enc.read = src.len)
    BY <1>1
  <1> QED BY <1>2, PTL

LEMMA CloseStreams ==
  ASSUME Inv, Inv', StreamInv, CloseEncoder
  PROVE  StreamInv'
  <1>0. /\ NotEmpty /\ DeclaredInv /\ StoredInv /\ LinkInv /\ snd.pc \in {"spool", "stream"}
        /\ UNCHANGED <<src, inst, stored, link, rcv, temp, dest, damages>>
        /\ TypeOK /\ ~enc.closed /\ snd \in Senders
        /\ enc \in [n : 0 .. MaxPlain, read : Nat, closed : BOOLEAN]
        /\ enc' = [enc EXCEPT !.n = 0, !.closed = TRUE]
    BY DEF StreamInv, CloseEncoder, receiver, Inv, TypeOK
  <1>1. enc'.closed = TRUE
    BY <1>0
  <1>2. NotEmpty' /\ Written \in Nat /\ Written' \in Nat /\ Written <= Written'
    BY <1>0, CloseWrites
  <1>3. StoredInv' /\ LinkInv' /\ Delivered' /\ LinkOpens'
    BY <1>0, <1>2, StoredPart, BeforeLink
  <1>4. CASE snd.pc = "spool"
    <2>1. snd'.pc = "create" /\ declared' = Len(Units(out'))
      BY <1>0, <1>4 DEF CloseEncoder, SndStep, Senders
    <2>2. src'.stat = Pipe
      BY <1>0, <1>4 DEF DeclaredInv
    <2>3. (declared = EncodedContentLength(src.len) /\ enc.read = src.len)'
      BY <1>1, <1>2, <2>1, ClosedNext
    <2>6. (PlainSize = enc.read)'
      BY <2>2 DEF PlainSize
    <2>7. (declared = EncodedContentLength(PlainSize))'
      BY <2>3, <2>6
    <2>8. DeclaredInv'
      BY <1>1, <2>1, <2>7 DEF DeclaredInv
    <2> QED BY <1>2, <1>3, <2>8 DEF StreamInv
  <1>5. CASE snd.pc = "stream"
    <2>1. UNCHANGED <<snd, declared>>
      BY <1>5 DEF CloseEncoder
    <2>2. DeclaredInv'
      BY <1>0, <1>5, <2>1, MeasuredKept
    <2> QED BY <1>2, <1>3, <2>2 DEF StreamInv
  <1> QED BY <1>0, <1>4, <1>5

(* A step that leaves the encoder and what is declared alone.              *)
LEMMA DeclaredFrame ==
  ASSUME DeclaredInv, UNCHANGED <<src, enc, out, snd, declared>>, inst'.size = inst.size \/ ~inst'.complete,
         inst'.complete => inst.complete \/ snd.pc # "done",
         snd.pc = "stream" => inst'.size = inst.size
  PROVE  DeclaredInv'
  <1>1. PlainSize' = PlainSize
    BY Frame
  <1>2. EncodedContentLength(PlainSize)' = EncodedContentLength(PlainSize)
    BY <1>1 DEF EncodedContentLength, RecordSize, HeaderSize
  <1> QED BY <1>1, <1>2 DEF DeclaredInv

LEMMA StoreStreams ==
  ASSUME Inv, StreamInv, StoreUnit
  PROVE  StreamInv'
  <1>0. /\ NotEmpty /\ DeclaredInv /\ StoredInv /\ LinkInv /\ snd.pc = "stream"
        /\ UNCHANGED <<src, snd, enc, out, declared, link, inst, rcv, temp, dest, damages>>
        /\ Len(stored) < Len(Units(out)) /\ stored' = Append(stored, Units(out)[Len(stored) + 1])
    BY DEF StreamInv, StoreUnit, sender, receiver
  <1>1. NotEmpty' /\ LinkInv' /\ Delivered' /\ LinkOpens' /\ DeclaredInv' /\ Written' = Written
    BY <1>0, Frame, BeforeLink, DeclaredFrame
  <1>2. StoredInv'
    <2> SUFFICES ASSUME damages = 0 PROVE StoredInv'
      BY <1>0 DEF StoredInv
    <2>1. PICK n \in 0 .. Written : stored = Stream(n)
      BY <1>0 DEF StoredInv
    <2>2. Written \in Nat /\ Units(out) = Stream(Written)
      BY UnitsWritten
    <2>3. n \in Nat /\ Len(stored) = n /\ Len(Units(out)) = Written
      BY <2>1, <2>2, StreamFacts
    <2>4. n + 1 \in 1 .. Written
      BY <1>0, <2>2, <2>3
    <2>5. Units(out)[n + 1] = UnitAt(n + 1)
      BY <2>2, <2>4, StreamFacts
    <2>6. stored' = Stream(n + 1)
      <3>1. Append(Stream(n), UnitAt(n + 1)) = Stream(n + 1)
        BY <2>3, Grown
      <3> QED BY <1>0, <2>1, <2>3, <2>5, <3>1, Zenon
    <2>7. n + 1 \in 0 .. Written' /\ Stream(n + 1)' = Stream(n + 1)
      <3>1. n + 1 \in 0 .. Written'
        BY <1>1, <2>2, <2>3, <2>4
      <3>2. Stream(n + 1)' = Stream(n + 1)
        BY DEF Stream, UnitAt, RecordSize, HeaderUnit
      <3> QED BY <3>1, <3>2
    <2> QED BY <2>6, <2>7 DEF StoredInv
  <1> QED BY <1>1, <1>2 DEF StreamInv

(* Everything but the receiver stays; so does what a link was given for.   *)
LEMMA DeliveredFrame ==
  ASSUME Delivered, UNCHANGED <<src, enc, out, link, stored, damages>>
  PROVE  Delivered'
  <1>1. Written' = Written /\ PlainSize' = PlainSize /\ Grew' = Grew
    BY Frame
  <1>2. Stream(Written)' = Stream(Written)
    BY <1>1 DEF Stream, UnitAt, RecordSize, HeaderUnit
  <1> QED BY <1>1, <1>2 DEF Delivered

LEMMA LinkFrame ==
  ASSUME LinkInv, UNCHANGED <<src, enc, out, snd, link, rcv>>
  PROVE  LinkInv'
  <1>1. PlainSize' = PlainSize
    BY Frame
  <1>2. RecordSize' = RecordSize
    BY DEF RecordSize
  <1> QED BY <1>1, <1>2 DEF LinkInv

LEMMA InstanceStreams ==
  ASSUME Inv, StreamInv, FinishUpload \/ Removed
  PROVE  StreamInv'
  <1>0. /\ NotEmpty /\ DeclaredInv /\ StoredInv /\ LinkInv /\ Delivered /\ LinkOpens
        /\ UNCHANGED <<src, snd, enc, out, declared, link, stored, rcv, temp, dest, damages>>
        /\ inst \in Descriptions
    BY DEF StreamInv, FinishUpload, Removed, sender, receiver, Inv, TypeOK
  <1>1. NotEmpty' /\ LinkInv' /\ Delivered' /\ StoredInv' /\ LinkOpens'
    BY <1>0, Frame, LinkFrame, DeliveredFrame, StoredFrame DEF LinkOpens
  <1>2. CASE FinishUpload
    <2>1. snd.pc = "stream" /\ inst'.size = inst.size
      BY <1>0, <1>2 DEF FinishUpload, Descriptions
    <2>2. DeclaredInv'
      BY <1>0, <2>1, DeclaredFrame
    <2> QED BY <1>1, <2>2 DEF StreamInv
  <1>3. CASE Removed
    <2>1. snd.pc # "stream" /\ inst'.complete = FALSE
      BY <1>0, <1>3 DEF Removed, NoUpload
    <2>2. DeclaredInv'
      BY <1>0, <2>1, DeclaredFrame
    <2> QED BY <1>1, <2>2 DEF StreamInv
  <1> QED BY <1>2, <1>3

LEMMA DamagedStreams ==
  ASSUME Inv, StreamInv, Damaged
  PROVE  StreamInv'
  <1>0. /\ NotEmpty /\ DeclaredInv /\ LinkInv
        /\ UNCHANGED <<src, snd, enc, out, declared, link, inst, rcv, temp, dest>>
        /\ damages' = damages + 1 /\ damages \in Nat
    <2>1. damages \in Nat
      BY TransferAssumption DEF Inv, TypeOK, TransferAssumption
    <2> QED BY <2>1 DEF StreamInv, Damaged, Damage, sender, receiver
  <1>1. damages' # 0
    BY <1>0
  <1>2. NotEmpty' /\ LinkInv' /\ DeclaredInv'
    BY <1>0, Frame, LinkFrame, DeclaredFrame
  <1> QED BY <1>1, <1>2 DEF StreamInv, StoredInv, Delivered, LinkOpens

(* As much is stored as was declared.  If the file did not grow, that is   *)
(* all of it and all there will be.                                        *)
LEMMA Complete ==
  ASSUME Inv, StreamInv, ~Grew, damages = 0, snd.pc = "stream", Len(stored) = declared
  PROVE  enc.closed /\ stored = Stream(Written) /\ PlainSize = src.len
  <1>0. /\ NotEmpty /\ DeclaredInv /\ StoredInv /\ TypeOK /\ EncoderInv /\ enc.read \in Nat /\ src.len \in Nat
        /\ enc.read <= src.len /\ enc.closed \in BOOLEAN
    BY Types DEF StreamInv, Inv, EncoderInv
  <1>1. declared = EncodedContentLength(PlainSize) /\ (src.stat = Pipe => enc.closed)
    BY <1>0 DEF DeclaredInv
  <1>2. PlainSize \in Nat /\ src.len <= PlainSize
    <2>1. CASE src.stat = Pipe
      <3>1. enc.read = src.len
        BY <1>0, <1>1, <2>1 DEF EncoderInv
      <3> QED BY <1>0, <2>1, <3>1 DEF PlainSize
    <2>2. CASE src.stat # Pipe
      <3>1. src.stat \in Nat
        BY <1>0, <2>2, TransferAssumption DEF TypeOK, TransferAssumption
      <3> QED BY <1>0, <2>2, <3>1 DEF PlainSize, Grew
    <2> QED BY <2>1, <2>2
  <1>3. PICK n \in 0 .. Written : stored = Stream(n)
    BY <1>0 DEF StoredInv
  <1>4. Written \in Nat
    BY UnitsWritten
  <1>5. n \in Nat /\ n <= Written /\ n = EncodedContentLength(PlainSize)
    BY <1>1, <1>3, <1>4, StreamFacts
  <1>6. /\ EncodedContentLength(src.len) \in Nat
        /\ EncodedContentLength(src.len) <= EncodedContentLength(PlainSize)
        /\ src.len < PlainSize => EncodedContentLength(src.len) < EncodedContentLength(PlainSize)
    BY <1>0, <1>2, Longer
  <1>7. enc.closed
    <2> SUFFICES ASSUME ~enc.closed PROVE FALSE
      OBVIOUS
    <2>1. EncodedContentLength(enc.read) \in Nat /\ Written < EncodedContentLength(enc.read)
      BY <1>0, OpenLength
    <2>2. EncodedContentLength(enc.read) <= EncodedContentLength(src.len)
      BY <1>0, Longer
    <2> QED BY <1>4, <1>5, <1>6, <2>1, <2>2
  <1>8. Written = EncodedContentLength(src.len)
    BY <1>0, <1>7, ClosedLength
  <1>9. n = Written /\ PlainSize = src.len
    BY <1>0, <1>2, <1>4, <1>5, <1>6, <1>8
  <1> QED BY <1>3, <1>7, <1>9

LEMMA AnswerStreams ==
  ASSUME Inv, StreamInv, SendAnswered
  PROVE  StreamInv'
  <1>0. /\ NotEmpty /\ DeclaredInv /\ StoredInv /\ LinkInv /\ snd \in Senders
        /\ UNCHANGED <<src, enc, out, declared, inst, stored, rcv, temp, dest, damages>>
        /\ snd.pc = "stream" /\ Len(stored) = declared /\ link' = TRUE
    BY DEF StreamInv, SendAnswered, receiver, Inv, TypeOK
  <1>1. snd'.pc = "done"
    BY <1>0 DEF SendAnswered, SndStep, Senders
  <1>2. rcv'.pc = "idle" /\ rcv'.cause = "none"
    BY <1>0, NoLink
  <1>3. NotEmpty' /\ StoredInv' /\ Written' = Written /\ PlainSize' = PlainSize /\ Grew' = Grew
    BY <1>0, Frame, StoredFrame
  <1>4. LinkInv' /\ LinkOpens'
    BY <1>0, <1>1, <1>2 DEF LinkInv, LinkOpens
  <1>5. DeclaredInv'
    <2>1. declared = EncodedContentLength(PlainSize) /\ (src.stat = Pipe => enc.closed) /\ inst.size = PlainSize
      BY <1>0 DEF DeclaredInv
    <2>2. declared' = EncodedContentLength(PlainSize)'
      BY <1>0, <1>3, <2>1 DEF EncodedContentLength, RecordSize, HeaderSize
    <2> QED BY <1>0, <1>1, <1>3, <2>1, <2>2 DEF DeclaredInv
  <1>6. Delivered'
    <2> SUFFICES ASSUME ~Grew, damages = 0
                 PROVE  (enc.closed /\ stored = Stream(Written) /\ PlainSize = src.len)'
      BY <1>0, <1>3 DEF Delivered
    <2>1. enc.closed /\ stored = Stream(Written) /\ PlainSize = src.len
      BY <1>0, Complete
    <2>2. Stream(Written)' = Stream(Written)
      BY <1>3 DEF Stream, UnitAt, RecordSize, HeaderUnit
    <2> QED BY <1>0, <1>3, <2>1, <2>2
  <1> QED BY <1>3, <1>4, <1>5, <1>6 DEF StreamInv

-----------------------------------------------------------------------------
(* The receiver of a whole stream.                                         *)

(* A slice of a stream.                                                    *)
LEMMA SliceOf ==
  ASSUME NEW w \in Nat, NEW a \in Nat \ {0}, NEW c \in Nat, a - 1 + c <= w
  PROVE  SubSeq(Stream(w), a, a - 1 + c) = [i \in 1 .. c |-> UnitAt(a + i - 1)]
  <1> DEFINE s == Stream(w)
             T == Int \X Int
             e == a - 1 + c
             u == [i \in 1 .. c |-> UnitAt(a + i - 1)]
  <1>1. ASSUME NEW i \in 1 .. c PROVE a + i - 1 \in Nat \ {0} /\ a + i - 1 \in 1 .. w
    OBVIOUS
  <1>2. u \in Seq(T) /\ Len(u) = c /\ \A i \in 1 .. c : u[i] = UnitAt(a + i - 1)
    BY <1>1, UnitType
  <1>3. \A i \in 1 .. w : s[i] = UnitAt(i)
    BY StreamFacts
  <1>4. \A i \in 1 .. w : s[i] \in T
    BY <1>3, UnitType
  <1>5. e \in Int /\ a \in Int /\ e - a + 1 = c /\ (a <= e <=> c > 0)
    OBVIOUS
  <1>6. \A i \in a .. e : s[i] \in T
    <2>1. ASSUME NEW i \in a .. e PROVE i \in 1 .. w
      OBVIOUS
    <2> QED BY <1>4, <2>1
  <1> HIDE DEF s, T, u, e
  <1>7. /\ SubSeq(s, a, e) \in Seq(T) /\ Len(SubSeq(s, a, e)) = (IF a <= e THEN e - a + 1 ELSE 0)
        /\ \A i \in 1 .. e - a + 1 : SubSeq(s, a, e)[i] = s[a + i - 1]
    BY <1>5, <1>6, SubSeqProperties
  <1>8. Len(SubSeq(s, a, e)) = c
    BY <1>5, <1>7
  <1>9. ASSUME NEW i \in 1 .. c PROVE SubSeq(s, a, e)[i] = u[i]
    BY <1>1, <1>2, <1>3, <1>5, <1>7
  <1>10. SubSeq(s, a, e) = u
    BY <1>2, <1>7, <1>8, <1>9, SeqEqual
  <1> QED BY <1>10 DEF s, u, e

LEMMA PlaceIs ==
  ASSUME NEW k \in Nat, NEW i \in 1 .. RecordSize
  PROVE  UnitAt((2 + k * RecordSize) + i - 1) = <<k, i>>
  <1>0. RecordSize \in Nat \ {0}
    BY RecordAssumption DEF RecordAssumption, RecordSize
  <1>1. PICK b \in Nat : b = k * RecordSize
    BY <1>0, Times
  <1>2. i - 1 \in Nat /\ i - 1 < RecordSize /\ ((2 + b) + i - 1) - 2 = b + (i - 1) /\ (2 + b) + i - 1 # 1
    BY <1>0, <1>1
  <1>3. (k * RecordSize + (i - 1)) \div RecordSize = k /\ (k * RecordSize + (i - 1)) % RecordSize = i - 1
    BY <1>0, <1>2, Quotient
  <1>4. UnitAt((2 + b) + i - 1) = <<k, (i - 1) + 1>>
    BY <1>1, <1>2, <1>3 DEF UnitAt
  <1>5. (i - 1) + 1 = i
    BY <1>0
  <1> QED BY <1>1, <1>4, <1>5

(* How much is left when k records of F full ones were read, and one of m  *)
(* units follows them.                                                     *)
LEMMA Left ==
  ASSUME NEW F \in Nat, NEW k \in Nat, k <= F, NEW m \in 0 .. MaxPlain
  PROVE  LET left == (HeaderSize + F * RecordSize + (m + 1)) - (2 + k * RecordSize) + 1 IN
         /\ k * RecordSize \in Nat /\ F * RecordSize \in Nat
         /\ k = F => left = m + 1
         /\ k < F => left > RecordSize
  <1>0. RecordSize \in Nat \ {0} /\ m \in Nat
    BY RecordAssumption DEF RecordAssumption, RecordSize
  <1>1. PICK a \in Nat, b \in Nat : a = k * RecordSize /\ b = F * RecordSize
    BY <1>0, Times
  <1>2. k = F => a = b
    BY <1>1
  <1>3. k < F => a + RecordSize <= b
    <2> SUFFICES ASSUME k < F PROVE a + RecordSize <= b
      OBVIOUS
    <2>1. k + 1 \in Nat /\ k + 1 <= F /\ RecordSize \in Nat
      BY <1>0
    <2>2. (k + 1) * RecordSize <= F * RecordSize
      BY <2>1, TimesMonotonic
    <2>3. (k + 1) * RecordSize = k * RecordSize + RecordSize
      BY <2>1, Times
    <2> QED BY <1>1, <2>2, <2>3
  <1> QED BY <1>0, <1>1, <1>2, <1>3 DEF HeaderSize

(* The next record of a whole stream opens, at its place and with nothing  *)
(* missing or left over.                                                   *)
LEMMA RecordOpens ==
  ASSUME Inv, StreamInv, link, ~Grew, damages = 0, rcv.pc = "records"
  PROVE  /\ Remaining # 0 /\ Opens(out, Slice, rcv.seq)
         /\ ~out[rcv.seq + 1].final => Len(Slice) = RecordSize
         /\ out[rcv.seq + 1].final => ~(Remaining > Len(Slice))
  <1>0. /\ NotEmpty /\ LinkInv /\ Delivered /\ TypeOK /\ EncoderInv /\ ReceiverInv /\ out \in Seq(Record)
        /\ rcv.seq \in Nat /\ MaxPlain \in Nat /\ RecordSize = MaxPlain + 1
    BY Types DEF StreamInv, Inv, TypeOK, RecordSize
  <1>1. enc.closed /\ stored = Stream(Written) /\ rcv.seq <= Full /\ rcv.pos = 2 + rcv.seq * RecordSize
    BY <1>0 DEF Delivered, LinkInv, ReceiverInv
  <1>2. PICK F \in Nat, m \in 0 .. MaxPlain, k \in Nat : F = Full /\ m = out[Len(out)].n /\ k = rcv.seq
    BY <1>0, <1>1, ClosedLength
  <1>3. /\ Len(out) = F + 1 /\ Written = HeaderSize + F * RecordSize + (m + 1) /\ Written \in Nat
        /\ out[F + 1].n = m /\ out[F + 1].final
    <2>1. Len(out) \in Nat \ {0} /\ F = Len(out) - 1 /\ Written = HeaderSize + F * RecordSize + (m + 1)
      BY <1>0, <1>1, <1>2, ClosedLength
    <2>2. Len(out) = F + 1
      BY <2>1
    <2>3. out[Len(out)].final
      BY <1>0, <1>1 DEF EncoderInv
    <2>4. Written \in Nat
      BY UnitsWritten
    <2> QED BY <1>2, <2>1, <2>2, <2>3, <2>4
  <1>4. \A i \in 1 .. F : out[i] = [n |-> MaxPlain, final |-> FALSE]
    BY <1>0, <1>2 DEF EncoderInv
  <1>5. Remaining = Written - (2 + k * RecordSize) + 1
    BY <1>1, <1>2, <1>3, StreamFacts DEF Remaining
  <1>6. /\ k * RecordSize \in Nat /\ F * RecordSize \in Nat
        /\ k = F => Remaining = m + 1
        /\ k < F => Remaining > RecordSize
    <2>1. k <= F
      BY <1>1, <1>2
    <2>2. /\ k * RecordSize \in Nat /\ F * RecordSize \in Nat
          /\ k = F => (HeaderSize + F * RecordSize + (m + 1)) - (2 + k * RecordSize) + 1 = m + 1
          /\ k < F => (HeaderSize + F * RecordSize + (m + 1)) - (2 + k * RecordSize) + 1 > RecordSize
      BY <2>1, Left
    <2>3. Remaining = (HeaderSize + F * RecordSize + (m + 1)) - (2 + k * RecordSize) + 1
      BY <1>3, <1>5
    <2> QED BY <2>2, <2>3, Zenon
  <1>7. PICK c \in 1 .. RecordSize : /\ c = out[k + 1].n + 1 /\ (k < F => c = RecordSize /\ ~out[k + 1].final)
                                    /\ (k = F => c = m + 1)
    <2>1. CASE k < F
      <3>1. k + 1 \in 1 .. F
        BY <1>2, <2>1
      <3>2. out[k + 1].n = MaxPlain /\ out[k + 1].final = FALSE
        BY <1>4, <3>1
      <3>3. RecordSize \in 1 .. RecordSize /\ RecordSize = out[k + 1].n + 1 /\ k # F
        BY <1>0, <2>1, <3>2
      <3> QED BY <3>2, <3>3
    <2>2. CASE k = F
      <3>1. m + 1 \in 1 .. RecordSize /\ m + 1 = out[k + 1].n + 1 /\ ~(k < F)
        BY <1>0, <1>3, <2>2
      <3> QED BY <3>1
    <2> QED BY <1>1, <1>2, <2>1, <2>2
  <1>8. /\ Remaining \in Nat /\ Remaining # 0 /\ c <= Remaining
        /\ (IF Remaining < RecordSize THEN Remaining ELSE RecordSize) = c
    <2>1. Remaining \in Int
      BY <1>3, <1>5, <1>6
    <2>2. CASE k < F
      BY <1>0, <1>6, <1>7, <2>1, <2>2
    <2>3. CASE k = F
      BY <1>0, <1>6, <1>7, <2>1, <2>3
    <2> QED BY <1>1, <1>2, <2>2, <2>3
  <1>9. Slice = [i \in 1 .. c |-> UnitAt((2 + k * RecordSize) + i - 1)]
    <2>1. PICK a \in Nat \ {0} : a = 2 + k * RecordSize
      BY <1>6
    <2>2. c \in Nat /\ a - 1 + c <= Written
      BY <1>0, <1>3, <1>5, <1>8, <2>1
    <2>3. Slice = SubSeq(Stream(Written), a, a - 1 + c)
      BY <1>1, <1>2, <1>8, <2>1 DEF Slice
    <2>4. SubSeq(Stream(Written), a, a - 1 + c) = [i \in 1 .. c |-> UnitAt(a + i - 1)]
      BY <1>3, <2>2, SliceOf, ZenonT(40)
    <2> QED BY <2>1, <2>3, <2>4
  <1>10. ASSUME NEW i \in 1 .. c PROVE UnitAt((2 + k * RecordSize) + i - 1) = <<k, i>>
    <2>1. i \in 1 .. RecordSize
      BY <1>0, <1>7
    <2> QED BY <2>1, PlaceIs
  <1>11. Slice = [i \in 1 .. c |-> <<k, i>>]
    BY <1>9, <1>10
  <1>12. RecordUnits(out, k + 1) = [i \in 1 .. c |-> <<k, i>>]
    <2>1. (k + 1) - 1 = k
      OBVIOUS
    <2> QED BY <1>7, <2>1 DEF RecordUnits
  <1>13. k + 1 \in DOMAIN out
    <2>1. k + 1 \in 1 .. F + 1
      BY <1>1, <1>2
    <2>2. DOMAIN out = 1 .. Len(out)
      BY <1>0
    <2> QED BY <1>3, <2>1, <2>2
  <1>14. Opens(out, Slice, rcv.seq)
    BY <1>2, <1>11, <1>12, <1>13 DEF Opens
  <1>15. Len(Slice) = c
    <2>1. c \in Nat
      BY <1>0
    <2> QED BY <1>11, <2>1
  <1>16. k < F \/ k = F
    BY <1>1, <1>2
  <1>17. ~out[k + 1].final => c = RecordSize
    BY <1>3, <1>7, <1>16
  <1>18. out[k + 1].final => ~(Remaining > c)
    BY <1>6, <1>7, <1>8, <1>16
  <1> QED BY <1>2, <1>8, <1>14, <1>15, <1>17, <1>18

LEMMA ReceiverStreams ==
  ASSUME StreamInv, UNCHANGED <<sender, inst, stored, damages>>, LinkInv', LinkOpens'
  PROVE  StreamInv'
  <1>0. /\ NotEmpty /\ DeclaredInv /\ StoredInv /\ Delivered
        /\ UNCHANGED <<src, snd, enc, out, declared, link, inst, stored, damages>>
    BY DEF StreamInv, sender
  <1>1. NotEmpty' /\ DeclaredInv' /\ StoredInv' /\ Delivered'
    BY <1>0, Frame, DeclaredFrame, StoredFrame, DeliveredFrame
  <1> QED BY <1>1 DEF StreamInv

LEMMA FailsStreams ==
  ASSUME Inv, StreamInv, link, NEW cause \in {"unavailable", "password", "broken", "damaged", "disk"}, Fails(cause),
         cause = "damaged" => Grew \/ damages # 0
  PROVE  StreamInv'
  <1>0. /\ UNCHANGED <<sender, inst, stored, damages>> /\ rcv \in Receivers /\ LinkInv
        /\ rcv' = [rcv EXCEPT !.pc = "failed", !.cause = cause]
        /\ UNCHANGED <<src, snd, enc, out, link>>
    BY DEF Fails, Inv, TypeOK, StreamInv, sender
  <1>1. rcv'.pc = "failed" /\ rcv'.cause = cause
    BY <1>0 DEF Receivers
  <1>2. Grew' = Grew
    BY <1>0, Frame
  <1>3. LinkInv' /\ LinkOpens'
    BY <1>0, <1>1, <1>2 DEF LinkInv, LinkOpens
  <1> QED BY <1>0, <1>3, ReceiverStreams

(* A receiver that goes on, or ends well, has the cause it had.            *)
LEMMA MovesStreams ==
  ASSUME Inv, StreamInv, link, UNCHANGED <<sender, inst, stored, damages>>,
         rcv'.cause = rcv.cause, rcv'.pc # "idle",
         rcv'.pc \in {"open", "header", "records", "finish"} => rcv'.file.size = PlainSize,
         rcv'.pc = "records" => rcv'.pos = 2 + rcv'.seq * RecordSize
  PROVE  StreamInv'
  <1>0. /\ UNCHANGED <<src, snd, enc, out, link, damages>> /\ LinkInv /\ LinkOpens
    BY DEF StreamInv, sender
  <1>1. Grew' = Grew /\ PlainSize' = PlainSize /\ RecordSize' = RecordSize
    BY <1>0, Frame DEF RecordSize
  <1>2. LinkInv'
    BY <1>0, <1>1 DEF LinkInv
  <1>3. LinkOpens'
    BY <1>0, <1>1 DEF LinkOpens
  <1> QED BY <1>2, <1>3, ReceiverStreams

LEMMA DescribeStreams ==
  ASSUME Inv, StreamInv, Describe
  PROVE  StreamInv'
  <1>0. link /\ LinkInv /\ DeclaredInv /\ rcv \in Receivers /\ snd.pc = "done"
    BY DEF Describe, StreamInv, Inv, TypeOK, LinkInv
  <1>1. CASE Fails("unavailable")
    BY <1>0, <1>1, FailsStreams
  <1>2. CASE inst.complete /\ Continues([rcv EXCEPT !.pc = "open", !.file = inst])
    <2>1. /\ rcv' = [rcv EXCEPT !.pc = "open", !.file = inst] /\ UNCHANGED <<sender, inst, stored, damages>>
      BY <1>2 DEF Continues
    <2>2. rcv'.pc = "open" /\ rcv'.cause = rcv.cause /\ rcv'.file = inst
      BY <1>0, <2>1 DEF Receivers
    <2>3. inst.size = PlainSize
      BY <1>0, <1>2 DEF DeclaredInv
    <2> QED BY <1>0, <2>1, <2>2, <2>3, MovesStreams
  <1> QED BY <1>1, <1>2 DEF Describe

LEMMA OpenStreams ==
  ASSUME Inv, StreamInv, NEW p \in Passwords, NEW stdout \in BOOLEAN, NEW ok \in BOOLEAN,
         OpenUpload(p, stdout, ok)
  PROVE  StreamInv'
  <1>0. link /\ LinkInv /\ rcv \in Receivers /\ rcv.pc = "open" /\ rcv.file.size = PlainSize
    BY DEF OpenUpload, StreamInv, Inv, TypeOK, LinkInv
  <1>1. CASE Fails("password") \/ Fails("disk")
    BY <1>0, <1>1, FailsStreams
  <1>2. CASE Continues([rcv EXCEPT !.pc = "header", !.stdout = stdout])
    <2>1. /\ rcv' = [rcv EXCEPT !.pc = "header", !.stdout = stdout] /\ UNCHANGED <<sender, inst, stored, damages>>
      BY <1>2 DEF Continues
    <2>2. rcv'.pc = "header" /\ rcv'.cause = rcv.cause /\ rcv'.file = rcv.file
      BY <1>0, <2>1 DEF Receivers
    <2> QED BY <1>0, <2>1, <2>2, MovesStreams
  <1> QED BY <1>1, <1>2 DEF OpenUpload, OpenDestination

LEMMA HeaderStreams ==
  ASSUME Inv, StreamInv, ReadHeader
  PROVE  StreamInv'
  <1>0. /\ link /\ LinkInv /\ Delivered /\ NotEmpty /\ rcv \in Receivers /\ rcv.pc = "header"
        /\ rcv.file.size = PlainSize /\ rcv.seq = 0 /\ RecordSize \in Nat
    BY RecordAssumption DEF ReadHeader, StreamInv, Inv, TypeOK, LinkInv, ReceiverInv, RecordAssumption, RecordSize
  <1>1. CASE Fails("unavailable")
    BY <1>0, <1>1, FailsStreams
  <1>2. CASE Fails("damaged") /\ ~(stored # <<>> /\ stored[1] = HeaderUnit)
    <2>1. Grew \/ damages # 0
      <3> SUFFICES ASSUME ~Grew, damages = 0 PROVE FALSE
        OBVIOUS
      <3>1. enc.closed /\ stored = Stream(Written)
        BY <1>0 DEF Delivered
      <3>2. PICK f \in Nat, m \in Nat : Written = HeaderSize + f + (m + 1)
        <4>1. /\ Full \in Nat /\ out[Len(out)].n \in 0 .. MaxPlain
              /\ Written = HeaderSize + Full * RecordSize + (out[Len(out)].n + 1)
          BY <1>0, <3>1, ClosedLength
        <4>2. Full * RecordSize \in Nat
          BY <1>0, <4>1, Times
        <4>3. out[Len(out)].n \in Nat
          BY <4>1, RecordAssumption DEF RecordAssumption
        <4> QED BY <4>1, <4>2, <4>3
      <3>3. Written \in Nat /\ 1 \in 1 .. Written
        BY <3>2 DEF HeaderSize
      <3>4. stored[1] = UnitAt(1) /\ Len(stored) = Written
        BY <3>1, <3>3, StreamFacts
      <3>5. stored[1] = HeaderUnit
        BY <3>4 DEF UnitAt
      <3>6. Len(stored) # 0
        BY <3>3, <3>4
      <3>7. stored # <<>>
        BY <3>6
      <3> QED BY <1>2, <3>5, <3>7
    <2> QED BY <1>0, <1>2, <2>1, FailsStreams
  <1>3. CASE Continues([rcv EXCEPT !.pc = "records", !.pos = 2])
    <2>1. /\ rcv' = [rcv EXCEPT !.pc = "records", !.pos = 2] /\ UNCHANGED <<sender, inst, stored, damages>>
      BY <1>3 DEF Continues
    <2>2. /\ rcv'.pc = "records" /\ rcv'.cause = rcv.cause /\ rcv'.file = rcv.file /\ rcv'.pos = 2
          /\ rcv'.seq = 0
      BY <1>0, <2>1 DEF Receivers
    <2>3. 2 + 0 * RecordSize = 2
      BY <1>0, Times
    <2> QED BY <1>0, <2>1, <2>2, <2>3, MovesStreams
  <1> QED BY <1>1, <1>2, <1>3 DEF ReadHeader

LEMMA NextRecordStreams ==
  ASSUME Inv, StreamInv, NextRecord
  PROVE  StreamInv'
  <1>0. /\ link /\ LinkInv /\ rcv \in Receivers /\ rcv.pc = "records" /\ rcv.seq \in Nat
        /\ rcv.file.size = PlainSize /\ RecordSize \in Nat /\ rcv.pos = 2 + rcv.seq * RecordSize
    BY RecordAssumption, Types DEF NextRecord, StreamInv, Inv, TypeOK, LinkInv, RecordAssumption, RecordSize
  <1> DEFINE bad == \/ Remaining = 0
                    \/ ~Opens(out, Slice, rcv.seq)
                    \/ ~out[Origin(Slice)].final /\ Len(Slice) # RecordSize
                    \/ out[Origin(Slice)].final /\ Remaining > Len(Slice)
  <1>1. CASE bad
    <2>1. Grew \/ damages # 0
      <3> SUFFICES ASSUME ~Grew, damages = 0 PROVE FALSE
        OBVIOUS
      <3>1. /\ Remaining # 0 /\ Opens(out, Slice, rcv.seq)
            /\ ~out[rcv.seq + 1].final => Len(Slice) = RecordSize
            /\ out[rcv.seq + 1].final => ~(Remaining > Len(Slice))
        BY <1>0, RecordOpens
      <3>2. Origin(Slice) = rcv.seq + 1
        BY <1>0, <3>1, Opened
      <3> QED BY <1>1, <3>1, <3>2, Zenon
    <2>2. Fails("damaged")
      BY <1>1 DEF NextRecord
    <2> QED BY <1>0, <2>1, <2>2, FailsStreams
  <1>2. CASE ~bad
    <2>1. /\ UNCHANGED <<sender, inst, stored, damages>>
          /\ rcv' = [rcv EXCEPT !.pc = IF out[Origin(Slice)].final THEN "finish" ELSE "records",
                                !.pos = @ + Len(Slice), !.seq = @ + 1]
      BY <1>2 DEF NextRecord, Continues
    <2>2. /\ rcv'.pc = (IF out[Origin(Slice)].final THEN "finish" ELSE "records")
          /\ rcv'.pos = rcv.pos + Len(Slice) /\ rcv'.seq = rcv.seq + 1
          /\ rcv'.file = rcv.file /\ rcv'.cause = rcv.cause
      BY <1>0, <2>1 DEF Receivers
    <2>3. rcv'.pc = "records" => rcv'.pos = 2 + rcv'.seq * RecordSize
      <3> SUFFICES ASSUME rcv'.pc = "records" PROVE rcv'.pos = 2 + rcv'.seq * RecordSize
        OBVIOUS
      <3>1. Len(Slice) = RecordSize
        BY <1>2, <2>2
      <3>2. /\ (rcv.seq + 1) * RecordSize = rcv.seq * RecordSize + RecordSize
            /\ rcv.seq * RecordSize \in Nat
        BY <1>0, Times
      <3> QED BY <1>0, <2>2, <3>1, <3>2
    <2>4. rcv'.pc # "idle"
      BY <2>2
    <2> HIDE DEF bad
    <2> QED BY <1>0, <2>1, <2>2, <2>3, <2>4, MovesStreams
  <1> QED BY <1>1, <1>2

LEMMA FinishStreams ==
  ASSUME Inv, StreamInv, NEW ok \in BOOLEAN, Finish(ok)
  PROVE  StreamInv'
  <1>0. /\ link /\ LinkInv /\ Delivered /\ rcv \in Receivers /\ rcv.pc = "finish" /\ src.len \in Nat
        /\ rcv.file.size = PlainSize /\ temp = Plaintext(src.len)
    BY Types DEF Finish, StreamInv, Inv, TypeOK, LinkInv, ReceiverInv
  <1>1. CASE Fails("disk")
    BY <1>0, <1>1, FailsStreams
  <1>2. CASE Fails("damaged") /\ Len(temp) # rcv.file.size
    <2>1. Grew \/ damages # 0
      <3> SUFFICES ASSUME ~Grew, damages = 0 PROVE FALSE
        OBVIOUS
      <3>1. PlainSize = src.len
        BY <1>0 DEF Delivered
      <3>2. Len(temp) = src.len
        BY <1>0, PlaintextFacts
      <3> QED BY <1>0, <1>2, <3>1, <3>2
    <2> QED BY <1>0, <1>2, <2>1, FailsStreams
  <1>3. CASE rcv' = [rcv EXCEPT !.pc = "saved"] /\ UNCHANGED <<sender, inst, stored, damages>>
    <2>1. rcv'.pc = "saved" /\ rcv'.cause = rcv.cause
      BY <1>0, <1>3 DEF Receivers
    <2> QED BY <1>0, <1>3, <2>1, MovesStreams
  <1> QED BY <1>1, <1>2, <1>3 DEF Finish, Settle

LEMMA EndsStreams ==
  ASSUME Inv, StreamInv, FetchBroken \/ Killed
  PROVE  StreamInv'
  <1>0. link /\ LinkInv /\ rcv \in Receivers
    BY DEF FetchBroken, Fetching, Killed, StreamInv, Inv, TypeOK, LinkInv
  <1>1. CASE Fails("broken")
    BY <1>0, <1>1, FailsStreams
  <1>2. CASE rcv' = [rcv EXCEPT !.pc = "killed"] /\ UNCHANGED <<sender, inst, stored, damages>>
    <2>1. rcv'.pc = "killed" /\ rcv'.cause = rcv.cause
      BY <1>0, <1>2 DEF Receivers
    <2> QED BY <1>0, <1>2, <2>1, MovesStreams
  <1> QED BY <1>1, <1>2 DEF FetchBroken, Killed

LEMMA InitStreams == Init => StreamInv
  <1> SUFFICES ASSUME Init PROVE StreamInv
    OBVIOUS
  <1>1. /\ Len(out) = 0 /\ enc.closed = FALSE /\ snd.pc = "options" /\ link = FALSE
        /\ rcv.pc = "idle" /\ rcv.cause = "none" /\ stored = <<>> /\ Len(out) \in Nat
    BY DEF Init
  <1>2. Written = 0 /\ Stream(0) = <<>>
    BY <1>1 DEF Written, Stream
  <1>3. StoredInv
    BY <1>1, <1>2 DEF StoredInv
  <1>4. NotEmpty /\ DeclaredInv /\ LinkInv /\ Delivered /\ LinkOpens
    BY <1>1 DEF NotEmpty, DeclaredInv, LinkInv, Delivered, LinkOpens
  <1> QED BY <1>3, <1>4 DEF StreamInv

LEMMA StepStreams ==
  ASSUME Inv, Inv', StreamInv, [Next]_vars
  PROVE  StreamInv'
  <1>1. CASE Next
    <2>0. NoPassword \in Passwords
      BY TransferAssumption DEF TransferAssumption
    <2>1. CASE \E p, again \in Passwords : TakePassword(p) \/ PromptPassword(p, again)
      BY <2>1, SenderStreams
    <2>2. CASE OpenSource \/ SourceFails \/ BodyMismatch \/ SendBroken \/ Interrupt
      BY <2>0, <2>2, SenderStreams
    <2>3. CASE EncodeUnit \/ CloseEncoder
      BY <2>3, EncodeStreams, CloseStreams
    <2>4. CASE \E accepted, arrives \in BOOLEAN : CreateUpload(accepted, arrives)
      BY <2>4, CreateStreams
    <2>5. CASE StoreUnit \/ FinishUpload \/ Removed \/ Damaged \/ SendAnswered
      BY <2>5, StoreStreams, InstanceStreams, DamagedStreams, AnswerStreams
    <2>6. CASE Describe \/ FetchBroken \/ ReadHeader \/ NextRecord \/ Killed
      BY <2>6, DescribeStreams, EndsStreams, HeaderStreams, NextRecordStreams
    <2>7. CASE \E p \in Passwords, o, ok \in BOOLEAN : OpenUpload(p, o, ok)
      BY <2>7, OpenStreams
    <2>8. CASE \E ok \in BOOLEAN : Finish(ok)
      BY <2>8, FinishStreams
    <2> QED BY <1>1, <2>1, <2>2, <2>3, <2>4, <2>5, <2>6, <2>7, <2>8 DEF Next
  <1>2. CASE UNCHANGED vars
    <2>1. UNCHANGED <<src, snd, enc, out, declared, inst, stored, link, rcv, damages>>
      BY <1>2 DEF vars
    <2>2. NotEmpty /\ DeclaredInv /\ StoredInv /\ LinkInv /\ Delivered /\ LinkOpens
      BY DEF StreamInv
    <2>3. NotEmpty' /\ DeclaredInv' /\ StoredInv' /\ LinkInv' /\ Delivered' /\ Grew' = Grew
      BY <2>1, <2>2, Frame, DeclaredFrame, StoredFrame, LinkFrame, DeliveredFrame
    <2>4. LinkOpens'
      BY <2>1, <2>2, <2>3 DEF LinkOpens
    <2> QED BY <2>3, <2>4 DEF StreamInv
  <1> QED BY <1>1, <1>2

(* A link that `sendan up` printed opens, unless the file grew while it    *)
(* was sent or what is stored was damaged: the instance's answer shows     *)
(* that as much was stored as was declared, and that is every record the   *)
(* encoder sealed, the final one included.                                 *)
THEOREM LinksOpen == Spec => []LinkOpens
  <1>1. Inv /\ Inv' /\ StreamInv /\ [Next]_vars => StreamInv'
    BY StepStreams
  <1>2. StreamInv => LinkOpens
    BY DEF StreamInv
  <1> QED BY InitStreams, Invariance, <1>1, <1>2, PTL DEF Spec
=============================================================================
