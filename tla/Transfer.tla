------------------------------ MODULE Transfer ------------------------------
(***************************************************************************)
(* One file from `sendan up` to `sendan down`: the command line client     *)
(* (cmd/sendan-cli, internal/client) with the streaming encoder and        *)
(* decoder of internal/crypto.  The instance is what the client sees of    *)
(* it: it keeps any prefix of the body and makes the upload available when *)
(* it has as many units as were declared (UploadLifecycle models why).     *)
(*                                                                         *)
(* src.stat is the length `up` measured, Pipe when it cannot; src.len is   *)
(* what reading the source then yields, because a file may grow or shrink  *)
(* between the two.                                                        *)
(***************************************************************************)
EXTENDS ContentStream, FiniteSets

CONSTANTS
  Lengths,      \* plaintext lengths of a source
  Passwords,    \* passwords a person may type, NoPassword among them
  NoPassword,   \* an empty answer
  MaxDamages    \* bound on what happens to a stored stream

Pipe == -1
NoFile == <<0>>   \* no file has this content
Old    == <<-1>>  \* what the destination held before

ASSUME TransferAssumption ==
  /\ Lengths \subseteq Nat /\ NoPassword \in Passwords /\ MaxDamages \in Nat

VARIABLES
  src,      \* the source
  snd,      \* the sending process: pc and the password it will use
  enc,      \* its encoder
  out,      \* the records sealed so far
  declared, \* the length given to the instance
  inst,     \* the upload as the instance describes it
  stored,   \* the stream it holds
  link,     \* the link was printed
  rcv,      \* the receiving process
  temp,     \* what it has written, to a temporary file or to stdout
  dest,     \* the file it was asked to write
  damages

vars == <<src, snd, enc, out, declared, inst, stored, link, rcv, temp, dest, damages>>

sender   == <<src, snd, enc, out, declared, link>>
receiver == <<rcv, temp, dest>>

NoUpload == [made |-> FALSE, complete |-> FALSE, size |-> 0, password |-> NoPassword]

Init ==
  /\ src \in [stat : Lengths \cup {Pipe}, len : Lengths]
  /\ snd = [pc |-> "options", password |-> NoPassword]
  /\ enc = [n |-> 0, read |-> 0, closed |-> FALSE]
  /\ out = <<>> /\ declared = 0
  /\ inst = NoUpload /\ stored = <<>> /\ link = FALSE
  /\ rcv = [pc |-> "idle", pos |-> 1, seq |-> 0, stdout |-> FALSE, cause |-> "none",
            file |-> NoUpload]
  /\ temp = NoFile /\ dest = Old /\ damages = 0

-----------------------------------------------------------------------------
(* The sender.                                                             *)

SndStep(pc) == snd' = [snd EXCEPT !.pc = pc]

(* Options are read before anything is opened.  A file or the environment  *)
(* is taken as given and may not be empty; a prompt asks twice, and an     *)
(* empty answer means no password.                                         *)
TakePassword(p) ==
  /\ snd.pc = "options"
  /\ snd' = IF p = NoPassword THEN [snd EXCEPT !.pc = "failed"]
            ELSE [pc |-> "open", password |-> p]
  /\ UNCHANGED <<src, enc, out, declared, inst, stored, link, receiver, damages>>

PromptPassword(first, again) ==
  /\ snd.pc = "options"
  /\ snd' = IF first = NoPassword \/ first = again
            THEN [pc |-> "open", password |-> first]
            ELSE [snd EXCEPT !.pc = "failed"]
  /\ UNCHANGED <<src, enc, out, declared, inst, stored, link, receiver, damages>>

(* A measured source is declared before it is read; a pipe is encoded to a *)
(* nameless temporary file first.                                          *)
OpenSource ==
  /\ snd.pc = "open"
  /\ IF src.stat = Pipe THEN SndStep("spool") /\ UNCHANGED declared
     ELSE SndStep("create") /\ declared' = EncodedContentLength(src.stat)
  /\ UNCHANGED <<src, enc, out, inst, stored, link, receiver, damages>>

(* The encoder takes one more unit: a full buffer is sealed only now that  *)
(* something is known to follow it.                                        *)
EncodeUnit ==
  /\ snd.pc \in {"spool", "stream"} /\ enc.read < src.len
  /\ IF enc.n = MaxPlain
     THEN /\ out' = Append(out, [n |-> enc.n, final |-> FALSE])
          /\ enc' = [enc EXCEPT !.n = 1, !.read = @ + 1]
     ELSE enc' = [enc EXCEPT !.n = @ + 1, !.read = @ + 1] /\ UNCHANGED out
  /\ UNCHANGED <<src, snd, declared, inst, stored, link, receiver, damages>>

(* Close seals what is left, which may be nothing, as the final record.    *)
CloseEncoder ==
  /\ snd.pc \in {"spool", "stream"} /\ enc.read = src.len /\ ~enc.closed
  /\ out' = Append(out, [n |-> enc.n, final |-> TRUE])
  /\ enc' = [enc EXCEPT !.n = 0, !.closed = TRUE]
  /\ IF snd.pc = "spool" THEN SndStep("create") /\ declared' = Len(Units(out'))
     ELSE UNCHANGED <<snd, declared>>
  /\ UNCHANGED <<src, inst, stored, link, receiver, damages>>

(* The source cannot be read to its end.                                   *)
SourceFails ==
  /\ snd.pc \in {"open", "spool", "stream"} /\ ~enc.closed
  /\ SndStep("failed")
  /\ UNCHANGED <<src, enc, out, declared, inst, stored, link, receiver, damages>>

(* Variant: the plaintext length is recovered from the encoded one.        *)
PlainSizeRecovered == IF src.stat = Pipe THEN declared - HeaderSize - 1 ELSE src.stat

(* The size in the description: as measured, or as copied into the encoder. *)
PlainSize == IF src.stat = Pipe THEN enc.read ELSE src.stat

(* What the sender puts into the upload's metadata.                        *)
Description ==
  [made |-> TRUE, complete |-> FALSE, size |-> PlainSize, password |-> snd.password]

(* POST.  The upload exists from then on, whether or not the answer        *)
(* arrives; it may also be refused.                                        *)
CreateUpload(accepted, arrives) ==
  /\ snd.pc = "create"
  /\ inst' = IF accepted THEN Description ELSE inst
  /\ SndStep(IF accepted /\ arrives THEN "stream" ELSE "failed")
  /\ UNCHANGED <<src, enc, out, declared, stored, link, receiver, damages>>

(* PATCH: the instance stores the next unit of the body, up to the length  *)
(* that was declared.                                                      *)
StoreUnit ==
  /\ snd.pc = "stream"
  /\ Len(stored) < declared /\ Len(stored) < Len(Units(out))
  /\ stored' = Append(stored, Units(out)[Len(stored) + 1])
  /\ UNCHANGED <<sender, inst, receiver, damages>>

FinishUpload ==
  /\ snd.pc = "stream" /\ Len(stored) = declared /\ ~inst.complete
  /\ inst' = [inst EXCEPT !.complete = TRUE]
  /\ UNCHANGED <<sender, stored, receiver, damages>>

(* The transport finds that the body is not as long as was declared.       *)
BodyMismatch ==
  /\ snd.pc = "stream" /\ enc.closed /\ Len(Units(out)) # declared
  /\ SndStep("failed")
  /\ UNCHANGED <<src, enc, out, declared, inst, stored, link, receiver, damages>>

(* 204 and an offset that is the declared length: the link is printed.  It *)
(* may arrive while a body that is too long is still being read.           *)
SendAnswered ==
  /\ snd.pc = "stream" /\ inst.complete /\ Len(stored) = declared
  /\ SndStep("done") /\ link' = TRUE
  /\ UNCHANGED <<src, enc, out, declared, inst, stored, receiver, damages>>

(* The connection breaks, or the instance answers with an error.           *)
SendBroken ==
  /\ snd.pc = "stream" /\ SndStep("failed")
  /\ UNCHANGED <<src, enc, out, declared, inst, stored, link, receiver, damages>>

(* An interrupt cancels the request; a pipe being read does not notice.    *)
Interrupt ==
  /\ snd.pc \in {"create", "stream"} /\ SndStep("interrupted")
  /\ UNCHANGED <<src, enc, out, declared, inst, stored, link, receiver, damages>>

(* `sendan delete` with the owner's token, and the instance's own reasons  *)
(* for removing an upload.  A transfer under way goes on.                  *)
Removed ==
  /\ inst.made /\ snd.pc \notin {"create", "stream"}
  /\ inst' = NoUpload
  /\ UNCHANGED <<sender, stored, receiver, damages>>

-----------------------------------------------------------------------------
(* What may become of a stored stream: units lost or repeated, moved, or   *)
(* damaged.                                                                *)

Damage(s) ==
  /\ inst.complete /\ snd.pc = "done" /\ rcv.pc = "idle" /\ damages < MaxDamages /\ s # stored
  /\ stored' = s /\ damages' = damages + 1
  /\ UNCHANGED <<sender, inst, receiver>>

Splice(i, j) == SubSeq(stored, 1, i) \o SubSeq(stored, j, Len(stored))

Move(i, j, k) ==
  SubSeq(stored, 1, i) \o SubSeq(stored, j + 1, k) \o SubSeq(stored, i + 1, j)
    \o SubSeq(stored, k + 1, Len(stored))

Places == 0 .. Len(stored)

Damaged ==
  \/ \E i \in Places, j \in 1 .. Len(stored) + 1 : Damage(Splice(i, j))
  \/ \E i, j, k \in Places : i < j /\ j < k /\ Damage(Move(i, j, k))
  \/ \E i \in 1 .. Len(stored) : Damage([stored EXCEPT ![i] = ForeignUnit])
  \/ Damage(Append(stored, ForeignUnit))

-----------------------------------------------------------------------------
(* The receiver.                                                           *)

(* A failure.  The temporary file, if there is one by then, is removed; no *)
(* caller looks at whether that succeeded, so it may stay.                 *)
Fails(cause) ==
  /\ rcv' = [rcv EXCEPT !.pc = "failed", !.cause = cause]
  /\ \/ UNCHANGED temp
     \/ ~rcv.stdout /\ temp' = NoFile
  /\ UNCHANGED <<dest, sender, inst, stored, damages>>

Continues(r) ==
  /\ rcv' = r
  /\ UNCHANGED <<dest, sender, inst, stored, damages>>

(* Describe: an upload that is not available looks like one that never was. *)
Describe ==
  /\ rcv.pc = "idle" /\ link
  /\ IF inst.complete
     THEN Continues([rcv EXCEPT !.pc = "open", !.file = inst]) /\ UNCHANGED temp
     ELSE Fails("unavailable")

(* openDestination: a temporary file beside the destination.  A name that  *)
(* is none is refused (safeName), and the directory may not be writable.   *)
OpenDestination(stdout, ok) ==
  IF ~stdout /\ ~ok THEN Fails("disk")
  ELSE Continues([rcv EXCEPT !.pc = "header", !.stdout = stdout]) /\ temp' = <<>>

(* Open unwraps the file key with the link and the password.               *)
OpenUpload(p, stdout, ok) ==
  /\ rcv.pc = "open"
  /\ IF rcv.file.password # NoPassword /\ p # rcv.file.password THEN Fails("password")
     ELSE OpenDestination(stdout, ok)

Fetching == rcv.pc \in {"header", "records"}

(* The upload is gone, or the transfer breaks off, or is interrupted.      *)
FetchBroken == Fetching /\ Fails("broken")

ReadHeader ==
  /\ rcv.pc = "header"
  /\ IF ~inst.complete THEN Fails("unavailable")
     ELSE IF stored # <<>> /\ stored[1] = HeaderUnit
     THEN Continues([rcv EXCEPT !.pc = "records", !.pos = 2]) /\ UNCHANGED temp
     ELSE Fails("damaged")

Remaining == Len(stored) - rcv.pos + 1

(* io.ReadFull of one record: fewer units only at the end of the stream.   *)
Slice == SubSeq(stored, rcv.pos,
                rcv.pos - 1 + (IF Remaining < RecordSize THEN Remaining ELSE RecordSize))

(* Variant: the end of the stream is the end of the file.                  *)
NextRecordLenient ==
  /\ rcv.pc = "records"
  /\ IF Remaining = 0
     THEN Continues([rcv EXCEPT !.pc = "finish"]) /\ UNCHANGED temp
     ELSE IF ~Opens(out, Slice, rcv.seq) THEN Fails("damaged")
     ELSE LET k == Origin(Slice) IN
       /\ temp' = temp \o PlainOf(out, k)
       /\ Continues([rcv EXCEPT !.pos = @ + Len(Slice), !.seq = @ + 1])

(* nextRecord: the slice must be the record sealed at this place; one that *)
(* is not final must be full, and nothing may follow the final one.  The   *)
(* plaintext is written before the stream is known to be sound.            *)
NextRecord ==
  /\ rcv.pc = "records"
  /\ IF \/ Remaining = 0
        \/ ~Opens(out, Slice, rcv.seq)
        \/ ~out[Origin(Slice)].final /\ Len(Slice) # RecordSize
        \/ out[Origin(Slice)].final /\ Remaining > Len(Slice)
     THEN Fails("damaged")
     ELSE LET k == Origin(Slice) IN
       /\ temp' = temp \o PlainOf(out, k)
       /\ Continues([rcv EXCEPT !.pc = IF out[k].final THEN "finish" ELSE "records",
                                !.pos = @ + Len(Slice), !.seq = @ + 1])

(* finish(true): the temporary file takes the name, unless closing or      *)
(* renaming it fails.  Standard output has nothing to finish.              *)
Settle(ok) ==
  IF ~rcv.stdout /\ ~ok THEN Fails("disk")
  ELSE /\ rcv' = [rcv EXCEPT !.pc = "saved"]
       /\ dest' = IF rcv.stdout THEN dest ELSE temp
       /\ temp' = IF rcv.stdout THEN temp ELSE NoFile
       /\ UNCHANGED <<sender, inst, stored, damages>>

(* The size in the description must agree.                                 *)
Finish(ok) ==
  /\ rcv.pc = "finish"
  /\ IF Len(temp) # rcv.file.size THEN Fails("damaged") ELSE Settle(ok)

(* The process is killed: nothing is cleaned up.                           *)
Killed ==
  /\ rcv.pc \in {"open", "header", "records", "finish"}
  /\ rcv' = [rcv EXCEPT !.pc = "killed"]
  /\ UNCHANGED <<sender, inst, stored, temp, dest, damages>>
-----------------------------------------------------------------------------
Next ==
  \/ \E p \in Passwords : TakePassword(p)
  \/ \E p, again \in Passwords : PromptPassword(p, again)
  \/ OpenSource \/ EncodeUnit \/ CloseEncoder \/ SourceFails
  \/ \E accepted, arrives \in BOOLEAN : CreateUpload(accepted, arrives)
  \/ StoreUnit \/ FinishUpload \/ BodyMismatch \/ SendAnswered \/ SendBroken
  \/ Interrupt \/ Removed \/ Damaged
  \/ Describe \/ (\E p \in Passwords, o, ok \in BOOLEAN : OpenUpload(p, o, ok))
  \/ FetchBroken \/ ReadHeader \/ NextRecord
  \/ (\E ok \in BOOLEAN : Finish(ok)) \/ Killed

Spec == Init /\ [][Next]_vars

-----------------------------------------------------------------------------
(* Properties.                                                             *)

Plaintext(n) == [i \in 1 .. n |-> i]

(* What was declared without encoding anything is what the encoder writes, *)
(* full last record and empty file included ("too small and the server     *)
(* refuses the tail, too large and the upload never completes").           *)
DeclaredExactly ==
  enc.closed => Len(Units(out)) = EncodedContentLength(src.len)

(* The source was longer when it was read than when it was measured.       *)
Grew == src.stat # Pipe /\ src.len > src.stat

(* A link that was printed opens: a receiver of an undamaged upload fails  *)
(* for reasons of its own only.  A source that shrank while it was sent    *)
(* never gets a link.  One that grew is the exception.                     *)
LinkOpens ==
  link /\ ~Grew /\ damages = 0 => rcv.cause # "damaged"

(* What the receiver has written is a prefix of the file, whatever became  *)
(* of the stream: nothing lost, repeated or in another order.              *)
PrefixOnly ==
  temp # NoFile => temp = Plaintext(Len(temp)) /\ Len(temp) <= src.len

(* The destination holds what it held before, or the whole file.           *)
SavedWhole == dest \in {Old, Plaintext(src.len)}

(* What a comment says and the code does not keep.                         *)

(* "Interrupting must stop the transfer rather than leave a half-written   *)
(* upload the instance will reap later."                                   *)
InterruptLeavesNothing == snd.pc = "interrupted" => ~inst.made
-----------------------------------------------------------------------------
(* The inductive invariant behind PrefixOnly and SavedWhole.  It says      *)
(* nothing of what is stored: any units may arrive.                        *)

Descriptions == [made : BOOLEAN, complete : BOOLEAN, size : Nat, password : Passwords]

Senders ==
  [pc : {"options", "open", "spool", "create", "stream", "done", "failed", "interrupted"},
   password : Passwords]

Receivers ==
  [pc : {"idle", "open", "header", "records", "finish", "saved", "failed", "killed"},
   pos : Nat, seq : Nat, stdout : BOOLEAN,
   cause : {"none", "unavailable", "password", "broken", "damaged", "disk"},
   file : Descriptions]

(* Every variable keeps its type (what is declared is a length).           *)
TypeOK ==
  /\ src \in [stat : Lengths \cup {Pipe}, len : Lengths] /\ snd \in Senders
  /\ enc \in [n : 0 .. MaxPlain, read : Nat, closed : BOOLEAN] /\ out \in Seq(Record)
  /\ link \in BOOLEAN /\ damages \in 0 .. MaxDamages
  /\ inst \in Descriptions /\ rcv \in Receivers

(* Records sealed because something followed them.                         *)
Full == IF enc.closed THEN Len(out) - 1 ELSE Len(out)

(* Every record but the last is full and says that it is not the last.     *)
EncoderInv ==
  /\ enc.read <= src.len
  /\ \A k \in 1 .. Full : out[k] = [n |-> MaxPlain, final |-> FALSE]
  /\ ~enc.closed => enc.read = Full * MaxPlain + enc.n
  /\ enc.closed => /\ enc.read = src.len /\ Len(out) > 0
                   /\ out[Len(out)].final /\ out[Len(out)].n = src.len - Full * MaxPlain

(* A receiver that has opened seq records has written their plaintext.     *)
ReceiverInv ==
  /\ rcv.pc \in {"idle", "open"} => temp = NoFile /\ ~rcv.stdout
  /\ rcv.pc \in {"idle", "open", "header"} => rcv.seq = 0
  /\ rcv.pc = "header" => temp = Plaintext(0)
  /\ rcv.pc = "records" => rcv.seq <= Full /\ temp = Plaintext(rcv.seq * MaxPlain)
  /\ rcv.pc = "finish" => temp = Plaintext(src.len)
  /\ temp = NoFile \/ \E n \in 0 .. src.len : temp = Plaintext(n)

Inv == TypeOK /\ EncoderInv /\ ReceiverInv /\ SavedWhole

(* Behind DeclaredExactly: a last record is empty only in an empty file.   *)
NotEmpty ==
  /\ ~enc.closed /\ Len(out) > 0 => enc.n > 0
  /\ enc.closed /\ Len(out) > 1 => out[Len(out)].n > 0

(* The units of a stream, and how many of them the encoder has written:    *)
(* records are full but for the last, so a unit is known by its place.     *)
UnitAt(p) ==
  IF p = 1 THEN HeaderUnit ELSE <<(p - 2) \div RecordSize, ((p - 2) % RecordSize) + 1>>

Stream(n) == [p \in 1 .. n |-> UnitAt(p)]

Written ==
  IF Len(out) = 0 THEN 0
  ELSE HeaderSize + Full * RecordSize + (IF enc.closed THEN out[Len(out)].n + 1 ELSE 0)

(* Behind LinkOpens: the length declared is the one of what is described,  *)
(* and what is stored is a part of what was written.                       *)
DeclaredInv ==
  /\ snd.pc = "spool" => src.stat = Pipe
  /\ snd.pc \in {"create", "stream", "done"} =>
       declared = EncodedContentLength(PlainSize) /\ (src.stat = Pipe => enc.closed)
  /\ snd.pc = "stream" => inst.size = PlainSize
  /\ snd.pc = "done" /\ inst.complete => inst.size = PlainSize

StoredInv == damages = 0 => \E n \in 0 .. Written : stored = Stream(n)

(* A receiver is where its records end, and has what a link was given for. *)
LinkInv ==
  /\ link => snd.pc = "done"
  /\ rcv.pc # "idle" => link
  /\ rcv.pc = "idle" => rcv.cause = "none"
  /\ rcv.pc \in {"open", "header", "records", "finish"} => rcv.file.size = PlainSize
  /\ rcv.pc = "records" => rcv.pos = 2 + rcv.seq * RecordSize

(* A link is given when as much was stored as was declared: the whole      *)
(* stream of the file, unless the file grew.                               *)
Delivered == link /\ ~Grew /\ damages = 0 =>
  enc.closed /\ stored = Stream(Written) /\ PlainSize = src.len

StreamInv == NotEmpty /\ DeclaredInv /\ StoredInv /\ LinkInv /\ Delivered /\ LinkOpens
=============================================================================
