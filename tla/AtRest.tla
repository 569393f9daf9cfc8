------------------------------- MODULE AtRest -------------------------------
(***************************************************************************)
(* Encryption at rest: the shredder that encrypts a blob under its         *)
(* upload's key (internal/blob/shred.go), the store that keeps those keys  *)
(* wrapped under a master key (internal/store/masterkey.go), and the       *)
(* command that changes the master key (internal/store/rekey.go,           *)
(* cmd/sendan/masterkey.go).                                               *)
(*                                                                         *)
(* A byte of a blob is the plaintext byte it hides and the key stream unit *)
(* it was combined with; combining it with the same unit gives the byte    *)
(* back and with any other gives Noise.  The operator stops the instance   *)
(* for a rotation, as the command asks, and follows what it prints; a      *)
(* command that dies after its commit prints nothing.                      *)
(***************************************************************************)
EXTENDS KeyStream, FiniteSets

CONSTANTS
  Uploads,      \* identifiers
  Keys,         \* at-rest keys
  Marked,       \* those that begin with the octet that marks a wrapped key
  IV(_),        \* the first counter block, derived from the key
  MasterKeys,   \* contents of master key files that hold a key
  Size,         \* bytes of every upload
  MaxRotations  \* bound on rotations begun

None  == "none"     \* no file was named
Bad   == "bad"      \* a file that cannot be read, or holds no key
Noise == <<"noise">>

ASSUME AtRestAssumption ==
  /\ Marked \subseteq Keys /\ \A k \in Keys : IV(k) \in Counter
  /\ Size \in Nat \ {0} /\ Size <= BlockSize * Octet^Octets
  /\ {None, Bad} \cap MasterKeys = {} /\ MaxRotations \in Nat

VARIABLES
  row,      \* per upload, the stored at-rest key, or NoRow
  issued,   \* at-rest keys ever generated
  blob,     \* per upload, the bytes of its blob
  reader,   \* an open decrypting reader
  got,      \* what the last Read returned, and from where
  conf,     \* the key the instance is configured with
  server,   \* the key the running instance was started with, or Stopped
  rot,      \* the rotation command
  rotations,
  unreported, \* a rotation took effect and died before it said so
  strayed   \* an upload was created that the other rows' key cannot open

vars == <<row, issued, blob, reader, got, conf, server, rot, rotations, unreported, strayed>>

NoRow   == [by |-> <<None>>, key |-> None]
Stopped == "stopped"
Idle    == [pc |-> "idle", old |-> None, new |-> None, todo |-> {}, table |-> [u \in Uploads |-> NoRow]]
Closed  == [of |-> None, key |-> None, stream |-> [counter |-> <<>>, used |-> 0],
            skip |-> 0, offset |-> 0]
Nothing == [of |-> None, at |-> 0, bytes |-> <<>>]

(* A stored key and the master keys it is wrapped under: none, when it is  *)
(* raw, or one.  A second layer makes it longer than any stored key is.    *)
Raw(k)        == [by |-> <<>>, key |-> k]
Wrap(m, stored) == [stored EXCEPT !.by = Append(@, m)]

Rows == {u \in Uploads : row[u] # NoRow}

Init ==
  /\ row = [u \in Uploads |-> NoRow] /\ issued = {}
  /\ blob = [u \in Uploads |-> <<>>]
  /\ reader = Closed /\ got = Nothing
  /\ conf \in MasterKeys \cup {None} /\ server = Stopped
  /\ rot = Idle /\ rotations = 0 /\ unreported = FALSE /\ strayed = FALSE

Failed == [ok |-> FALSE, key |-> None]
Got(k) == [ok |-> TRUE, key |-> k]

(* Variant: the version marker is looked at before the length.             *)
unwrapMarkerFirst(m, stored) ==
  IF \/ stored.by = <<>> /\ stored.key \notin Marked
     \/ stored.by = <<m>>
  THEN Got(stored.key) ELSE Failed

(* unwrap: the length tells a raw key, which passes through; anything else *)
(* must have the length of a wrapped one and open under the master key.    *)
unwrap(m, stored) ==
  IF stored.by \in {<<>>, <<m>>} THEN Got(stored.key) ELSE Failed

(* What a store started with m returns for a row, and whether the shredder *)
(* takes it: without a master key a wrapped key arrives as it is stored    *)
(* and has the wrong length.                                               *)
opened(m, stored) ==
  IF m # None THEN unwrap(m, stored)
  ELSE IF stored.by = <<>> THEN Got(stored.key) ELSE Failed

(* wrapping.Create stores a wrapped copy, the plain store the key itself.  *)
Stored(m, k) == IF m = None THEN Raw(k) ELSE Wrap(m, Raw(k))

OpensAll(m, table) == \A u \in Uploads : table[u] # NoRow => opened(m, table[u]).ok

(* Variant: a rotation without an old key wraps whatever it finds.         *)
rewrapBlindly(old, new, stored) ==
  IF old # None /\ ~unwrap(old, stored).ok THEN NoRow
  ELSE LET plain == IF old = None THEN stored ELSE Raw(stored.key) IN
       IF new = None THEN plain ELSE Wrap(new, plain)

(* The transformation a rotation applies to one stored key, NoRow standing *)
(* for its error.  With no old key, only raw keys are taken.               *)
rewrap(old, new, stored) ==
  IF \/ old # None /\ ~unwrap(old, stored).ok
     \/ old = None /\ stored.by # <<>>
  THEN NoRow
  ELSE IF new = None THEN Raw(stored.key) ELSE Wrap(new, Raw(stored.key))

-----------------------------------------------------------------------------
(* The instance.                                                           *)

(* run: the configured key wraps the store.  Nothing tries it on a row.    *)
StartServer ==
  /\ server = Stopped /\ rot.pc = "idle"
  /\ server' = conf
  /\ UNCHANGED <<row, issued, blob, reader, got, conf, rot, rotations, unreported, strayed>>

StopServer ==
  /\ server # Stopped
  /\ server' = Stopped /\ reader' = Closed
  /\ UNCHANGED <<row, issued, blob, got, conf, rot, rotations, unreported, strayed>>

(* A fresh key, never one handed out before.                               *)
NewAtRestKey == Keys \ issued

(* NewUpload: a key is generated and the row is stored.                    *)
Create(u) ==
  /\ server # Stopped /\ row[u] = NoRow
  /\ \E k \in NewAtRestKey :
       /\ issued' = issued \cup {k}
       /\ row' = [row EXCEPT ![u] = Stored(server, k)]
  /\ strayed' = (strayed \/ ~OpensAll(server, row))
  /\ UNCHANGED <<blob, reader, got, conf, server, rot, rotations, unreported>>

(* A chunk at the length stored so far, or the part of one that arrived.   *)
(* The stream is positioned at the block of the offset and the bytes of it *)
(* before the offset are discarded.                                        *)
WriteChunk(u, n) ==
  LET key   == opened(server, row[u])
      start == Len(blob[u])
      ctr   == Advance(streamAt(IV(key.key), start), blockOffset(start).skip).stream
      units == Advance(ctr, n).units
  IN /\ server # Stopped /\ row[u] # NoRow /\ key.ok /\ start + n <= Size
     /\ blob' = [blob EXCEPT ![u] =
          @ \o [i \in 1 .. n |-> [plain |-> <<u, start + i>>, unit |-> <<key.key, units[i]>>]]]
     /\ UNCHANGED <<row, issued, reader, got, conf, server, rot, rotations, unreported, strayed>>

(* reseek: the key stream is rebuilt for an offset.                        *)
reseek(r, offset) ==
  [r EXCEPT !.stream = streamAt(IV(r.key), offset), !.skip = blockOffset(offset).skip,
            !.offset = offset]

(* A finished upload is opened for reading; a key that does not open is    *)
(* the reader's error.                                                     *)
Open(u) ==
  LET key == opened(server, row[u]) IN
  /\ server # Stopped /\ reader = Closed
  /\ row[u] # NoRow /\ Len(blob[u]) = Size /\ key.ok
  /\ reader' = reseek([Closed EXCEPT !.of = u, !.key = key.key], 0)
  /\ UNCHANGED <<row, issued, blob, got, conf, server, rot, rotations, unreported, strayed>>

(* Variant: a seek keeps the running key stream.                           *)
SeekKeeping(p) ==
  /\ reader # Closed
  /\ reader' = [reader EXCEPT !.offset = p, !.skip = blockOffset(p).skip]
  /\ UNCHANGED <<row, issued, blob, got, conf, server, rot, rotations, unreported, strayed>>

(* Seek moves the blob's position and rebuilds the key stream there.       *)
Seek(p) ==
  /\ reader # Closed
  /\ reader' = reseek(reader, p)
  /\ UNCHANGED <<row, issued, blob, got, conf, server, rot, rotations, unreported, strayed>>

(* Read discards what is left to skip, then takes up to n bytes.           *)
Read(n) ==
  LET at    == reader.offset
      count == IF n < Size - at THEN n ELSE Size - at
      ctr   == Advance(reader.stream, reader.skip).stream
      next  == Advance(ctr, count)
  IN /\ reader # Closed
     /\ got' = [of |-> reader.of, at |-> at,
                bytes |-> [i \in 1 .. count |->
                  LET b == blob[reader.of][at + i] IN
                  IF b.unit = <<reader.key, next.units[i]>> THEN b.plain ELSE Noise]]
     /\ reader' = [reader EXCEPT !.stream = next.stream, !.skip = 0, !.offset = at + count]
     /\ UNCHANGED <<row, issued, blob, conf, server, rot, rotations, unreported, strayed>>

Close ==
  /\ reader # Closed /\ reader' = Closed /\ got' = Nothing
  /\ UNCHANGED <<row, issued, blob, conf, server, rot, rotations, unreported, strayed>>

-----------------------------------------------------------------------------
(* The operator and the rotation command.                                  *)

(* Wrapping may be turned on by configuring a key and no more: rows stored *)
(* before stay raw and pass through.                                       *)
TurnOn(m) ==
  /\ server = Stopped /\ rot.pc = "idle" /\ conf = None
  /\ conf' = m
  /\ UNCHANGED <<row, issued, blob, reader, got, server, rot, rotations, unreported, strayed>>

(* A rotation reads both files, refuses two absent ones, and reads every   *)
(* stored key in its transaction.  The files may be any the operator has.  *)
BeginRotation(old, new) ==
  /\ server = Stopped /\ rot.pc = "idle" /\ rotations < MaxRotations
  /\ rotations' = rotations + 1
  /\ rot' = IF Bad \in {old, new} \/ {old, new} = {None} THEN rot
            ELSE [pc |-> "rows", old |-> old, new |-> new, todo |-> Rows, table |-> row]
  /\ UNCHANGED <<row, issued, blob, reader, got, conf, server, unreported, strayed>>

(* Variant: each row is written outside a transaction.                     *)
RewriteRowOutside(u) ==
  LET next == rewrap(rot.old, rot.new, rot.table[u]) IN
  /\ rot.pc = "rows" /\ u \in rot.todo
  /\ IF next # NoRow
     THEN /\ rot' = [rot EXCEPT !.todo = @ \ {u}, !.table[u] = next]
          /\ row' = [row EXCEPT ![u] = next]
     ELSE rot' = Idle /\ UNCHANGED row
  /\ UNCHANGED <<issued, blob, reader, got, conf, server, rotations, unreported, strayed>>

(* One row is rewritten within the transaction.  A key that does not open  *)
(* ends the command and rolls everything back.                             *)
RewriteRow(u) ==
  LET next == rewrap(rot.old, rot.new, rot.table[u]) IN
  /\ rot.pc = "rows" /\ u \in rot.todo
  /\ rot' = IF next # NoRow THEN [rot EXCEPT !.todo = @ \ {u}, !.table[u] = next] ELSE Idle
  /\ UNCHANGED <<row, issued, blob, reader, got, conf, server, rotations, unreported, strayed>>

CommitRotation ==
  /\ rot.pc = "rows" /\ rot.todo = {}
  /\ row' = rot.table /\ rot' = [rot EXCEPT !.pc = "report"]
  /\ UNCHANGED <<issued, blob, reader, got, conf, server, rotations, unreported, strayed>>

(* The command says which key to configure and the operator does.          *)
Adopt ==
  /\ rot.pc = "report"
  /\ conf' = rot.new /\ rot' = Idle
  /\ UNCHANGED <<row, issued, blob, reader, got, server, rotations, unreported, strayed>>

(* The command dies: before its commit nothing changed, after it nothing   *)
(* was printed.                                                            *)
RotationDies ==
  /\ rot.pc # "idle" /\ rot' = Idle
  /\ unreported' = (unreported \/ rot.pc = "report")
  /\ UNCHANGED <<row, issued, blob, reader, got, conf, server, rotations, strayed>>

Files == MasterKeys \cup {None, Bad}

Next ==
  \/ StartServer \/ StopServer
  \/ \E u \in Uploads : Create(u) \/ Open(u) \/ RewriteRow(u) \/ \E n \in 1 .. Size : WriteChunk(u, n)
  \/ \E p \in 0 .. Size : Seek(p)
  \/ \E n \in 1 .. Size : Read(n)
  \/ Close
  \/ \E m \in MasterKeys : TurnOn(m)
  \/ \E old, new \in Files : BeginRotation(old, new)
  \/ CommitRotation \/ Adopt \/ RotationDies

Spec == Init /\ [][Next]_vars

-----------------------------------------------------------------------------
StoredKeys == {NoRow} \cup {Raw(k) : k \in Keys}
              \cup {Wrap(m, Raw(k)) : m \in MasterKeys, k \in Keys}

(* Types.                                                                  *)
TypeOK ==
  /\ row \in [Uploads -> StoredKeys] /\ issued \subseteq Keys
  /\ \A u \in Uploads : Len(blob[u]) <= Size
  /\ reader.of \in Uploads \cup {None} /\ reader.offset \in 0 .. Size /\ reader.skip \in 0 .. BlockSize - 1
  /\ got.of \in Uploads \cup {None}
  /\ conf \in MasterKeys \cup {None} /\ server \in MasterKeys \cup {None, Stopped}
  /\ rot.pc \in {"idle", "rows", "report"} /\ rot.todo \subseteq Uploads
  /\ rotations \in 0 .. MaxRotations /\ unreported \in BOOLEAN /\ strayed \in BOOLEAN

(* Every byte a reader delivers is the byte that was written at that       *)
(* place, however the blob was cut into chunks, wherever the reader        *)
(* seeked, and whatever happened to the stored key in between: the         *)
(* writer's and the reader's key streams (shred.go stream) meet at every   *)
(* offset, carries and the wrap of the counter included.                   *)
ReadsWhatWasWritten ==
  \A i \in DOMAIN got.bytes : got.bytes[i] = <<got.of, got.at + i>>

(* No unit of key stream covers two bytes (NewAtRestKey: "a fixed starting *)
(* counter cannot repeat a keystream").                                    *)
KeyStreamOnce ==
  \A u, v \in Uploads : \A i \in DOMAIN blob[u], j \in DOMAIN blob[v] :
    blob[u][i].unit = blob[v][j].unit => u = v /\ i = j

(* The table stays readable through every rotation, completed, refused or  *)
(* killed, and when wrapping is turned on by configuring a key over raw    *)
(* rows (masterkey.go unwrap).  Between rotations the configured key opens *)
(* every row, unless one took effect and died before it said so.  Even     *)
(* then one key still opens every row (rekey.go: a half-rotated database   *)
(* is one "no single configuration could read"); what ends that is an      *)
(* upload created by an instance started with another key than the         *)
(* table's, which nothing at start-up notices.                             *)
TableReadable ==
  /\ unreported \/ rot.pc # "idle" \/ OpensAll(conf, row)
  /\ strayed \/ \E m \in MasterKeys \cup {None} : OpensAll(m, row)
-----------------------------------------------------------------------------
(* The inductive invariant behind TypeOK and TableReadable.                *)

KeyFiles == MasterKeys \cup {None}

(* A sequence of whatever it holds.                                        *)
IsSeq(s) == s \in Seq({s[i] : i \in DOMAIN s})

TypeInv ==
  /\ TypeOK /\ blob \in [Uploads -> {blob[u] : u \in Uploads}] /\ \A u \in Uploads : IsSeq(blob[u])
  /\ reader \in [of : Uploads \cup {None}, key : {reader.key}, stream : {reader.stream},
                 skip : 0 .. BlockSize - 1, offset : 0 .. Size]
  /\ rot \in [pc : {"idle", "rows", "report"}, old : KeyFiles, new : KeyFiles,
              todo : SUBSET Uploads, table : [Uploads -> StoredKeys]]

(* A rotation has the instance stopped; what it has rewritten opens under  *)
(* its new key, and the rest is still as it is in the table.               *)
RotationInv ==
  /\ server # Stopped => server = conf /\ rot.pc = "idle"
  /\ rot.pc = "rows" =>
       \A u \in Uploads : rot.table[u] # NoRow /\ u \notin rot.todo => opened(rot.new, rot.table[u]).ok
  /\ rot.pc = "report" => OpensAll(rot.new, row)

(* Nothing but a commit takes a row from under the configured key.         *)
TableInv ==
  /\ unreported \/ rot.pc = "report" \/ OpensAll(conf, row)
  /\ strayed \/ \E m \in KeyFiles : OpensAll(m, row)

Inv == TypeInv /\ RotationInv /\ TableInv

(* Behind ReadsWhatWasWritten and KeyStreamOnce.  Keys are issued once,    *)
(* and a rotation changes how they are stored and not what they are.       *)
KeyInv ==
  /\ \A u \in Uploads : row[u] # NoRow => row[u].key \in issued
  /\ \A u, v \in Uploads : row[u] # NoRow /\ row[v] # NoRow /\ row[u].key = row[v].key => u = v
  /\ rot.pc = "rows" => \A u \in Uploads :
       (rot.table[u] = NoRow <=> row[u] = NoRow) /\ rot.table[u].key = row[u].key

(* A byte is hidden by the unit of its upload's key stream at its place.   *)
Hidden(u, i, b) ==
  /\ row[u] # NoRow /\ b.plain = <<u, i>>
  /\ \E s \in [counter : Counter, used : 0 .. BlockSize - 1] :
       StandsAt(IV(row[u].key), s, i - 1) /\ b.unit = <<row[u].key, <<s.counter, s.used>>>>

BlobInv == \A u \in Uploads : \A i \in 1 .. Len(blob[u]) : Hidden(u, i, blob[u][i])

(* What a reader has yet to skip ends at its offset.                       *)
ReaderInv == reader # Closed =>
  /\ reader.of \in Uploads /\ row[reader.of] # NoRow /\ Len(blob[reader.of]) = Size
  /\ reader.key = row[reader.of].key /\ reader.skip <= reader.offset
  /\ StandsAt(IV(reader.key), reader.stream, reader.offset - reader.skip)

StreamInv == Inv /\ KeyInv /\ BlobInv /\ ReaderInv /\ ReadsWhatWasWritten
=============================================================================
