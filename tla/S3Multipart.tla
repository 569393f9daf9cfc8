---------------------------- MODULE S3Multipart ----------------------------
(***************************************************************************)
(* The object-store backend (internal/blob/s3multipart.go, s3.go) for one  *)
(* upload.  An object cannot be appended to, so chunks accumulate as a     *)
(* multipart upload whose parts have PartSize bytes, and what is left over *)
(* waits in a tail object.  Nothing is remembered between requests: each   *)
(* one asks the object store what is there.                                *)
(*                                                                         *)
(* Every call on the object store is a step of its own.  A byte is known   *)
(* by its position in the file, so a stored sequence that is not a prefix  *)
(* of the file shows.  The client sends one request at a time; the reaper  *)
(* (or a revocation, once the upload is complete) deletes meanwhile.       *)
(***************************************************************************)
EXTENDS Integers, Sequences, FiniteSets, FiniteSetsExt

CONSTANTS
  PartSize,    \* bytes of a part that is not the last
  Sizes,       \* sizes of the file
  MaxUploads,  \* bound on the multipart uploads started
  NoUpload, NoObject, Unknown,
  MaxFaults,   \* bound on calls that fail
  MaxCrashes   \* bound on process crashes

ASSUME MultipartAssumption ==
  /\ PartSize \in Nat \ {0} /\ Sizes \subseteq Nat
  /\ MaxUploads \in Nat
  /\ Unknown \notin Nat /\ NoUpload \notin [n : Nat, data : Seq(Nat)]
  /\ NoObject \notin Seq(Nat)
  /\ MaxFaults \in Nat /\ MaxCrashes \in Nat

VARIABLES
  size,    \* of the file
  row,     \* the upload's row: "pending", "complete", "gone"
  started, \* how many multipart uploads were started; they are numbered
  mp,      \* those in progress: how many parts, and their bytes
  tail,    \* the tail object; one that is absent has no bytes
  object,  \* the blob under its own key
  req,     \* the request of the client
  known,   \* the offset the client goes on from
  acked,   \* history: the bytes of the chunks that were answered with success
  del,     \* the deletion
  alone,   \* history: no request was being handled when the row was deleted
  faults, crashes

vars == <<size, row, started, mp, tail, object, req, known, acked, del, alone, faults, crashes>>

blobs   == <<mp, tail, object>>
history == <<size, started, acked, alone, crashes>>

Uploads == 1 .. MaxUploads

File(n) == [p \in 1 .. n |-> p]

(* The k bytes that follow the first a of the file.                        *)
Chunk(a, k) == (a + 1) .. (a + k)

Idle  == [pc |-> "idle", op |-> "none", off |-> 0, up |-> 0, n |-> 0, stored |-> 0,
          tail |-> 0, src |-> <<>>, carried |-> 0, read |-> 0, rep |-> 0, ok |-> TRUE]
NoDel == [pc |-> "idle", left |-> {}]

InProgress == {u \in Uploads : mp[u] # NoUpload}

(* uploadIDFor: the most recent upload of the key, or none.                *)
Newest == IF InProgress = {} THEN 0 ELSE Max(InProgress)

(* An empty file is created by a request that carries an empty body.       *)
Init ==
  /\ size \in Sizes
  /\ row = "pending" /\ started = 0 /\ tail = <<>> /\ object = NoObject
  /\ mp = [u \in Uploads |-> NoUpload]
  /\ req = IF size = 0 THEN [Idle EXCEPT !.pc = "list", !.op = "write"] ELSE Idle
  /\ known = 0 /\ acked = {}
  /\ del = NoDel /\ alone = FALSE
  /\ faults = 0 /\ crashes = 0

(* A call on the object store or the database: it takes effect; or the     *)
(* caller is told that it failed, although it may have.                    *)
Call(effect, state, ok, failed) ==
  \/ effect /\ ok /\ UNCHANGED faults
  \/ /\ faults < MaxFaults /\ faults' = faults + 1
     /\ effect \/ UNCHANGED state
     /\ failed

-----------------------------------------------------------------------------
(* Requests.                                                               *)

Step(pc) == req' = [req EXCEPT !.pc = pc] /\ UNCHANGED known

(* The client was not told an offset, and has to ask for it.               *)
Failed == req' = Idle /\ known' = Unknown

(* HEAD.                                                                   *)
Ask ==
  /\ req.pc = "idle" /\ row = "pending"
  /\ req' = [Idle EXCEPT !.pc = "list", !.op = "length"]
  /\ UNCHANGED <<history, row, blobs, known, del, faults>>

(* PATCH with k bytes from the offset the client knows; a connection that  *)
(* is cut off delivers fewer.  GetUpload asks for the Length first, with   *)
(* the calls that writeChunk makes again below: those stand for both.      *)
Send(k) ==
  /\ req.pc = "idle" /\ row = "pending"
  /\ known # Unknown /\ known < size /\ known + k <= size
  /\ req' = [Idle EXCEPT !.pc = "list", !.op = "write", !.off = known,
                         !.src = [i \in 1 .. k |-> known + i]]
  /\ UNCHANGED <<history, row, blobs, known, del, faults>>

(* What the caller of state does with it: Length reports it, writeChunk    *)
(* compares the offset, finish looks for something to complete.            *)
Resolve(up, n, stored, t) ==
  \/ /\ req.op = "length"
     /\ req' = Idle /\ known' = stored + t
  \/ /\ req.op = "write" /\ req.off # stored + t
     /\ Failed
  \/ /\ req.op = "write" /\ req.off = stored + t
     /\ req' = [req EXCEPT !.pc = IF up = 0 THEN "create" ELSE "head",
                           !.up = up, !.n = n, !.stored = stored, !.tail = t]
     /\ UNCHANGED known
  \/ /\ req.op = "finish" /\ up = 0
     /\ Failed
  \/ /\ req.op = "finish" /\ up # 0
     /\ req' = [req EXCEPT !.pc = IF stored + t = 0 THEN "abort"
                                  ELSE IF t > 0 THEN "last" ELSE "complete",
                           !.up = up, !.n = n, !.stored = stored, !.tail = t]
     /\ UNCHANGED known

(* state: the upload, its parts, the size of the tail - which is not asked *)
(* for when there is no upload.                                            *)
ListUploads ==
  /\ req.pc = "list"
  /\ IF Newest = 0 THEN Resolve(0, 0, 0, 0)
     ELSE /\ req' = [req EXCEPT !.pc = "parts", !.up = Newest]
          /\ UNCHANGED known
  /\ UNCHANGED <<history, row, blobs, del, faults>>

ListParts ==
  /\ req.pc = "parts"
  /\ IF mp[req.up] = NoUpload THEN Failed
     ELSE /\ req' = [req EXCEPT !.pc = "stat", !.n = mp[req.up].n,
                                !.stored = Len(mp[req.up].data)]
          /\ UNCHANGED known
  /\ UNCHANGED <<history, row, blobs, del, faults>>

StatTail ==
  /\ req.pc = "stat"
  /\ Resolve(req.up, req.n, req.stored, Len(tail))
  /\ UNCHANGED <<history, row, blobs, del, faults>>

(* writeChunk: an upload is started when there is none ...                 *)
NewMultipart ==
  /\ req.pc = "create"
  /\ started < MaxUploads
  /\ LET u == started + 1 IN
     Call(mp' = [mp EXCEPT ![u] = [n |-> 0, data |-> <<>>]] /\ started' = u, <<mp, started>>,
          req' = [req EXCEPT !.pc = "head", !.up = u] /\ UNCHANGED known, Failed)
  /\ UNCHANGED <<size, acked, alone, crashes, row, tail, object, del>>

(* Variant: the tail is taken out of the store when it is read.            *)
ReadTailTaken ==
  /\ req.pc = "head"
  /\ LET h == IF req.tail > 0 THEN tail ELSE <<>> IN
     req' = [req EXCEPT !.pc = "copy", !.src = h \o req.src, !.carried = Len(h)]
  /\ tail' = <<>>
  /\ UNCHANGED <<history, row, mp, object, known, del, faults>>

(* ... the tail is put in front of what arrives ...                        *)
ReadTail ==
  /\ req.pc = "head"
  /\ LET h == IF req.tail > 0 THEN tail ELSE <<>> IN
     req' = [req EXCEPT !.pc = "copy", !.src = h \o req.src, !.carried = Len(h)]
  /\ UNCHANGED <<history, row, blobs, known, del, faults>>

(* Variant: the tail is counted again.                                     *)
ReturnUncarried(read, ok) ==
  /\ req' = [req EXCEPT !.pc = "reply", !.src = <<>>, !.read = read, !.ok = ok, !.rep = read]
  /\ UNCHANGED known

(* writeChunk returns: a count, and whether it failed.                     *)
Return(read, ok) ==
  /\ req' = [req EXCEPT !.pc = "reply", !.src = <<>>, !.read = read, !.ok = ok,
                        !.rep = Max({0, read - req.carried})]
  /\ UNCHANGED known

(* ... whole parts are uploaded; what was read counts even if that failed  *)
PutPart ==
  /\ req.pc = "copy" /\ Len(req.src) >= PartSize
  /\ LET read == req.read + PartSize
         part == SubSeq(req.src, 1, PartSize)
     IN \/ /\ mp[req.up] # NoUpload
           /\ Call(mp' = [mp EXCEPT ![req.up] = [n |-> req.n + 1, data |-> @.data \o part]], mp,
                   /\ req' = [req EXCEPT !.n = req.n + 1, !.read = read,
                                         !.src = SubSeq(req.src, PartSize + 1, Len(req.src))]
                   /\ UNCHANGED known,
                   Return(read, FALSE))
        \/ mp[req.up] = NoUpload /\ Return(read, FALSE) /\ UNCHANGED <<mp, faults>>
  /\ UNCHANGED <<history, row, tail, object, del>>

(* Variant: an empty tail is not worth a call.                             *)
PutTailNonempty ==
  /\ req.pc = "copy" /\ Len(req.src) < PartSize
  /\ Call(tail' = IF req.src = <<>> THEN tail ELSE req.src, tail,
          Return(req.read + Len(req.src), TRUE), Return(req.read + Len(req.src), FALSE))
  /\ UNCHANGED <<history, row, mp, object, del>>

(* Variant: the buffer is stored and not only what was read into it.       *)
PutTailBuffer ==
  /\ req.pc = "copy" /\ Len(req.src) < PartSize
  /\ Call(tail' = [i \in 1 .. PartSize |-> IF i <= Len(req.src) THEN req.src[i] ELSE 0], tail,
          Return(req.read + Len(req.src), TRUE), Return(req.read + Len(req.src), FALSE))
  /\ UNCHANGED <<history, row, mp, object, del>>

(* ... and the rest replaces the tail; no rest removes it.                 *)
PutTail ==
  /\ req.pc = "copy" /\ Len(req.src) < PartSize
  /\ Call(tail' = req.src, tail,
          Return(req.read + Len(req.src), TRUE), Return(req.read + Len(req.src), FALSE))
  /\ UNCHANGED <<history, row, mp, object, del>>

(* The handler answers, and finishes the upload when the count says that   *)
(* all of it is there, error or not.                                       *)
Reply ==
  /\ req.pc = "reply"
  /\ LET at == req.off + req.rep IN
     /\ req' = IF at = size THEN [Idle EXCEPT !.pc = "list", !.op = "finish"] ELSE Idle
     /\ known' = IF req.ok THEN at ELSE Unknown
     /\ acked' = IF req.ok THEN acked \cup Chunk(req.off, req.rep) ELSE acked
  /\ UNCHANGED <<size, started, alone, crashes, row, blobs, del, faults>>

-----------------------------------------------------------------------------
(* finish.                                                                 *)

(* Nothing was sent: the upload is aborted and an empty object stored.     *)
AbortEmpty ==
  /\ req.pc = "abort"
  /\ \/ /\ mp[req.up] # NoUpload
        /\ Call(mp' = [mp EXCEPT ![req.up] = NoUpload], mp, Step("empty"), Failed)
     \/ mp[req.up] = NoUpload /\ Failed /\ UNCHANGED <<mp, faults>>
  /\ UNCHANGED <<history, row, tail, object, del>>

PutEmpty ==
  /\ req.pc = "empty"
  /\ Call(object' = <<>>, object, Step("row"), Failed)
  /\ UNCHANGED <<history, row, mp, tail, del>>

(* The tail is read ...                                                    *)
ReadLast ==
  /\ req.pc = "last"
  /\ req' = [req EXCEPT !.pc = "upload", !.src = tail]
  /\ UNCHANGED <<history, row, blobs, known, del, faults>>

(* ... and becomes the last part.                                          *)
PutLast ==
  /\ req.pc = "upload"
  /\ \/ /\ mp[req.up] # NoUpload
        /\ Call(mp' = [mp EXCEPT ![req.up] = [n |-> req.n + 1, data |-> @.data \o req.src]],
                mp, Step("complete"), Failed)
     \/ mp[req.up] = NoUpload /\ Failed /\ UNCHANGED <<mp, faults>>
  /\ UNCHANGED <<history, row, tail, object, del>>

CompleteMultipart ==
  /\ req.pc = "complete"
  /\ \/ /\ mp[req.up] # NoUpload
        /\ Call(object' = mp[req.up].data /\ mp' = [mp EXCEPT ![req.up] = NoUpload],
                <<object, mp>>, Step("untail"), Failed)
     \/ mp[req.up] = NoUpload /\ Failed /\ UNCHANGED <<object, mp, faults>>
  /\ UNCHANGED <<history, row, tail, del>>

(* Only once the object exists.                                            *)
RemoveTail ==
  /\ req.pc = "untail"
  /\ Call(tail' = <<>>, tail, Step("row"), Failed)
  /\ UNCHANGED <<history, row, mp, object, del>>

(* FinishUpload: the row, if it is still pending.                          *)
CompleteRow ==
  /\ req.pc = "row"
  /\ Call(row' = IF row = "pending" THEN "complete" ELSE row, row,
          req' = Idle /\ UNCHANGED known, Failed)
  /\ UNCHANGED <<history, blobs, del>>

-----------------------------------------------------------------------------
(* S3.Delete, after the row is gone.                                       *)

DelStep(pc) == del' = [del EXCEPT !.pc = pc]
Deleted == del' = [NoDel EXCEPT !.pc = "done"]
DeleteFailed == del' = [NoDel EXCEPT !.pc = "failed"]

DeleteRow ==
  /\ del.pc = "idle" /\ row # "gone"
  /\ row' = "gone" /\ alone' = (req.pc = "idle")
  /\ DelStep("object")
  /\ UNCHANGED <<size, started, acked, crashes, blobs, req, known, faults>>

RemoveObject ==
  /\ del.pc = "object"
  /\ Call(object' = NoObject, object, DelStep("list"), DeleteFailed)
  /\ UNCHANGED <<history, row, mp, tail, req, known>>

(* discardPartial: every upload of the key is aborted, and the tail        *)
(* removed.                                                                *)
ListAborts ==
  /\ del.pc = "list"
  /\ del' = [pc |-> "abort", left |-> InProgress]
  /\ UNCHANGED <<history, row, blobs, req, known, faults>>

AbortOne(u) ==
  /\ del.pc = "abort" /\ u \in del.left
  /\ Call(mp' = [mp EXCEPT ![u] = NoUpload], mp,
          del' = [del EXCEPT !.left = del.left \ {u}], DeleteFailed)
  /\ UNCHANGED <<history, row, tail, object, req, known>>

(* Variant: only a file that was started has a tail.                       *)
DiscardTailUnlessIdle ==
  /\ del.pc = "abort" /\ del.left = {}
  /\ Call(tail' = IF InProgress = {} THEN tail ELSE <<>>, tail, Deleted, DeleteFailed)
  /\ UNCHANGED <<history, row, mp, object, req, known>>

DiscardTail ==
  /\ del.pc = "abort" /\ del.left = {}
  /\ Call(tail' = <<>>, tail, Deleted, DeleteFailed)
  /\ UNCHANGED <<history, row, mp, object, req, known>>

-----------------------------------------------------------------------------
(* The process dies; the client and the object store do not.               *)
Crash ==
  /\ crashes < MaxCrashes /\ crashes' = crashes + 1
  /\ req' = Idle /\ known' = Unknown
  /\ del' = IF del.pc \in {"idle", "done"} THEN del ELSE [NoDel EXCEPT !.pc = "failed"]
  /\ UNCHANGED <<size, started, acked, alone, row, blobs, faults>>

RequestRuns ==
  \/ ListUploads \/ ListParts \/ StatTail \/ NewMultipart \/ ReadTail
  \/ PutPart \/ PutTail \/ Reply
  \/ AbortEmpty \/ PutEmpty \/ ReadLast \/ PutLast \/ CompleteMultipart \/ RemoveTail \/ CompleteRow

DeleteRuns ==
  \/ RemoveObject \/ ListAborts \/ DiscardTail
  \/ \E u \in Uploads : AbortOne(u)

Next ==
  \/ Ask \/ \E k \in 0 .. size : Send(k)
  \/ RequestRuns
  \/ DeleteRow \/ DeleteRuns
  \/ Crash

Spec == Init /\ [][Next]_vars

-----------------------------------------------------------------------------
(* Properties.                                                             *)

StoredData == IF Newest = 0 THEN tail ELSE mp[Newest].data \o tail

(* The bytes of a sequence, in whatever order and however often.           *)
Held(s) == {s[i] : i \in 1 .. Len(s)}

(* Every variable keeps its type, and the tail stays below a part.         *)
TypeOK ==
  /\ size \in Sizes /\ row \in {"pending", "complete", "gone"}
  /\ started \in 0 .. MaxUploads
  /\ mp \in [Uploads -> [n : Nat, data : Seq(1 .. size)] \cup {NoUpload}]
  /\ tail \in Seq(1 .. size) /\ Len(tail) < PartSize
  /\ object \in Seq(1 .. size) \cup {NoObject}
  /\ req.src \in Seq(1 .. size) /\ req.read \in Nat /\ req.rep \in Nat
  /\ known \in Nat \cup {Unknown} /\ acked \subseteq Nat
  /\ del.left \subseteq Uploads

(* Without failures a blob that can be opened is the file that was sent,   *)
(* however it was cut into chunks and wherever a chunk ends: whole parts   *)
(* and the tail agree with each other.                                     *)
UndisturbedWhole ==
  faults + crashes = 0 /\ row # "gone" /\ object # NoObject => object = File(size)

(* A byte of a chunk that was answered with success stays in the store     *)
(* until the object exists, whatever fails and wherever the process dies   *)
(* after that: the tail is replaced only after the parts that contain it.  *)
(* (It may be there twice, and the offset a HEAD reports may count a byte  *)
(* that was never sent: see StoredIsPrefix.)                               *)
AcknowledgedKept == row = "pending" /\ object = NoObject => acked \subseteq Held(StoredData)

(* writeChunk reports what it stored, however often the process died       *)
(* before, if no call of it failed.                                        *)
ReportedUnlessFailed ==
  faults = 0 /\ row = "pending" /\ req.pc = "reply" => req.off + req.rep = Len(StoredData)

(* A deletion that succeeded with no request under way has left nothing    *)
(* in the object store, uploads that were leaked or cut off included.      *)
DeleteClears ==
  del.pc = "done" /\ alone => object = NoObject /\ InProgress = {} /\ tail = <<>>

(* "reported bytes written but stored": what writeChunk reports is stored. *)
ReportedIsStored ==
  row = "pending" /\ req.pc = "reply" => req.off + req.rep = Len(StoredData)

(* "an instance that restarts sees exactly what the first one left": what  *)
(* is stored between two requests is the beginning of the file.            *)
StoredIsPrefix ==
  row = "pending" /\ object = NoObject /\ req.pc = "idle" =>
     StoredData = File(Len(StoredData))

-----------------------------------------------------------------------------
(* The inductive invariant.                                                *)

ReqPC == {"idle", "list", "parts", "stat", "create", "head", "copy", "reply",
          "abort", "empty", "last", "upload", "complete", "untail", "row"}
DelPC == {"idle", "object", "list", "abort", "done", "failed"}

Req == [pc : ReqPC, op : {"none", "length", "write", "finish"}, off : Nat, up : Nat, n : Nat,
        stored : Nat, tail : Nat, src : Seq(1 .. size), carried : Nat, read : Nat, rep : Nat,
        ok : BOOLEAN]

(* The request before it has read anything, and the request that knows its *)
(* multipart upload.                                                       *)
Before  == {"idle", "list", "parts", "stat", "create", "head"}
Located == {"parts", "stat", "head", "copy", "reply", "abort", "last", "upload", "complete"}

TypeInv ==
  /\ TypeOK /\ req \in Req /\ del \in [pc : DelPC, left : SUBSET Uploads]
  /\ faults \in Nat /\ crashes \in Nat
  /\ req.pc \in Located => req.up \in Uploads
  /\ req.pc \in Before => req.read = 0

(* A key never has two multipart uploads, although one may be leaked: one  *)
(* is started only where none was found.                                   *)
OneUpload == \A u, v \in InProgress : u = v

Total(u) == Len(mp[u].data) + Len(tail)

(* Behind AcknowledgedKept.                                                *)
Kept == row = "pending" /\ object = NoObject =>
  /\ InProgress = {} => tail = <<>> /\ acked = {}
  /\ \A u \in InProgress : acked \subseteq Held(mp[u].data) \cup Held(tail)

(* What the request was told of the object store is still so while the row *)
(* is pending: nobody else writes to it.                                   *)
Accurate == row = "pending" =>
  /\ req.pc \in Located => mp[req.up] # NoUpload
  /\ req.pc = "stat" => req.stored = Len(mp[req.up].data)
  /\ req.pc = "create" => req.off = 0 /\ req.stored = 0 /\ req.tail = 0
  /\ req.pc = "head" =>
       /\ req.stored = Len(mp[req.up].data) /\ req.off = req.stored + req.tail
       /\ req.tail \in {0, Len(tail)}
  /\ req.pc = "copy" =>
       /\ Len(mp[req.up].data) = req.stored + req.read
       /\ req.off = req.stored + req.carried
       /\ req.carried <= req.read + Len(req.src)
  /\ req.pc = "reply" =>
       (req.ok => req.off + req.rep = Total(req.up)) /\ (faults = 0 => req.ok)
  /\ req.pc = "abort" => Total(req.up) = 0
  /\ req.pc = "upload" => req.src = tail

(* The tail it read is the one it replaces.                                *)
Replacing == row = "pending" /\ object = NoObject =>
  /\ req.pc = "head" => req.tail = Len(tail)
  /\ req.pc = "copy" => req.carried = Len(tail)
  /\ req.pc # "untail"

(* s is what the file has after its first a bytes.                         *)
Follows(s, a) == \A i \in 1 .. Len(s) : s[i] = a + i

(* The tail and the chunk that follows it are among what was uploaded and  *)
(* what is left to upload, and when the chunk is answered among what is    *)
(* stored.                                                                 *)
Carrying ==
  /\ req.op = "write" /\ req.pc \in Before => Follows(req.src, req.off)
  /\ row = "pending" /\ object = NoObject =>
       /\ req.pc = "copy" =>
            Held(tail) \cup Chunk(req.off, req.read + Len(req.src) - req.carried)
              \subseteq Held(mp[req.up].data) \cup Held(req.src)
       /\ req.pc = "reply" /\ req.ok =>
            Chunk(req.off, req.rep) \subseteq Held(mp[req.up].data) \cup Held(tail)

RequestOK ==
  /\ req.pc = "create" => InProgress = {}
  /\ req.pc \in {"create", "head"} => req.op = "write"
  /\ row = "complete" => req.pc = "idle"
  /\ Accurate /\ Replacing /\ Carrying

(* Behind UndisturbedWhole.                                                *)
Content == faults + crashes = 0 /\ row # "gone" =>
  /\ object = NoObject /\ req.pc # "complete" =>
       \A u \in InProgress :
         /\ Follows(mp[u].data, 0)
         /\ Follows(IF req.pc = "copy" THEN req.src ELSE tail, Len(mp[u].data))
  /\ req.pc \in {"last", "upload"} \/ (req.op = "finish" /\ req.pc \in {"list", "parts", "stat"}) =>
       \A u \in InProgress : Total(u) = size
  /\ req.pc \in {"abort", "empty"} => size = 0
  /\ req.pc = "complete" => Follows(mp[req.up].data, 0) /\ Len(mp[req.up].data) = size
  /\ object # NoObject =>
       object = File(size) /\ (req.pc \in {"untail", "row"} \/ row = "complete")

(* Behind DeleteClears.                                                    *)
Clearing ==
  /\ (del.pc = "idle") = (row # "gone")
  /\ alone => req.pc = "idle"
  /\ alone /\ del.pc \in {"list", "abort", "done"} => object = NoObject
  /\ alone /\ del.pc = "abort" => InProgress \subseteq del.left
  /\ alone /\ del.pc = "done" => InProgress = {} /\ tail = <<>>
  /\ alone => row = "gone"

Inv == TypeInv /\ OneUpload /\ Kept /\ RequestOK /\ Content /\ Clearing
=============================================================================
