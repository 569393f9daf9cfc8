-------------------------- MODULE UploadLifecycle --------------------------
(***************************************************************************)
(* One instance of the server with the filesystem backend and SQLite: the  *)
(* uploads table, the blob files, and the request handlers and the reaper  *)
(* that work on both.  Every statement on the table and every call on the  *)
(* file system is a step of its own, because nothing in the code holds a   *)
(* lock across two of them.                                                *)
(*                                                                         *)
(*   Writers   tus requests (POST, PATCH): TusStore and the file spool     *)
(*   Readers   GET content and the token check: Service.Content            *)
(*   Revokers  DELETE: Service.Revoke                                      *)
(*   Reaper    the sweeping goroutine: Service.Reap                        *)
(*                                                                         *)
(* The body of an upload is counted in blocks, the unit io.Copy writes; a  *)
(* block is known by the request that wrote it.  A file is an inode, and a *)
(* name (the partial, the final) refers to one, so an open descriptor      *)
(* survives a rename and an unlink as it does in the code.                 *)
(*                                                                         *)
(* Identifiers are drawn by the client from sixteen random bytes: no       *)
(* identifier is drawn twice (variable used), so the at-rest key of an     *)
(* upload is known by the upload's identifier.                             *)
(***************************************************************************)
EXTENDS UploadRow, FiniteSets

CONSTANTS
  Ids, Writers, Readers, Revokers, Reaper,
  NoId, NoFile, NoRow, NoBlock,
  Inodes,       \* inode numbers
  Sizes,        \* sizes a client may declare, in blocks
  MaxSize,      \* the largest of them
  TTLs, Maxes,  \* lifetimes and download limits a client may request
  Batch,        \* the reaper's LIMIT
  Overhead,     \* the most that is counted for an answer beside the file's content
  Serial,       \* TRUE: a client sends one write request at a time
  MaxTime,      \* bound on the clock
  MaxServed,    \* bound on the blocks served of one upload before a new GET
  MaxFaults,    \* bound on the failures of the database and of the disk
  MaxCrashes    \* bound on process crashes

ASSUME LifecycleAssumption ==
  /\ Inodes \subseteq Nat /\ NoFile \notin Inodes
  /\ NoId \notin Ids /\ Reaper \notin Revokers
  /\ NoRow \notin Row /\ NoBlock \notin Writers
  /\ MaxSize \in Nat /\ Sizes \subseteq 0 .. MaxSize
  /\ TTLs \subseteq Int /\ Maxes \subseteq Nat \cup {Absent}
  /\ Batch \in Nat \ {0} /\ Overhead \in Nat /\ Serial \in BOOLEAN
  /\ MaxTime \in Nat /\ MaxServed \in Nat
  /\ MaxFaults \in Nat /\ MaxCrashes \in Nat

(* The connections of one instance are limited by its descriptors.         *)
ASSUME ReadersAssumption == IsFiniteSet(Readers)

VARIABLES
  now,      \* the service's clock
  rows,     \* the uploads table
  wal,      \* deleted rows the write-ahead log still holds
  partial,  \* .id.partial
  final,    \* the named blob
  disk,     \* contents of the inodes
  attempts, \* uploads the password limiter keeps a bucket for
  req,      \* tus requests
  del,      \* revocations and the reaper
  dl,       \* downloads
  used,     \* identifiers drawn so far
  revoked,  \* history: uploads whose revocation was answered 204
  faults, crashes

vars == <<now, rows, wal, partial, final, disk, attempts, req, del, dl,
          used, revoked, faults, crashes>>

files == <<partial, final, disk>>
table == <<rows, wal>>
env   == <<now, used, crashes>>

Deleters == Revokers \cup {Reaper}

-----------------------------------------------------------------------------
(* Files.                                                                  *)

Positions == 0 .. MaxSize - 1
Block == Writers \cup {NoBlock}
File  == [len : Nat, blk : [Positions -> Block]]
Empty == [len |-> 0, blk |-> [p \in Positions |-> NoBlock]]

(* An inode nothing refers to: no name and no open descriptor.             *)
Free(i) ==
  /\ \A id \in Ids : partial[id] # i /\ final[id] # i
  /\ \A w \in Writers : req[w].fd # i
  /\ \A d \in Readers : dl[d].fd # i

(* The bytes of a partial upload that are stored; an absent file has none. *)
Stored(id) == IF partial[id] = NoFile THEN 0 ELSE disk[partial[id]].len

-----------------------------------------------------------------------------
(* Processes.                                                              *)

NoReq == [pc |-> "idle", id |-> NoId, off |-> 0, n |-> 0, size |-> 0, fd |-> NoFile]
NoDel == [pc |-> "idle", id |-> NoId, at |-> 0, batch |-> {}, removed |-> FALSE,
          status |-> "none"]
NoDl  == [pc |-> "idle", id |-> NoId, size |-> 0, n |-> 0, fd |-> NoFile]

Exists(id)  == rows[id] # NoRow
Pending(id) == Exists(id) /\ ~Complete(rows[id])
Reachable(id) == Exists(id) /\ Live(rows[id], now)

Writing(w, id) == req[w].pc # "idle" /\ req[w].id = id

Init ==
  /\ now = 1
  /\ rows = [id \in Ids |-> NoRow]
  /\ wal = {}
  /\ partial = [id \in Ids |-> NoFile]
  /\ final = [id \in Ids |-> NoFile]
  /\ disk = [i \in Inodes |-> Empty]
  /\ attempts = {}
  /\ req = [w \in Writers |-> NoReq]
  /\ del = [d \in Deleters |-> NoDel]
  /\ dl = [d \in Readers |-> NoDl]
  /\ used = {} /\ revoked = {}
  /\ faults = 0 /\ crashes = 0

(* A statement or a system call fails; the caller takes its error path.    *)
Fault == faults < MaxFaults /\ faults' = faults + 1

-----------------------------------------------------------------------------
(* The tus handlers.                                                       *)

ReqStep(w, pc) == req' = [req EXCEPT ![w] = [@ EXCEPT !.pc = pc]]
ReqEnd(w)      == req' = [req EXCEPT ![w] = NoReq]

(* POST: the row is stored incomplete.  A body sent along with the request *)
(* is written through the same handle, which has yet to load the key; an   *)
(* empty upload without one is finished at once.                           *)
NewUpload(w, id, size, ttl, max, body) ==
  /\ req[w].pc = "idle" /\ id \notin used
  /\ Accepted(size, ttl, max, now)
  /\ rows' = [rows EXCEPT ![id] = NewRow(size, ttl, max, now)]
  /\ used' = used \cup {id}
  /\ req' = [req EXCEPT ![w] = IF body \/ size = 0
                              THEN [NoReq EXCEPT !.pc = IF body THEN "key" ELSE "finish",
                                                 !.id = id, !.size = size]
                              ELSE NoReq]
  /\ UNCHANGED <<now, wal, files, attempts, del, dl, revoked, faults, crashes>>

(* tusUpload.key: the row must still be pending.                           *)
LoadKey(w) ==
  /\ req[w].pc = "key"
  /\ IF Pending(req[w].id) THEN ReqStep(w, "open") ELSE ReqEnd(w)
  /\ UNCHANGED <<env, table, files, attempts, del, dl, revoked, faults>>

(* PATCH, GetUpload: only a row still being written is found.              *)
GetUpload(w, id, off) ==
  /\ req[w].pc = "idle" /\ Pending(id)
  /\ off \in 0 .. rows[id].size
  /\ req' = [req EXCEPT ![w] = [NoReq EXCEPT !.pc = "length", !.id = id,
                                             !.off = off, !.size = rows[id].size]]
  /\ UNCHANGED <<env, table, files, attempts, del, dl, revoked, faults>>

(* GetUpload's blob length, then PatchFile (tusd): the client's offset     *)
(* must be the stored length, and a body already stored in full is         *)
(* answered without the data store being asked to finish it.               *)
Length(w) ==
  /\ req[w].pc = "length"
  /\ IF req[w].off = Stored(req[w].id) /\ req[w].off < req[w].size
     THEN ReqStep(w, "open") ELSE ReqEnd(w)
  /\ UNCHANGED <<env, table, files, attempts, del, dl, revoked, faults>>

(* spool.writeChunk opens the partial, creating it if it is not there.  It *)
(* cannot when a deletion (RemovePartial) has pruned the shard directory,  *)
(* which any two uploads may share, since MkdirAll made it.                *)
OpenPartial(w) ==
  /\ req[w].pc = "open"
  /\ LET id == req[w].id IN
     \/ /\ partial[id] # NoFile
        /\ req' = [req EXCEPT ![w] = [@ EXCEPT !.pc = "stat", !.fd = partial[id]]]
        /\ UNCHANGED files
     \/ \E i \in Inodes :
          /\ partial[id] = NoFile /\ Free(i)
          /\ \A j \in Inodes : Free(j) => i <= j
          /\ disk' = [disk EXCEPT ![i] = Empty]
          /\ partial' = [partial EXCEPT ![id] = i]
          /\ req' = [req EXCEPT ![w] = [@ EXCEPT !.pc = "stat", !.fd = i]]
          /\ UNCHANGED final
     \/ partial[id] = NoFile /\ ReqEnd(w) /\ UNCHANGED files
  /\ UNCHANGED <<env, table, attempts, del, dl, revoked, faults>>

(* The length of the open file must be the offset, else ErrOffset.         *)
StatPartial(w) ==
  /\ req[w].pc = "stat"
  /\ IF disk[req[w].fd].len = req[w].off THEN ReqStep(w, "copy") ELSE ReqEnd(w)
  /\ UNCHANGED <<env, table, files, attempts, del, dl, revoked, faults>>

(* io.Copy writes the next block through the descriptor.                   *)
CopyBlock(w) ==
  /\ req[w].pc = "copy"
  /\ LET p == req[w].off + req[w].n IN
     /\ p < req[w].size
     /\ disk' = [disk EXCEPT ![req[w].fd] =
                   [len |-> IF @.len > p THEN @.len ELSE p + 1,
                    blk |-> [@.blk EXCEPT ![p] = w]]]
  /\ req' = [req EXCEPT ![w] = [@ EXCEPT !.n = req[w].n + 1]]
  /\ UNCHANGED <<env, table, partial, final, attempts, del, dl, revoked, faults>>

(* The body ends, is cut off, or the write fails: what arrived is kept,    *)
(* and tusd finishes the upload if that is all of it, error or not.        *)
EndChunk(w) ==
  /\ req[w].pc = "copy"
  /\ IF req[w].off + req[w].n = req[w].size THEN ReqStep(w, "finish") ELSE ReqEnd(w)
  /\ UNCHANGED <<env, table, files, attempts, del, dl, revoked, faults>>

(* Variant: a missing partial is taken for one that was renamed already.   *)
FinishBlobUnchecked(w) ==
  /\ req[w].pc = "finish"
  /\ LET id == req[w].id IN
     \/ /\ final' = [final EXCEPT ![id] = IF partial[id] = NoFile THEN @ ELSE partial[id]]
        /\ partial' = [partial EXCEPT ![id] = NoFile]
        /\ ReqStep(w, "complete")
        /\ UNCHANGED <<disk, faults>>
     \/ Fault /\ ReqEnd(w) /\ UNCHANGED files
  /\ UNCHANGED <<env, table, attempts, del, dl, revoked>>

(* FS.Finish: the partial is renamed over the final name.                  *)
FinishBlob(w) ==
  /\ req[w].pc = "finish"
  /\ LET id == req[w].id IN
     \/ /\ partial[id] # NoFile
        /\ final' = [final EXCEPT ![id] = partial[id]]
        /\ partial' = [partial EXCEPT ![id] = NoFile]
        /\ ReqStep(w, "complete")
        /\ UNCHANGED <<disk, faults>>
     \/ partial[id] = NoFile /\ ReqEnd(w) /\ UNCHANGED <<files, faults>>
     \/ Fault /\ ReqEnd(w) /\ UNCHANGED files
  /\ UNCHANGED <<env, table, attempts, del, dl, revoked>>

(* store.Complete touches a row that is still pending and no other; none   *)
(* touched is not an error.                                                *)
CompleteRow(w) ==
  /\ req[w].pc = "complete"
  /\ LET id == req[w].id IN
     \/ /\ rows' = IF Pending(id) THEN [rows EXCEPT ![id].completedAt = now] ELSE rows
        /\ UNCHANGED faults
     \/ Fault /\ UNCHANGED rows
  /\ ReqEnd(w)
  /\ UNCHANGED <<env, wal, files, attempts, del, dl, revoked>>

-----------------------------------------------------------------------------
(* Deletion: revocations and the reaper share Service.Delete.              *)

DelStep(d, pc) == del' = [del EXCEPT ![d] = [@ EXCEPT !.pc = pc]]

(* Service.Revoke with the owner's token: a row that is not live is        *)
(* answered 403.  A wrong token is answered the same and changes nothing.  *)
RevokeGet(d, id) ==
  /\ del[d].pc = "idle"
  /\ del' = [del EXCEPT ![d] =
       IF Reachable(id) THEN [NoDel EXCEPT !.pc = "row", !.id = id]
       ELSE [NoDel EXCEPT !.pc = "reply", !.id = id, !.status = "403"]]
  /\ UNCHANGED <<env, table, files, attempts, req, dl, revoked, faults>>

(* The answer leaves; the handler ends.                                    *)
RevokeReply(d) ==
  /\ del[d].pc = "reply"
  /\ del' = [del EXCEPT ![d] = NoDel]
  /\ UNCHANGED <<env, table, files, attempts, req, dl, revoked, faults>>

DeadIds == {id \in Ids : Exists(id) /\ Dead(rows[id], now, Abandoned(now))}

(* Service.Reap: a batch of dead rows, in the order the database returns   *)
(* them, is remembered while the deletions below run; at is the clock's    *)
(* reading the list was asked for with.                                    *)
ReapList(batch) ==
  /\ del[Reaper].pc = "idle" /\ batch # {} /\ batch \subseteq DeadIds
  /\ Cardinality(batch) = Batch \/ (batch = DeadIds /\ Cardinality(batch) < Batch)
  /\ del' = [del EXCEPT ![Reaper] = [NoDel EXCEPT !.pc = "next", !.at = now, !.batch = batch]]
  /\ UNCHANGED <<env, table, files, attempts, req, dl, revoked, faults>>

ReapNext(id) ==
  /\ del[Reaper].pc = "next" /\ id \in del[Reaper].batch
  /\ del' = [del EXCEPT ![Reaper] = [@ EXCEPT !.pc = "row", !.id = id, !.batch = del[Reaper].batch \ {id}]]
  /\ UNCHANGED <<env, table, files, attempts, req, dl, revoked, faults>>

(* Variant: the log is left to the next revocation.                        *)
ReapEndOnly ==
  /\ del[Reaper].pc = "next" /\ del[Reaper].batch = {}
  /\ del' = [del EXCEPT ![Reaper] = NoDel]
  /\ UNCHANGED <<env, table, files, attempts, req, dl, revoked, faults>>

(* The batch is done; the log is retired only if something was removed.    *)
ReapEnd ==
  /\ del[Reaper].pc = "next" /\ del[Reaper].batch = {}
  /\ del' = [del EXCEPT ![Reaper] = IF @.removed THEN [@ EXCEPT !.pc = "checkpoint"]
                                                 ELSE NoDel]
  /\ UNCHANGED <<env, table, files, attempts, req, dl, revoked, faults>>

(* Variant: the error is logged and swallowed.                             *)
DeleteSwallowed(d) ==
  del' = [del EXCEPT ![d] = IF d = Reaper
                            THEN [@ EXCEPT !.pc = "next", !.id = NoId, !.removed = TRUE]
                            ELSE [@ EXCEPT !.pc = "checkpoint"]]

(* Variant: the error ends the reaper's goroutine.                         *)
DeleteFatal(d) ==
  del' = [del EXCEPT ![d] = [@ EXCEPT !.pc = "reply", !.status = "500"]]

(* Delete returns an error: the reaper goes on with its batch, a           *)
(* revocation is answered 500 and skips the checkpoint.                    *)
DeleteFailed(d) ==
  del' = [del EXCEPT ![d] = IF d = Reaper THEN [@ EXCEPT !.pc = "next", !.id = NoId]
                            ELSE [@ EXCEPT !.pc = "reply", !.status = "500"]]

DeleteDone(d) ==
  del' = [del EXCEPT ![d] = IF d = Reaper
                            THEN [@ EXCEPT !.pc = "next", !.id = NoId, !.removed = TRUE]
                            ELSE [@ EXCEPT !.pc = "checkpoint"]]

(* The row goes first; its pages stay in the write-ahead log.              *)
DeleteRow(d) ==
  /\ del[d].pc = "row"
  /\ LET id == del[d].id IN
     \/ /\ rows' = [rows EXCEPT ![id] = NoRow]
        /\ wal' = IF Exists(id) THEN wal \cup {id} ELSE wal
        /\ DelStep(d, "forget") /\ UNCHANGED faults
     \/ Fault /\ DeleteFailed(d) /\ UNCHANGED table
  /\ UNCHANGED <<env, files, attempts, req, dl, revoked>>

ForgetAttempts(d) ==
  /\ del[d].pc = "forget"
  /\ attempts' = attempts \ {del[d].id}
  /\ DelStep(d, "final")
  /\ UNCHANGED <<env, table, files, req, dl, revoked, faults>>

(* FS.Delete unlinks the final name, then the partial.                     *)
RemoveFinal(d) ==
  /\ del[d].pc = "final"
  /\ \/ /\ final' = [final EXCEPT ![del[d].id] = NoFile]
        /\ DelStep(d, "partial") /\ UNCHANGED faults
     \/ Fault /\ DeleteFailed(d) /\ UNCHANGED final
  /\ UNCHANGED <<env, table, partial, disk, attempts, req, dl, revoked>>

(* The shard directories the upload leaves empty are pruned as well, which *)
(* shows only in OpenPartial.                                              *)
RemovePartial(d) ==
  /\ del[d].pc = "partial"
  /\ \/ /\ partial' = [partial EXCEPT ![del[d].id] = NoFile]
        /\ DeleteDone(d) /\ UNCHANGED faults
     \/ Fault /\ DeleteFailed(d) /\ UNCHANGED partial
  /\ UNCHANGED <<env, table, final, disk, attempts, req, dl, revoked>>

(* wal_checkpoint(TRUNCATE).  A failure is logged and otherwise ignored.   *)
Checkpoint(d) ==
  /\ del[d].pc = "checkpoint"
  /\ \/ wal' = {} /\ UNCHANGED faults
     \/ Fault /\ UNCHANGED wal
  /\ del' = [del EXCEPT ![d] = IF d = Reaper THEN NoDel
                               ELSE [@ EXCEPT !.pc = "reply", !.status = "204"]]
  /\ revoked' = IF d = Reaper THEN revoked ELSE revoked \cup {del[d].id}
  /\ UNCHANGED <<env, rows, files, attempts, req, dl>>

-----------------------------------------------------------------------------
(* Downloads.                                                              *)

DlStep(d, pc) == dl' = [dl EXCEPT ![d] = [@ EXCEPT !.pc = pc]]
DlEnd(d)      == dl' = [dl EXCEPT ![d] = NoDl]

(* Service.authenticated reads the row once and works from that copy.      *)
Authenticate(d, id) ==
  /\ dl[d].pc = "idle" /\ Reachable(id)
  /\ rows[id].bytesServed <= MaxServed
  /\ dl' = [dl EXCEPT ![d] = [NoDl EXCEPT !.pc = "allow", !.id = id, !.size = rows[id].size]]
  /\ UNCHANGED <<env, table, files, attempts, req, del, revoked, faults>>

(* The attempt is charged before the comparison, which makes a bucket if   *)
(* there is none.  It is refused, or the token is wrong, or it is right.   *)
Allow(d) ==
  /\ dl[d].pc = "allow"
  /\ attempts' = attempts \cup {dl[d].id}
  /\ DlStep(d, "forget") \/ DlEnd(d)
  /\ UNCHANGED <<env, table, files, req, del, revoked, faults>>

(* A right token clears the record.  The content handler goes on to open   *)
(* the blob; the authentication endpoint is done.                          *)
ForgetOnSuccess(d) ==
  /\ dl[d].pc = "forget"
  /\ attempts' = attempts \ {dl[d].id}
  /\ DlStep(d, "open") \/ DlEnd(d)
  /\ UNCHANGED <<env, table, files, req, del, revoked, faults>>

(* Variant: a missing blob is not noticed.                                 *)
OpenContentUnchecked(d) ==
  /\ dl[d].pc = "open"
  /\ dl' = [dl EXCEPT ![d] = [@ EXCEPT !.pc = "serve", !.fd = final[dl[d].id]]]
  /\ UNCHANGED <<env, table, files, attempts, req, del, revoked, faults>>

OpenContent(d) ==
  /\ dl[d].pc = "open"
  /\ IF final[dl[d].id] = NoFile THEN DlEnd(d)
     ELSE dl' = [dl EXCEPT ![d] = [@ EXCEPT !.pc = "serve", !.fd = final[dl[d].id]]]
  /\ UNCHANGED <<env, table, files, attempts, req, del, revoked, faults>>

(* What one answer may be counted for.  Ranges that are longer together    *)
(* than the file are answered with the file; several go out as a multipart *)
(* body, whose boundaries and part headers pass through countingWriter     *)
(* like the content, and so does the text of a refused range.  A range may *)
(* be empty, so only the length of a request's header limits the parts.    *)
Response(len) == len + Overhead

(* http.ServeContent: any ranges, any part of them before the client       *)
(* leaves.  n is what countingWriter has seen.                             *)
Serve(d, n) ==
  /\ dl[d].pc = "serve" /\ n <= Response(disk[dl[d].fd].len)
  /\ dl' = [dl EXCEPT ![d] = [@ EXCEPT !.pc = "record", !.n = n]]
  /\ UNCHANGED <<env, table, files, attempts, req, del, revoked, faults>>

(* Accounting is not cancelled with the request.  A row that is gone is    *)
(* not an error, and nothing served is not recorded.                       *)
RecordServed(d) ==
  /\ dl[d].pc = "record"
  /\ LET id == dl[d].id IN
     \/ /\ rows' = IF Exists(id) /\ dl[d].n > 0
                   THEN [rows EXCEPT ![id] = Served(@, dl[d].n)] ELSE rows
        /\ UNCHANGED faults
     \/ Fault /\ UNCHANGED rows
  /\ DlEnd(d)
  /\ UNCHANGED <<env, wal, files, attempts, req, del, revoked>>

-----------------------------------------------------------------------------
Tick ==
  /\ now < MaxTime /\ now' = now + 1
  /\ UNCHANGED <<table, files, attempts, req, del, dl, used, revoked, faults, crashes>>

(* The process dies and is started again: what it held in memory is gone,  *)
(* what the database and the disk hold is not.                             *)
Crash ==
  /\ crashes < MaxCrashes /\ crashes' = crashes + 1
  /\ req' = [w \in Writers |-> NoReq]
  /\ del' = [d \in Deleters |-> NoDel]
  /\ dl' = [d \in Readers |-> NoDl]
  /\ attempts' = {}
  /\ UNCHANGED <<now, table, files, used, revoked, faults>>

WriterRuns(w) ==
  \/ LoadKey(w) \/ Length(w) \/ OpenPartial(w) \/ StatPartial(w)
  \/ CopyBlock(w) \/ EndChunk(w) \/ FinishBlob(w) \/ CompleteRow(w)

DeleterRuns(d) ==
  \/ DeleteRow(d) \/ ForgetAttempts(d) \/ RemoveFinal(d) \/ RemovePartial(d)
  \/ Checkpoint(d)

ReaperRuns ==
  \/ \E batch \in SUBSET Ids : ReapList(batch)
  \/ \E id \in Ids : ReapNext(id)
  \/ ReapEnd
  \/ DeleterRuns(Reaper)

ReaderRuns(d) ==
  \/ Allow(d) \/ ForgetOnSuccess(d) \/ OpenContent(d)
  \/ \E n \in 0 .. Response(MaxSize) : Serve(d, n)
  \/ RecordServed(d)

(* What the code leaves to the client, since tusd is given no Locker: not  *)
(* to send a write request while another for the same upload is running.   *)
SendsAlone(id) == Serial => \A v \in Writers : ~Writing(v, id)

Requests ==
  \/ \E w \in Writers, id \in Ids, size \in Sizes, ttl \in TTLs, max \in Maxes,
        body \in BOOLEAN : NewUpload(w, id, size, ttl, max, body)
  \/ \E w \in Writers, id \in Ids, off \in 0 .. MaxSize :
        SendsAlone(id) /\ GetUpload(w, id, off)
  \/ \E d \in Revokers, id \in Ids : RevokeGet(d, id)
  \/ \E d \in Readers, id \in Ids : Authenticate(d, id)

Next ==
  \/ Requests
  \/ \E w \in Writers : WriterRuns(w)
  \/ \E d \in Revokers : DeleterRuns(d) \/ RevokeReply(d)
  \/ ReaperRuns
  \/ \E d \in Readers : ReaderRuns(d)
  \/ Tick \/ Crash

Spec == Init /\ [][Next]_vars

(* A handler that has begun runs to its end, and the reaper's ticker keeps *)
(* firing.  Nothing obliges a client to send a request.                    *)
Fairness ==
  /\ \A w \in Writers : WF_vars(WriterRuns(w))
  /\ \A d \in Revokers : WF_vars(DeleterRuns(d) \/ RevokeReply(d))
  /\ WF_vars(ReaperRuns)
  /\ \A d \in Readers : WF_vars(ReaderRuns(d))

FairSpec == Spec /\ Fairness

-----------------------------------------------------------------------------
(* Properties.                                                             *)

ReqPC == {"key", "length", "open", "stat", "copy", "finish", "complete"}
DlPC  == {"allow", "forget", "open", "serve", "record"}
DelPC == {"reply", "row", "forget", "final", "partial", "checkpoint"}

Status == {"none", "204", "403", "500"}

Req == [pc : ReqPC, id : Ids, off : Nat, n : Nat, size : Nat, fd : Inodes \cup {NoFile}]
Dl  == [pc : DlPC, id : Ids, size : Nat, n : Nat, fd : Inodes \cup {NoFile}]
Del == [pc : DelPC, id : Ids, at : Nat, batch : SUBSET Ids, removed : BOOLEAN,
        status : Status]
Batching == [pc : {"next", "checkpoint"}, id : {NoId}, at : Nat, batch : SUBSET Ids,
             removed : BOOLEAN, status : Status]

(* Every variable keeps its type.                                          *)
TypeOK ==
  /\ now \in Nat \ {0}
  /\ rows \in [Ids -> Row \cup {NoRow}]
  /\ wal \in SUBSET Ids /\ attempts \in SUBSET Ids
  /\ partial \in [Ids -> Inodes \cup {NoFile}]
  /\ final \in [Ids -> Inodes \cup {NoFile}]
  /\ disk \in [Inodes -> File]
  /\ req \in [Writers -> Req \cup {NoReq}]
  /\ del \in [Deleters -> Del \cup Batching \cup {NoDel}]
  /\ \A d \in Revokers : del[d] \in Del \cup {NoDel}
  /\ dl \in [Readers -> Dl \cup {NoDl}]
  /\ used \in SUBSET Ids /\ revoked \in SUBSET Ids
  /\ faults \in Nat /\ crashes \in Nat

Published(id) == Exists(id) /\ Complete(rows[id])

Whole(i, size) == i \in Inodes /\ disk[i].len = size

(* A row that says it is complete has its whole blob under the final name, *)
(* whatever failed, crashed or was being deleted meanwhile: FinishUpload   *)
(* finishes the blob before the row, Delete removes the row before it.     *)
PublishedWhole == \A id \in Ids : Published(id) => Whole(final[id], rows[id].size)

(* A download that was let in reads the whole upload to its end, even when *)
(* the upload is revoked or reaped under it.                               *)
ReaderSeesWhole ==
  \A d \in Readers : dl[d].pc \in {"serve", "record"} => Whole(dl[d].fd, dl[d].size)

(* A revocation answered 204 has left neither the row nor a file, and      *)
(* nothing that runs afterwards brings one back.                           *)
RevokedGone ==
  \A id \in revoked : ~Exists(id) /\ partial[id] = NoFile /\ final[id] = NoFile

(* Listed as abandoned, and completed between the list and its turn: the   *)
(* one upload the reaper removes although it is not due (see               *)
(* ListedUnreachable).                                                     *)
CompletedSince(id, at) ==
  rows[id].createdAt <= Abandoned(at) /\ rows[id].completedAt >= at

(* A row disappears because its owner revoked it, or because it is due -   *)
(* expired, exhausted, or still unfinished after the time an upload may    *)
(* take - although the reaper decides from a list that is stale when it    *)
(* deletes.  Nothing else that happens to a listed upload can save it from *)
(* being due; only completing it after it was listed can, and the upload   *)
(* is removed all the same.                                                *)
RemovedForCause ==
  [][\A id \in Ids : Exists(id) /\ ~Exists(id)'
        => \/ id \in DeadIds
           \/ /\ del[Reaper].pc = "row" /\ del[Reaper].id = id
              /\ CompletedSince(id, del[Reaper].at)
           \/ \E d \in Revokers : del[d].pc = "row" /\ del[d].id = id]_vars

(* Counting after the transfer lets transfers overlap, but only those that *)
(* were let in before the allowance ran out: each reader overshoots by at  *)
(* most one answer, whatever ranges it asks for.                           *)
OvershootBounded ==
  \A id \in Ids : Exists(id) /\ rows[id].maxDownloads > 0 /\ rows[id].size > 0 =>
     rows[id].bytesServed < rows[id].maxDownloads * rows[id].size
                            + Cardinality(Readers) * Response(rows[id].size)

(* Every row that is due is removed, or its client completes it after all; *)
(* a pass that takes no more than a batch, a deletion that fails and a     *)
(* crash in the middle of a pass only put it off.                          *)
DeadRemoved == \A id \in Ids :
  (id \in DeadIds) ~> (~Exists(id) \/ (Published(id) /\ id \notin DeadIds))

(* The at-rest key of a deleted upload is in the write-ahead log no longer *)
(* than deletions are under way: whoever took the row, somebody who is not *)
(* done has the checkpoint before him.  Unless something fails, that is,   *)
(* since nothing tries again.                                              *)
LogRetired ==
  faults = 0 /\ crashes = 0 /\ (\A d \in Deleters : del[d].pc \in {"idle", "reply"}) => wal = {}

(* What the documentation promises and the code does not keep.             *)

(* What the reaper has listed and not yet got to.                          *)
Listed == del[Reaper].batch \cup (IF del[Reaper].pc = "row" THEN {del[Reaper].id} ELSE {})

(* Nobody works on the upload.                                             *)
Quiet(id) ==
  /\ \A w \in Writers : ~Writing(w, id)
  /\ \A d \in Deleters : del[d].pc \in {"idle", "reply"} \/ del[d].id # id

(* "A completed upload cannot be written to" (docs/design.md): the content *)
(* of an upload, which its ETag vouches for, never changes once it is      *)
(* complete.  The row is asked when a PATCH begins; by the time it writes, *)
(* another may have completed the upload.                                  *)
ContentStable ==
  [][\A id \in Ids : Published(id) /\ Published(id)'
        => final'[id] = final[id] /\ disk'[final[id]] = disk[final[id]]]_vars

(* "an upload the reaper has not reached yet is already unreachable"       *)
(* (Service.Reap): what is listed for deletion cannot be downloaded.       *)
ListedUnreachable == \A id \in Listed : ~Reachable(id)

(* "A crash between the two therefore leaves an orphan that discloses      *)
(* nothing": the key of an orphan is not recoverable from the log.         *)
OrphanDisclosesNothing ==
  \A id \in Ids : ~Exists(id) /\ Quiet(id) /\ final[id] # NoFile => id \notin wal

(* "an upload that is already gone answers the same as one this request    *)
(* removed".                                                               *)
RevokeIdempotent ==
  [][\A d \in Revokers : del[d].pc = "idle" /\ del'[d].status = "403"
        => del'[d].id \notin revoked]_vars

-----------------------------------------------------------------------------
(* The inductive invariant behind PublishedWhole, ReaderSeesWhole and      *)
(* RevokedGone when write requests are serial.                             *)

(* No write request can reach the upload any more.                         *)
Closed(id) ==
  /\ id \in used
  /\ Exists(id) => Complete(rows[id])
  /\ \A w \in Writers : ~Writing(w, id)

(* An identifier not yet drawn names nothing.                              *)
FreshIds == \A id \in Ids \ used :
  ~Exists(id) /\ partial[id] = NoFile /\ final[id] = NoFile

(* A file has one name at most, a descriptor of a writer is its own and    *)
(* belongs to its upload, and a reader's file has no writer.               *)
InodesApart ==
  /\ \A x, y \in Ids : partial[x] # NoFile =>
        partial[x] # final[y] /\ (partial[x] = partial[y] => x = y)
  /\ \A x, y \in Ids : final[x] # NoFile /\ final[x] = final[y] => x = y
  /\ \A w \in Writers, x \in Ids : req[w].fd # NoFile =>
        (req[w].fd = partial[x] \/ req[w].fd = final[x] => x = req[w].id)
  /\ \A v, w \in Writers : req[v].fd # NoFile /\ req[v].fd = req[w].fd => v = w
  /\ \A d \in Readers, w \in Writers : dl[d].fd # NoFile => dl[d].fd # req[w].fd
  /\ \A d \in Readers, x \in Ids : dl[d].fd # NoFile => dl[d].fd # partial[x]

OneWriter == \A v, w \in Writers :
  req[v].pc # "idle" /\ req[w].pc # "idle" /\ req[v].id = req[w].id => v = w

(* What a write request knows at each of its steps.  As long as the row    *)
(* exists nobody takes the files away from under it.                       *)
WriterOK(w) == LET r == req[w] IN
  /\ r.pc \in {"idle", "key", "length", "open"} => r.fd = NoFile
  /\ r.pc \in {"key", "length", "open", "stat"} => r.n = 0
  /\ r.pc \in {"stat", "copy"} => r.fd \in Inodes
  /\ r.pc # "idle" => /\ r.id \in used
                      /\ r.off + r.n <= r.size
                      /\ Exists(r.id) => Pending(r.id) /\ rows[r.id].size = r.size
  /\ r.pc \in {"stat", "copy"} /\ Exists(r.id) => partial[r.id] = r.fd
  /\ r.pc = "copy" => disk[r.fd].len = r.off + r.n
  /\ r.pc = "finish" /\ Exists(r.id) /\ partial[r.id] # NoFile => Whole(partial[r.id], r.size)
  /\ r.pc = "complete" /\ Exists(r.id) => Whole(final[r.id], r.size)

(* Files are removed only after the row.                                   *)
DeleterOK(d) == LET r == del[d] IN
  /\ r.batch \subseteq used
  /\ r.pc = "row" => r.id \in used
  /\ r.pc \in {"forget", "final", "partial"} => r.id \in used /\ ~Exists(r.id)
  /\ d # Reaper /\ r.pc \in {"row", "forget", "final", "partial", "checkpoint"} => Closed(r.id)
  /\ d # Reaper /\ r.pc \in {"partial", "checkpoint"} => final[r.id] = NoFile
  /\ d # Reaper /\ r.pc = "checkpoint" => ~Exists(r.id) /\ partial[r.id] = NoFile

ReaderOK(d) == LET r == dl[d] IN
  /\ r.pc \in {"idle", "allow", "forget", "open"} => r.fd = NoFile
  /\ r.pc # "idle" => Closed(r.id)
  /\ r.pc \in {"allow", "forget", "open"} /\ final[r.id] # NoFile => Whole(final[r.id], r.size)

WriterInv  == \A w \in Writers : WriterOK(w)
DeleterInv == \A d \in Deleters : DeleterOK(d)
ReaderInv  == \A d \in Readers : ReaderOK(d)

RevokedClosed == \A id \in revoked : Closed(id)

IInv ==
  /\ TypeOK /\ FreshIds /\ InodesApart /\ OneWriter /\ WriterInv /\ DeleterInv
  /\ ReaderInv /\ PublishedWhole /\ ReaderSeesWhole /\ RevokedClosed /\ RevokedGone

(* What the reaper has listed stays due until it gets there, or is         *)
(* completed meanwhile.  The count can only grow because it is recomputed  *)
(* from bytes that only grow.                                              *)
CountDerived == \A id \in Ids : Exists(id) /\ rows[id].size > 0 =>
  rows[id].downloadCount = rows[id].bytesServed \div rows[id].size

DueSince(u, at) ==
  \/ Complete(u) /\ (Expired(u, now) \/ Exhausted(u))
  \/ u.createdAt <= Abandoned(at) /\ (Complete(u) => u.completedAt >= at)

ListedDue == \A id \in Listed :
  /\ id \in used /\ del[Reaper].at <= now
  /\ Exists(id) => DueSince(rows[id], del[Reaper].at)

RowsDrawn == \A id \in Ids : Exists(id) => id \in used

CauseInv == TypeOK /\ CountDerived /\ RowsDrawn /\ ListedDue

(* A deletion that has the checkpoint before it, and what is behind        *)
(* LogRetired.                                                             *)
Retiring(d) ==
  \/ del[d].pc \in {"forget", "final", "partial", "checkpoint"}
  \/ del[d].pc \in {"next", "row"} /\ del[d].removed

LogInv == faults = 0 /\ crashes = 0 /\ wal # {} => \E d \in Deleters : Retiring(d)

(* OvershootBounded is about what was counted; what keeps it is that every *)
(* transfer under way may still add an answer, and no more.                *)
Transfers(id) == {d \in Readers : dl[d].pc # "idle" /\ dl[d].id = id}

TransferTerms == \A d \in Readers : dl[d].pc # "idle" =>
  /\ dl[d].n <= Response(dl[d].size)
  /\ Exists(dl[d].id) => rows[dl[d].id].size = dl[d].size

Allowance == \A id \in Ids : Exists(id) /\ rows[id].maxDownloads > 0 /\ rows[id].size > 0 =>
  rows[id].bytesServed + Cardinality(Transfers(id)) * Response(rows[id].size)
    < rows[id].maxDownloads * rows[id].size
      + Cardinality(Readers) * Response(rows[id].size)

AllowanceInv == IInv /\ CauseInv /\ TransferTerms /\ Allowance
=============================================================================
