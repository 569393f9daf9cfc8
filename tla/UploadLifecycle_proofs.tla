----------------------- MODULE UploadLifecycle_proofs -----------------------
(***************************************************************************)
(* Proofs about UploadLifecycle, for any number of uploads, requests,      *)
(* failures and crashes, any policy and any upload size: types and the     *)
(* cause of every removal first; then what an upload contains.  While      *)
(* write requests against one upload come one at a time (Serial), what is  *)
(* published is whole, does not change, and is gone once revoked, and the  *)
(* life cycle implements UploadPromise.  The inductive invariant of the    *)
(* second part is IInv.                                                    *)
(***************************************************************************)
EXTENDS UploadRefinement, FiniteSetTheorems, SequenceTheorems, TLAPS

-----------------------------------------------------------------------------
(* Facts about rows.                                                       *)

(* Integer division of naturals is a natural and is monotone.              *)
LEMMA DivFacts ==
  ASSUME NEW x \in Nat, NEW y \in Nat, NEW s \in Nat \ {0}, x <= y
  PROVE  x \div s \in Nat /\ x \div s <= y \div s
  OBVIOUS

(* newRow builds a row of the table.                                       *)
LEMMA NewRowType ==
  ASSUME NEW size \in Nat, NEW ttl \in Int, NEW max \in Nat \cup {Absent},
         NEW t \in Nat \ {0}
  PROVE  NewRow(size, ttl, max, t) \in Row
  BY PolicyAssumption DEF NewRow, Row, ResolveExpiry, NoTime, Absent, PolicyAssumption

(* RecordServed keeps the row a row, and only its counters change.         *)
LEMMA ServedType ==
  ASSUME NEW u \in Row, NEW n \in Nat
  PROVE  /\ Served(u, n) \in Row
         /\ Served(u, n).size = u.size
         /\ Served(u, n).completedAt = u.completedAt
         /\ Served(u, n).createdAt = u.createdAt
         /\ Served(u, n).expiresAt = u.expiresAt
         /\ Served(u, n).maxDownloads = u.maxDownloads
         /\ Served(u, n).bytesServed = u.bytesServed + n
  <1> DEFINE c == IF u.size > 0 THEN (u.bytesServed + n) \div u.size ELSE u.downloadCount
  <1>1. c \in Nat
    <2>1. CASE u.size > 0
      <3>1. u.size \in Nat \ {0} /\ u.bytesServed + n \in Nat
        BY <2>1 DEF Row
      <3> QED BY <2>1, <3>1, DivFacts
    <2>2. CASE ~(u.size > 0)
      BY <2>2 DEF Row
    <2> QED BY <2>1, <2>2
  <1>2. Served(u, n) = [u EXCEPT !.bytesServed = u.bytesServed + n, !.downloadCount = c]
    BY DEF Served
  <1> HIDE DEF c
  <1>3. /\ u.bytesServed + n \in Nat
        /\ u = [size |-> u.size, createdAt |-> u.createdAt, expiresAt |-> u.expiresAt,
                maxDownloads |-> u.maxDownloads, downloadCount |-> u.downloadCount,
                bytesServed |-> u.bytesServed, completedAt |-> u.completedAt]
    BY DEF Row
  <1>4. Served(u, n) = [size |-> u.size, createdAt |-> u.createdAt, expiresAt |-> u.expiresAt,
                maxDownloads |-> u.maxDownloads, downloadCount |-> c,
                bytesServed |-> u.bytesServed + n, completedAt |-> u.completedAt]
    BY <1>2, <1>3
  <1> QED BY <1>1, <1>3, <1>4 DEF Row

-----------------------------------------------------------------------------
(* Types.                                                                  *)

LEMMA InitType == Init => TypeOK
  BY LifecycleAssumption
  DEF Init, TypeOK, File, Empty, Block, Positions, Deleters, LifecycleAssumption

(* A request that is not idle has an upload.                               *)
LEMMA ReqActive ==
  ASSUME TypeOK, NEW w \in Writers, req[w].pc # "idle"
  PROVE  req[w] \in Req
  BY DEF TypeOK, NoReq

LEMMA ReqStepType ==
  ASSUME TypeOK, NEW w \in Writers, req[w] \in Req, NEW pc \in ReqPC, ReqStep(w, pc)
  PROVE  req' \in [Writers -> Req \cup {NoReq}]
  <1>1. [req[w] EXCEPT !.pc = pc] \in Req
    BY DEF Req
  <1> QED BY <1>1 DEF ReqStep, TypeOK

LEMMA ReqEndType ==
  ASSUME TypeOK, NEW w \in Writers, ReqEnd(w)
  PROVE  req' \in [Writers -> Req \cup {NoReq}]
  BY DEF ReqEnd, TypeOK

LEMMA NewUploadType ==
  ASSUME TypeOK, NEW w \in Writers, NEW id \in Ids, NEW size \in Sizes,
         NEW ttl \in TTLs, NEW max \in Maxes, NEW body \in BOOLEAN,
         NewUpload(w, id, size, ttl, max, body)
  PROVE  TypeOK'
  <1>1. NewRow(size, ttl, max, now) \in Row /\ size \in Nat
    BY NewRowType, LifecycleAssumption DEF TypeOK, LifecycleAssumption
  <1>2. [NoReq EXCEPT !.pc = IF body THEN "key" ELSE "finish", !.id = id, !.size = size]
          \in Req
    BY <1>1 DEF NoReq, Req, ReqPC
  <1>3. req' \in [Writers -> Req \cup {NoReq}]
    BY <1>2 DEF NewUpload, TypeOK
  <1> QED BY <1>1, <1>3 DEF NewUpload, TypeOK, files

LEMMA GetUploadType ==
  ASSUME TypeOK, NEW w \in Writers, NEW id \in Ids, NEW off \in 0 .. MaxSize,
         GetUpload(w, id, off)
  PROVE  TypeOK'
  <1>1. rows[id] \in Row
    BY DEF GetUpload, Pending, Exists, TypeOK
  <1>2. rows[id].size \in Nat /\ off \in Nat
    BY <1>1, LifecycleAssumption DEF Row, LifecycleAssumption
  <1>3. [NoReq EXCEPT !.pc = "length", !.id = id, !.off = off, !.size = rows[id].size]
          \in Req
    BY <1>2 DEF NoReq, Req, ReqPC
  <1>4. req' \in [Writers -> Req \cup {NoReq}]
    BY <1>3 DEF GetUpload, TypeOK
  <1> QED BY <1>4 DEF GetUpload, TypeOK, files, env, table

LEMMA OpenPartialType ==
  ASSUME TypeOK, NEW w \in Writers, OpenPartial(w)
  PROVE  TypeOK'
  <1>1. Empty \in File
    BY LifecycleAssumption DEF Empty, File, Block, LifecycleAssumption
  <1>2. req[w] \in Req
    BY ReqActive DEF OpenPartial
  <1>3. ASSUME NEW i \in Inodes \cup {NoFile},
               req' = [req EXCEPT ![w] = [@ EXCEPT !.pc = "stat", !.fd = i]]
        PROVE  req' \in [Writers -> Req \cup {NoReq}]
    <2>1. [req[w] EXCEPT !.pc = "stat", !.fd = i] \in Req
      BY <1>2 DEF Req, ReqPC
    <2> QED BY <1>3, <2>1 DEF TypeOK
  <1>4. partial[req[w].id] \in Inodes \cup {NoFile}
    BY <1>2 DEF Req, TypeOK
  <1>5. req' \in [Writers -> Req \cup {NoReq}]
    BY <1>3, <1>4, ReqEndType DEF OpenPartial
  <1>6. \/ UNCHANGED files
        \/ \E i \in Inodes : /\ disk' = [disk EXCEPT ![i] = Empty]
                            /\ partial' = [partial EXCEPT ![req[w].id] = i]
                            /\ UNCHANGED final
    BY DEF OpenPartial
  <1>7. /\ disk' \in [Inodes -> File]
        /\ partial' \in [Ids -> Inodes \cup {NoFile}]
        /\ final' \in [Ids -> Inodes \cup {NoFile}]
    <2>1. CASE UNCHANGED files
      BY <2>1 DEF files, TypeOK
    <2>2. ASSUME NEW i \in Inodes, disk' = [disk EXCEPT ![i] = Empty],
                 partial' = [partial EXCEPT ![req[w].id] = i], UNCHANGED final
          PROVE  /\ disk' \in [Inodes -> File]
                 /\ partial' \in [Ids -> Inodes \cup {NoFile}]
                 /\ final' \in [Ids -> Inodes \cup {NoFile}]
      BY <1>1, <2>2 DEF TypeOK
    <2> QED BY <1>6, <2>1, <2>2
  <1> QED BY <1>5, <1>7 DEF OpenPartial, TypeOK, env, table

LEMMA CopyBlockType ==
  ASSUME TypeOK, NEW w \in Writers, CopyBlock(w)
  PROVE  TypeOK'
  <1>1. req[w] \in Req
    BY ReqActive DEF CopyBlock
  <1>2. [req[w] EXCEPT !.n = req[w].n + 1] \in Req
    BY <1>1 DEF Req
  <1>3. disk' \in [Inodes -> File]
    <2> DEFINE p == req[w].off + req[w].n
    <2> DEFINE New(f) == [len |-> IF f.len > p THEN f.len ELSE p + 1,
                          blk |-> [f.blk EXCEPT ![p] = w]]
    <2>1. p \in Nat
      BY <1>1 DEF Req
    <2>2. disk' = [disk EXCEPT ![req[w].fd] = New(@)]
      BY DEF CopyBlock
    <2> HIDE DEF p
    <2>3. ASSUME NEW f \in File PROVE New(f) \in File
      <3>1. f.len \in Nat /\ f.blk \in [Positions -> Block] /\ w \in Block
        BY DEF File, Block
      <3>2. [f.blk EXCEPT ![p] = w] \in [Positions -> Block]
        BY <3>1
      <3> QED BY <2>1, <3>1, <3>2 DEF File
    <2> HIDE DEF New
    <2> QED BY <2>2, <2>3 DEF TypeOK
  <1>4. req' \in [Writers -> Req \cup {NoReq}]
    BY <1>2 DEF CopyBlock, TypeOK
  <1> QED BY <1>3, <1>4 DEF CopyBlock, TypeOK, env, table

LEMMA WriterType ==
  ASSUME TypeOK, NEW w \in Writers, WriterRuns(w)
  PROVE  TypeOK'
  <1>1. CASE LoadKey(w)
    <2>1. req' \in [Writers -> Req \cup {NoReq}]
      BY <1>1, ReqActive, ReqStepType, ReqEndType DEF LoadKey, ReqPC
    <2> QED BY <1>1, <2>1 DEF LoadKey, TypeOK, files, env, table
  <1>2. CASE Length(w)
    <2>1. req' \in [Writers -> Req \cup {NoReq}]
      BY <1>2, ReqActive, ReqStepType, ReqEndType DEF Length, ReqPC
    <2> QED BY <1>2, <2>1 DEF Length, TypeOK, files, env, table
  <1>3. CASE OpenPartial(w)
    BY <1>3, OpenPartialType
  <1>4. CASE StatPartial(w)
    <2>1. req' \in [Writers -> Req \cup {NoReq}]
      BY <1>4, ReqActive, ReqStepType, ReqEndType DEF StatPartial, ReqPC
    <2> QED BY <1>4, <2>1 DEF StatPartial, TypeOK, files, env, table
  <1>5. CASE CopyBlock(w)
    BY <1>5, CopyBlockType
  <1>6. CASE EndChunk(w)
    <2>1. req' \in [Writers -> Req \cup {NoReq}]
      BY <1>6, ReqActive, ReqStepType, ReqEndType DEF EndChunk, ReqPC
    <2> QED BY <1>6, <2>1 DEF EndChunk, TypeOK, files, env, table
  <1>7. CASE FinishBlob(w)
    <2>1. req' \in [Writers -> Req \cup {NoReq}]
      BY <1>7, ReqActive, ReqStepType, ReqEndType DEF FinishBlob, ReqPC
    <2>2. partial[req[w].id] \in Inodes \cup {NoFile}
      BY <1>7, ReqActive DEF FinishBlob, TypeOK, Req
    <2> QED BY <1>7, <2>1, <2>2 DEF FinishBlob, Fault, TypeOK, files, env, table
  <1>8. CASE CompleteRow(w)
    <2>1. req' \in [Writers -> Req \cup {NoReq}]
      BY <1>8, ReqEndType DEF CompleteRow
    <2>2. ASSUME NEW id \in Ids, rows[id] # NoRow
          PROVE  [rows EXCEPT ![id].completedAt = now] \in [Ids -> Row \cup {NoRow}]
      BY <2>2 DEF Row, TypeOK
    <2>3. req[w].id \in Ids
      BY <1>8, ReqActive DEF CompleteRow, Req
    <2>4. rows' \in [Ids -> Row \cup {NoRow}]
      BY <1>8, <2>2, <2>3 DEF CompleteRow, Pending, Exists, TypeOK
    <2> QED BY <1>8, <2>1, <2>4 DEF CompleteRow, Fault, TypeOK, files, env
  <1> QED BY <1>1, <1>2, <1>3, <1>4, <1>5, <1>6, <1>7, <1>8 DEF WriterRuns

LEMMA DelActive ==
  ASSUME TypeOK, NEW d \in Deleters,
         del[d].pc \in {"row", "forget", "final", "partial"}
  PROVE  del[d] \in Del
  BY DEF TypeOK, Batching, NoDel

LEMMA DelStepType ==
  ASSUME TypeOK, NEW d \in Deleters, del[d] \in Del, NEW pc \in DelPC, DelStep(d, pc)
  PROVE  /\ del' \in [Deleters -> Del \cup Batching \cup {NoDel}]
         /\ \A e \in Revokers : del'[e] \in Del \cup {NoDel}
  <1>1. [del[d] EXCEPT !.pc = pc] \in Del
    BY DEF Del
  <1> QED BY <1>1 DEF DelStep, TypeOK, Deleters

LEMMA DelEndType ==
  ASSUME TypeOK, NEW d \in Deleters, del[d] \in Del, DeleteFailed(d) \/ DeleteDone(d)
  PROVE  /\ del' \in [Deleters -> Del \cup Batching \cup {NoDel}]
         /\ \A e \in Revokers : del'[e] \in Del \cup {NoDel}
  <1>1. [del[d] EXCEPT !.pc = "reply", !.status = "500"] \in Del
    BY DEF Del, DelPC, Status
  <1>2. [del[d] EXCEPT !.pc = "checkpoint"] \in Del
    BY DEF Del, DelPC, Status
  <1>3. [del[d] EXCEPT !.pc = "next", !.id = NoId] \in Batching
    BY DEF Del, Batching
  <1>4. [del[d] EXCEPT !.pc = "next", !.id = NoId, !.removed = TRUE] \in Batching
    BY DEF Del, Batching
  <1>5. CASE d = Reaper
    BY <1>3, <1>4, <1>5, LifecycleAssumption
    DEF DeleteFailed, DeleteDone, TypeOK, Deleters, LifecycleAssumption
  <1>6. CASE d # Reaper
    BY <1>1, <1>2, <1>6
    DEF DeleteFailed, DeleteDone, TypeOK, Deleters
  <1> QED BY <1>5, <1>6

LEMMA DeleterType ==
  ASSUME TypeOK, NEW d \in Deleters, DeleterRuns(d)
  PROVE  TypeOK'
  <1>1. CASE DeleteRow(d)
    <2>1. del[d] \in Del
      BY <1>1, DelActive DEF DeleteRow
    <2>2. /\ del' \in [Deleters -> Del \cup Batching \cup {NoDel}]
          /\ \A e \in Revokers : del'[e] \in Del \cup {NoDel}
      BY <1>1, <2>1, DelStepType, DelEndType DEF DeleteRow, DelPC
    <2>3. del[d].id \in Ids
      BY <2>1 DEF Del
    <2> QED BY <1>1, <2>2, <2>3 DEF DeleteRow, Fault, TypeOK, files, env, table
  <1>2. CASE ForgetAttempts(d)
    <2>1. del[d] \in Del
      BY <1>2, DelActive DEF ForgetAttempts
    <2>2. /\ del' \in [Deleters -> Del \cup Batching \cup {NoDel}]
          /\ \A e \in Revokers : del'[e] \in Del \cup {NoDel}
      BY <1>2, <2>1, DelStepType DEF ForgetAttempts, DelPC
    <2> QED BY <1>2, <2>2 DEF ForgetAttempts, TypeOK, files, env, table
  <1>3. CASE RemoveFinal(d)
    <2>1. del[d] \in Del
      BY <1>3, DelActive DEF RemoveFinal
    <2>2. /\ del' \in [Deleters -> Del \cup Batching \cup {NoDel}]
          /\ \A e \in Revokers : del'[e] \in Del \cup {NoDel}
      BY <1>3, <2>1, DelStepType, DelEndType DEF RemoveFinal, DelPC
    <2> QED BY <1>3, <2>2 DEF RemoveFinal, Fault, TypeOK, env, table
  <1>4. CASE RemovePartial(d)
    <2>1. del[d] \in Del
      BY <1>4, DelActive DEF RemovePartial
    <2>2. /\ del' \in [Deleters -> Del \cup Batching \cup {NoDel}]
          /\ \A e \in Revokers : del'[e] \in Del \cup {NoDel}
      BY <1>4, <2>1, DelStepType, DelEndType DEF RemovePartial, DelPC
    <2> QED BY <1>4, <2>2 DEF RemovePartial, Fault, TypeOK, env, table
  <1>5. CASE Checkpoint(d)
    <2>1. CASE d = Reaper
      BY <1>5, <2>1, LifecycleAssumption
      DEF Checkpoint, Fault, TypeOK, Deleters, files, env, LifecycleAssumption
    <2>2. CASE d # Reaper
      <3>1. del[d] \in Del
        BY <1>5, <2>2 DEF Checkpoint, TypeOK, Deleters, NoDel
      <3>2. [del[d] EXCEPT !.pc = "reply", !.status = "204"] \in Del /\ del[d].id \in Ids
        BY <3>1 DEF Del, DelPC, Status
      <3>3. /\ del' \in [Deleters -> Del \cup Batching \cup {NoDel}]
            /\ \A e \in Revokers : del'[e] \in Del \cup {NoDel}
        BY <1>5, <2>2, <3>2 DEF Checkpoint, TypeOK, Deleters
      <3> QED BY <1>5, <2>2, <3>2, <3>3 DEF Checkpoint, Fault, TypeOK, files, env
    <2> QED BY <2>1, <2>2
  <1> QED BY <1>1, <1>2, <1>3, <1>4, <1>5 DEF DeleterRuns

LEMMA ReaperType ==
  ASSUME TypeOK, ReaperRuns
  PROVE  TypeOK'
  <1> USE LifecycleAssumption DEF LifecycleAssumption, Deleters
  <1>1. ASSUME NEW batch \in SUBSET Ids, ReapList(batch) PROVE TypeOK'
    <2>1. [NoDel EXCEPT !.pc = "next", !.at = now, !.batch = batch] \in Batching
      BY DEF NoDel, Batching, Status, TypeOK
    <2> QED BY <1>1, <2>1 DEF ReapList, TypeOK, files, env, table
  <1>2. ASSUME NEW id \in Ids, ReapNext(id) PROVE TypeOK'
    <2>1. del[Reaper] \in Batching
      BY <1>2 DEF ReapNext, TypeOK, Del, DelPC, NoDel
    <2>2. [del[Reaper] EXCEPT !.pc = "row", !.id = id, !.batch = del[Reaper].batch \ {id}] \in Del
      BY <2>1 DEF Batching, Del, DelPC
    <2> QED BY <1>2, <2>2 DEF ReapNext, TypeOK, files, env, table
  <1>3. ASSUME ReapEnd PROVE TypeOK'
    <2>1. del[Reaper] \in Batching
      BY <1>3 DEF ReapEnd, TypeOK, Del, DelPC, NoDel
    <2>2. [del[Reaper] EXCEPT !.pc = "checkpoint"] \in Batching
      BY <2>1 DEF Batching
    <2> QED BY <1>3, <2>2 DEF ReapEnd, TypeOK, files, env, table
  <1>4. ASSUME DeleterRuns(Reaper) PROVE TypeOK'
    BY <1>4, DeleterType
  <1> QED BY <1>1, <1>2, <1>3, <1>4 DEF ReaperRuns

LEMMA RevokeType ==
  ASSUME TypeOK, NEW d \in Revokers, NEW id \in Ids, RevokeGet(d, id) \/ RevokeReply(d)
  PROVE  TypeOK'
  <1> USE LifecycleAssumption DEF LifecycleAssumption, Deleters
  <1>1. /\ [NoDel EXCEPT !.pc = "row", !.id = id] \in Del
        /\ [NoDel EXCEPT !.pc = "reply", !.id = id, !.status = "403"] \in Del
    BY DEF NoDel, Del, DelPC, Status
  <1>2. CASE RevokeGet(d, id)
    BY <1>1, <1>2 DEF RevokeGet, TypeOK, files, env, table
  <1>3. CASE RevokeReply(d)
    BY <1>3 DEF RevokeReply, TypeOK, files, env, table
  <1> QED BY <1>2, <1>3

LEMMA ResponseType ==
  ASSUME NEW s \in Nat
  PROVE  Response(s) \in Nat
  <1>1. Overhead \in Nat
    BY LifecycleAssumption DEF LifecycleAssumption
  <1> QED BY <1>1 DEF Response

LEMMA DlActive ==
  ASSUME TypeOK, NEW d \in Readers, dl[d].pc # "idle"
  PROVE  dl[d] \in Dl
  BY DEF TypeOK, NoDl

LEMMA DlStepType ==
  ASSUME TypeOK, NEW d \in Readers, dl[d] \in Dl, NEW pc \in DlPC, DlStep(d, pc)
  PROVE  dl' \in [Readers -> Dl \cup {NoDl}]
  <1>1. [dl[d] EXCEPT !.pc = pc] \in Dl
    BY DEF Dl
  <1> QED BY <1>1 DEF DlStep, TypeOK

LEMMA DlEndType ==
  ASSUME TypeOK, NEW d \in Readers, DlEnd(d)
  PROVE  dl' \in [Readers -> Dl \cup {NoDl}]
  BY DEF DlEnd, TypeOK

LEMMA AuthenticateType ==
  ASSUME TypeOK, NEW d \in Readers, NEW id \in Ids, Authenticate(d, id)
  PROVE  TypeOK'
  <1>1. rows[id] \in Row
    BY DEF Authenticate, Reachable, Exists, TypeOK
  <1>2. [NoDl EXCEPT !.pc = "allow", !.id = id, !.size = rows[id].size] \in Dl
    BY <1>1 DEF Row, NoDl, Dl, DlPC
  <1> QED BY <1>2 DEF Authenticate, TypeOK, files, env, table

LEMMA ReaderType ==
  ASSUME TypeOK, NEW d \in Readers, ReaderRuns(d)
  PROVE  TypeOK'
  <1>0. dl[d] \in Dl
    BY DlActive DEF ReaderRuns, Allow, ForgetOnSuccess, OpenContent, Serve, RecordServed
  <1>a. dl[d].id \in Ids /\ dl[d].n \in Nat
    BY <1>0 DEF Dl
  <1>1. CASE Allow(d)
    <2>1. dl' \in [Readers -> Dl \cup {NoDl}]
      BY <1>0, <1>1, DlStepType, DlEndType DEF Allow, DlPC
    <2> QED BY <1>a, <1>1, <2>1 DEF Allow, TypeOK, files, env, table
  <1>2. CASE ForgetOnSuccess(d)
    <2>1. dl' \in [Readers -> Dl \cup {NoDl}]
      BY <1>0, <1>2, DlStepType, DlEndType DEF ForgetOnSuccess, DlPC
    <2> QED BY <1>2, <2>1 DEF ForgetOnSuccess, TypeOK, files, env, table
  <1>3. CASE OpenContent(d)
    <2>1. final[dl[d].id] \in Inodes \cup {NoFile}
      BY <1>a DEF TypeOK
    <2>2. [dl[d] EXCEPT !.pc = "serve", !.fd = final[dl[d].id]] \in Dl
      BY <1>0, <2>1 DEF Dl, DlPC
    <2>3. dl' \in [Readers -> Dl \cup {NoDl}]
      BY <1>3, <2>2, DlEndType DEF OpenContent, TypeOK
    <2> QED BY <1>3, <2>3 DEF OpenContent, TypeOK, files, env, table
  <1>4. ASSUME NEW n \in 0 .. Response(MaxSize), Serve(d, n) PROVE TypeOK'
    <2>1. n \in Nat
      BY ResponseType, LifecycleAssumption DEF LifecycleAssumption
    <2>2. [dl[d] EXCEPT !.pc = "record", !.n = n] \in Dl
      BY <1>0, <2>1 DEF Dl, DlPC
    <2> QED BY <1>4, <2>2 DEF Serve, TypeOK, files, env, table
  <1>5. CASE RecordServed(d)
    <2>1. dl' \in [Readers -> Dl \cup {NoDl}]
      BY <1>5, DlEndType DEF RecordServed
    <2>2. ASSUME Exists(dl[d].id) PROVE Served(rows[dl[d].id], dl[d].n) \in Row
      BY <1>a, <2>2, ServedType DEF Exists, TypeOK
    <2>3. rows' \in [Ids -> Row \cup {NoRow}]
      BY <1>5, <2>2 DEF RecordServed, TypeOK
    <2> QED BY <1>5, <2>1, <2>3 DEF RecordServed, Fault, TypeOK, files, env
  <1> QED BY <1>1, <1>2, <1>3, <1>4, <1>5 DEF ReaderRuns

(* Every step keeps the types.                                             *)
LEMMA TypeStep == TypeOK /\ [Next]_vars => TypeOK'
  <1> SUFFICES ASSUME TypeOK, [Next]_vars PROVE TypeOK'
    OBVIOUS
  <1>1. CASE Requests
    BY <1>1, NewUploadType, GetUploadType, RevokeType, AuthenticateType DEF Requests
  <1>2. ASSUME NEW w \in Writers, WriterRuns(w) PROVE TypeOK'
    BY <1>2, WriterType
  <1>3. ASSUME NEW d \in Revokers, DeleterRuns(d) PROVE TypeOK'
    BY <1>3, DeleterType DEF Deleters
  <1>4. ASSUME NEW d \in Revokers, RevokeReply(d) PROVE TypeOK'
    <2>1. PICK id \in Ids : TRUE
      BY <1>4 DEF RevokeReply, TypeOK, Del, NoDel
    <2> QED BY <1>4, <2>1, RevokeType
  <1>5. CASE ReaperRuns
    BY <1>5, ReaperType
  <1>6. ASSUME NEW d \in Readers, ReaderRuns(d) PROVE TypeOK'
    BY <1>6, ReaderType
  <1>7. CASE Tick
    BY <1>7 DEF Tick, TypeOK, files, table
  <1>8. CASE Crash
    BY <1>8 DEF Crash, TypeOK, files, table, Deleters
  <1>9. CASE UNCHANGED vars
    BY <1>9 DEF vars, TypeOK
  <1> QED BY <1>1, <1>2, <1>3, <1>4, <1>5, <1>6, <1>7, <1>8, <1>9 DEF Next

(* Every reachable state is well typed: handlers only ever name uploads,   *)
(* inodes and rows that exist as such.                                     *)
THEOREM TypeCorrect == Spec => []TypeOK
  <1> QED BY InitType, TypeStep, PTL DEF Spec

-----------------------------------------------------------------------------
(* Removal only for cause.                                                 *)

(* The four statements that change the table.                              *)
Inserts(id) == \E size \in Nat, ttl \in Int, max \in Nat \cup {Absent} :
  id \notin used /\ used' = used \cup {id} /\ rows' = [rows EXCEPT ![id] = NewRow(size, ttl, max, now)]
Completes(id) == Pending(id) /\ rows' = [rows EXCEPT ![id].completedAt = now] /\ UNCHANGED used
Deletes(id)   == /\ \E d \in Deleters : del[d].pc = "row" /\ del[d].id = id
                 /\ rows' = [rows EXCEPT ![id] = NoRow] /\ UNCHANGED used
Accounts(id)  == \E n \in Nat :
  Exists(id) /\ rows' = [rows EXCEPT ![id] = Served(rows[id], n)] /\ UNCHANGED used

LEMMA RowsChange ==
  ASSUME TypeOK, [Next]_vars
  PROVE  \/ UNCHANGED <<rows, used>>
         \/ \E id \in Ids : Inserts(id) \/ Completes(id) \/ Deletes(id) \/ Accounts(id)
  <1>1. CASE Requests
    <2>1. ASSUME NEW w \in Writers, NEW id \in Ids, NEW size \in Sizes, NEW ttl \in TTLs,
                 NEW max \in Maxes, NEW body \in BOOLEAN, NewUpload(w, id, size, ttl, max, body)
          PROVE  Inserts(id)
      <3>1. size \in Nat /\ ttl \in Int /\ max \in Nat \cup {Absent}
        BY LifecycleAssumption DEF LifecycleAssumption
      <3> QED BY <2>1, <3>1 DEF NewUpload, Inserts
    <2> QED BY <1>1, <2>1 DEF Requests, GetUpload, RevokeGet, Authenticate, table, env
  <1>2. ASSUME NEW w \in Writers, WriterRuns(w)
        PROVE  UNCHANGED <<rows, used>> \/ \E id \in Ids : Completes(id)
    <2>1. CASE CompleteRow(w)
      <3>1. req[w].id \in Ids
        BY <2>1, ReqActive DEF CompleteRow, Req
      <3> QED BY <2>1, <3>1 DEF CompleteRow, Completes, env
    <2> QED BY <1>2, <2>1 DEF WriterRuns, LoadKey, Length, OpenPartial, StatPartial, CopyBlock,
                              EndChunk, FinishBlob, table, env
  <1>3. ASSUME NEW d \in Deleters, DeleterRuns(d)
        PROVE  UNCHANGED <<rows, used>> \/ \E id \in Ids : Deletes(id)
    <2>1. CASE DeleteRow(d)
      <3>1. del[d].id \in Ids
        BY <2>1, DelActive DEF DeleteRow, Del
      <3> QED BY <2>1, <3>1 DEF DeleteRow, Deletes, table, env
    <2> QED BY <1>3, <2>1 DEF DeleterRuns, ForgetAttempts, RemoveFinal, RemovePartial,
                              Checkpoint, table, env
  <1>4. ASSUME NEW d \in Readers, ReaderRuns(d)
        PROVE  UNCHANGED <<rows, used>> \/ \E id \in Ids : Accounts(id)
    <2>1. CASE RecordServed(d)
      <3>1. dl[d].id \in Ids /\ dl[d].n \in Nat
        BY <2>1, DlActive DEF RecordServed, Dl
      <3> QED BY <2>1, <3>1 DEF RecordServed, Accounts, env
    <2> QED BY <1>4, <2>1 DEF ReaderRuns, Allow, ForgetOnSuccess, OpenContent, Serve, table, env
  <1>5. CASE ReaperRuns
    BY <1>3, <1>5 DEF ReaperRuns, ReapList, ReapNext, ReapEnd, table, env, Deleters
  <1>6. ASSUME NEW d \in Revokers, RevokeReply(d) PROVE UNCHANGED <<rows, used>>
    BY <1>6 DEF RevokeReply, table, env
  <1>7. CASE Tick \/ Crash \/ UNCHANGED vars
    BY <1>7 DEF Tick, Crash, vars, table
  <1> QED BY <1>1, <1>2, <1>3, <1>4, <1>5, <1>6, <1>7 DEF Next, Deleters

(* What a step leaves of a row: it keeps its terms, its download count     *)
(* does not fall, and it is completed once.                                *)
SameTerms(u, v) ==
  /\ v.size = u.size /\ v.createdAt = u.createdAt /\ v.expiresAt = u.expiresAt
  /\ v.maxDownloads = u.maxDownloads /\ v.downloadCount >= u.downloadCount
  /\ v.completedAt = u.completedAt \/ (u.completedAt = NoTime /\ v.completedAt = now)

LEMMA RowKeepsTerms ==
  ASSUME TypeOK, CountDerived, RowsDrawn, [Next]_vars, NEW x \in Ids, x \in used, Exists(x)'
  PROVE  Exists(x) /\ SameTerms(rows[x], rows'[x])
  <1>1. CASE UNCHANGED rows
    BY <1>1 DEF Exists, SameTerms, TypeOK, Row
  <1>2. ASSUME NEW id \in Ids, Inserts(id) PROVE Exists(x) /\ SameTerms(rows[x], rows'[x])
    BY <1>2 DEF Inserts, Exists, SameTerms, TypeOK, Row
  <1>3. ASSUME NEW id \in Ids, Completes(id) PROVE Exists(x) /\ SameTerms(rows[x], rows'[x])
    <2>1. CASE id = x
      BY <1>3, <2>1 DEF Completes, Pending, Complete, Exists, SameTerms, TypeOK, Row
    <2>2. CASE id # x
      BY <1>3, <2>2 DEF Completes, Exists, SameTerms, TypeOK, Row
    <2> QED BY <2>1, <2>2
  <1>4. ASSUME NEW id \in Ids, Deletes(id) PROVE Exists(x) /\ SameTerms(rows[x], rows'[x])
    BY <1>4 DEF Deletes, Exists, SameTerms, TypeOK, Row
  <1>5. ASSUME NEW id \in Ids, Accounts(id) PROVE Exists(x) /\ SameTerms(rows[x], rows'[x])
    <2>1. CASE id # x
      BY <1>5, <2>1 DEF Accounts, Exists, SameTerms, TypeOK, Row
    <2>2. CASE id = x
      <3>1. PICK n \in Nat : Exists(x) /\ rows' = [rows EXCEPT ![x] = Served(rows[x], n)]
        BY <1>5, <2>2 DEF Accounts
      <3>2. rows[x] \in Row /\ rows'[x] = Served(rows[x], n)
        BY <3>1 DEF Exists, TypeOK
      <3>3. Served(rows[x], n).downloadCount >= rows[x].downloadCount
        <4>1. CASE rows[x].size > 0
          <5>1. /\ rows[x].size \in Nat \ {0}
                /\ rows[x].bytesServed \in Nat /\ rows[x].bytesServed + n \in Nat
                /\ rows[x].bytesServed <= rows[x].bytesServed + n
            BY <3>2, <4>1 DEF Row
          <5>2. rows[x].bytesServed \div rows[x].size
                  <= (rows[x].bytesServed + n) \div rows[x].size
            BY <5>1, DivFacts
          <5>3. rows[x].downloadCount = rows[x].bytesServed \div rows[x].size
            BY <3>1, <4>1 DEF CountDerived
          <5>4. Served(rows[x], n).downloadCount = (rows[x].bytesServed + n) \div rows[x].size
            BY <3>2, <4>1 DEF Served, Row
          <5> QED BY <5>1, <5>2, <5>3, <5>4, DivFacts
        <4>2. CASE ~(rows[x].size > 0)
          BY <3>2, <4>2 DEF Served, Row
        <4> QED BY <4>1, <4>2
      <3> QED BY <3>1, <3>2, <3>3, ServedType DEF SameTerms
    <2> QED BY <2>1, <2>2
  <1> QED BY <1>1, <1>2, <1>3, <1>4, <1>5, RowsChange

LEMMA CountDerivedStep ==
  ASSUME TypeOK, CountDerived, [Next]_vars
  PROVE  CountDerived'
  <1> SUFFICES ASSUME NEW x \in Ids, Exists(x)', rows'[x].size > 0
               PROVE  rows'[x].downloadCount = rows'[x].bytesServed \div rows'[x].size
    BY DEF CountDerived
  <1>1. CASE UNCHANGED rows
    BY <1>1 DEF CountDerived, Exists
  <1>2. ASSUME NEW id \in Ids, Inserts(id)
        PROVE  rows'[x].downloadCount = rows'[x].bytesServed \div rows'[x].size
    <2>1. CASE id = x
      <3>1. PICK size \in Nat, ttl \in Int, max \in Nat \cup {Absent} :
              rows' = [rows EXCEPT ![x] = NewRow(size, ttl, max, now)]
        BY <1>2, <2>1 DEF Inserts
      <3>2. rows'[x] = NewRow(size, ttl, max, now)
        BY <3>1 DEF TypeOK
      <3>3. size > 0
        BY <3>2 DEF NewRow
      <3>4. 0 \div size = 0
        BY <3>3
      <3> QED BY <3>2, <3>4 DEF NewRow
    <2>2. CASE id # x
      BY <1>2, <2>2 DEF Inserts, CountDerived, Exists, TypeOK
    <2> QED BY <2>1, <2>2
  <1>3. ASSUME NEW id \in Ids, Completes(id)
        PROVE  rows'[x].downloadCount = rows'[x].bytesServed \div rows'[x].size
    <2>1. CASE id = x
      BY <1>3, <2>1 DEF Completes, Pending, CountDerived, Exists, TypeOK, Row
    <2>2. CASE id # x
      BY <1>3, <2>2 DEF Completes, CountDerived, Exists, TypeOK
    <2> QED BY <2>1, <2>2
  <1>4. ASSUME NEW id \in Ids, Deletes(id)
        PROVE  rows'[x].downloadCount = rows'[x].bytesServed \div rows'[x].size
    BY <1>4 DEF Deletes, CountDerived, Exists, TypeOK
  <1>5. ASSUME NEW id \in Ids, Accounts(id)
        PROVE  rows'[x].downloadCount = rows'[x].bytesServed \div rows'[x].size
    <2>1. CASE id = x
      <3>1. PICK n \in Nat : Exists(x) /\ rows' = [rows EXCEPT ![x] = Served(rows[x], n)]
        BY <1>5, <2>1 DEF Accounts
      <3>2. rows[x] \in Row /\ rows'[x] = Served(rows[x], n)
        BY <3>1 DEF Exists, TypeOK
      <3>3. rows[x].size > 0 /\ rows'[x].bytesServed = rows[x].bytesServed + n
              /\ rows'[x].size = rows[x].size
        BY <3>2, ServedType
      <3>4. rows'[x].downloadCount = (rows[x].bytesServed + n) \div rows[x].size
        BY <3>2, <3>3 DEF Served, Row
      <3> QED BY <3>3, <3>4
    <2>2. CASE id # x
      BY <1>5, <2>2 DEF Accounts, CountDerived, Exists, TypeOK
    <2> QED BY <2>1, <2>2
  <1> QED BY <1>1, <1>2, <1>3, <1>4, <1>5, RowsChange

LEMMA RowsDrawnStep ==
  ASSUME TypeOK, RowsDrawn, [Next]_vars
  PROVE  RowsDrawn' /\ used \subseteq used'
  BY RowsChange
  DEF RowsDrawn, Exists, Inserts, Completes, Deletes, Accounts, Pending, TypeOK

LEMMA ClockGrows ==
  ASSUME TypeOK, [Next]_vars
  PROVE  now' \in Nat /\ now' >= now
  <1>1. UNCHANGED now \/ Tick
    BY ZenonT(40) DEF Next, vars, Requests, NewUpload, GetUpload, RevokeGet, Authenticate, WriterRuns,
       LoadKey, Length, OpenPartial, StatPartial, CopyBlock, EndChunk, FinishBlob, CompleteRow,
       DeleterRuns, DeleteRow, ForgetAttempts, RemoveFinal, RemovePartial, Checkpoint,
       RevokeReply, ReaperRuns, ReapList, ReapNext, ReapEnd, ReaderRuns, Allow,
       ForgetOnSuccess, OpenContent, Serve, RecordServed, Crash, env
  <1> QED BY <1>1 DEF Tick, TypeOK

(* The reaper's list only gets longer by a query that returned dead rows.  *)
LEMMA ListedChange ==
  ASSUME TypeOK, [Next]_vars, NEW x \in Listed'
  PROVE  \/ x \in Listed /\ del'[Reaper].at = del[Reaper].at
         \/ x \in DeadIds /\ del'[Reaper].at = now /\ UNCHANGED <<rows, now, used>>
  <1> USE LifecycleAssumption DEF LifecycleAssumption, Deleters
  <1>1. CASE UNCHANGED del
    BY <1>1 DEF Listed
  <1>2. ASSUME NEW batch \in SUBSET Ids, ReapList(batch)
        PROVE  x \in DeadIds /\ del'[Reaper].at = now /\ UNCHANGED <<rows, now, used>>
    BY <1>2 DEF ReapList, Listed, NoDel, TypeOK, table, env
  <1>3. ASSUME NEW id \in Ids, ReapNext(id) PROVE x \in Listed /\ del'[Reaper].at = del[Reaper].at
    <2>1. del'[Reaper] = [del[Reaper] EXCEPT !.pc = "row", !.id = id,
                                              !.batch = del[Reaper].batch \ {id}]
      BY <1>3 DEF ReapNext, TypeOK
    <2>2. del[Reaper] \in Batching
      BY <1>3 DEF ReapNext, TypeOK, Del, DelPC, NoDel
    <2>3. del'[Reaper].id = id /\ del'[Reaper].batch = del[Reaper].batch \ {id}
          /\ del'[Reaper].at = del[Reaper].at
      BY <2>1, <2>2 DEF Batching
    <2> QED BY <1>3, <2>3 DEF ReapNext, Listed
  <1>4. CASE ReapEnd
    <2>1. del[Reaper] \in Batching
      BY <1>4 DEF ReapEnd, TypeOK, Del, DelPC, NoDel
    <2>2. del'[Reaper].batch = {} /\ del'[Reaper].pc # "row"
      BY <1>4, <2>1 DEF ReapEnd, TypeOK, NoDel, Batching
    <2> QED BY <2>2 DEF Listed
  <1>5. ASSUME DeleterRuns(Reaper) PROVE x \in Listed /\ del'[Reaper].at = del[Reaper].at
    <2>1. CASE del[Reaper].pc = "checkpoint"
      BY <1>5, <2>1 DEF DeleterRuns, DeleteRow, ForgetAttempts, RemoveFinal, RemovePartial,
         Checkpoint, TypeOK, NoDel, Listed
    <2>2. CASE del[Reaper].pc # "checkpoint"
      <3>1. del[Reaper] \in Del
        BY <1>5, <2>2, DelActive DEF DeleterRuns, DeleteRow, ForgetAttempts, RemoveFinal,
           RemovePartial, Checkpoint
      <3>2. \/ DelStep(Reaper, "forget") \/ DelStep(Reaper, "final") \/ DelStep(Reaper, "partial")
            \/ DeleteFailed(Reaper) \/ DeleteDone(Reaper)
        BY <1>5, <2>2 DEF DeleterRuns, DeleteRow, ForgetAttempts, RemoveFinal, RemovePartial,
           Checkpoint
      <3>3. ASSUME NEW pc \in {"forget", "final", "partial"}, DelStep(Reaper, pc)
            PROVE  del'[Reaper].batch = del[Reaper].batch /\ del'[Reaper].pc # "row"
                   /\ del'[Reaper].at = del[Reaper].at
        <4>1. del'[Reaper] = [del[Reaper] EXCEPT !.pc = pc]
          BY <3>3 DEF DelStep, TypeOK
        <4> QED BY <3>1, <4>1 DEF Del
      <3>4. CASE DeleteFailed(Reaper)
        <4>1. del'[Reaper] = [del[Reaper] EXCEPT !.pc = "next", !.id = NoId]
          BY <3>4 DEF DeleteFailed, TypeOK
        <4> QED BY <3>1, <4>1 DEF Del, Listed
      <3>5. CASE DeleteDone(Reaper)
        <4>1. del'[Reaper] = [del[Reaper] EXCEPT !.pc = "next", !.id = NoId, !.removed = TRUE]
          BY <3>5 DEF DeleteDone, TypeOK
        <4> QED BY <3>1, <4>1 DEF Del, Listed
      <3> QED BY <3>2, <3>3, <3>4, <3>5 DEF Listed
    <2> QED BY <2>1, <2>2
  <1>6. ASSUME NEW d \in Revokers, NEW id \in Ids,
               RevokeGet(d, id) \/ DeleterRuns(d) \/ RevokeReply(d)
        PROVE  x \in Listed /\ del'[Reaper].at = del[Reaper].at
    <2>1. del'[Reaper] = del[Reaper]
      BY <1>6 DEF RevokeGet, RevokeReply, DeleterRuns, DeleteRow, ForgetAttempts, RemoveFinal,
         RemovePartial, Checkpoint, DelStep, DeleteFailed, DeleteDone, TypeOK
    <2> QED BY <2>1 DEF Listed
  <1>7. CASE Crash
    BY <1>7 DEF Crash, Listed, NoDel
  <1>8. \A d \in Revokers : DeleterRuns(d) \/ RevokeReply(d) => \E id \in Ids : TRUE
    BY DEF DeleterRuns, RevokeReply, DeleteRow, ForgetAttempts, RemoveFinal, RemovePartial,
       Checkpoint, TypeOK, Del, NoDel
  <1> QED
    BY <1>1, <1>2, <1>3, <1>4, <1>5, <1>6, <1>7, <1>8, ZenonT(40)
    DEF Next, vars, Requests, NewUpload, GetUpload, Authenticate, WriterRuns, LoadKey, Length,
        OpenPartial, StatPartial, CopyBlock, EndChunk, FinishBlob, CompleteRow, ReaperRuns,
        ReaderRuns, Allow, ForgetOnSuccess, OpenContent, Serve, RecordServed, Tick

(* Being due is not undone by time or by accounting, and completing an     *)
(* upload that was listed as abandoned comes after the list.               *)
LEMMA StaysDue ==
  ASSUME TypeOK, [Next]_vars, NEW x \in Ids, Exists(x), Exists(x)', NEW at \in Nat, at <= now,
         DueSince(rows[x], at), SameTerms(rows[x], rows'[x])
  PROVE  \/ Complete(rows'[x]) /\ (Expired(rows'[x], now') \/ Exhausted(rows'[x]))
         \/ /\ rows'[x].createdAt <= Abandoned(at)
            /\ Complete(rows'[x]) => rows'[x].completedAt >= at
  <1>1. rows[x] \in Row /\ rows'[x] \in Row
    BY TypeStep DEF Exists, TypeOK
  <1>2. now \in Nat \ {0} /\ now' \in Nat /\ now' >= now
    BY ClockGrows DEF TypeOK
  <1>3. CASE Complete(rows[x]) /\ (Expired(rows[x], now) \/ Exhausted(rows[x]))
    BY <1>1, <1>2, <1>3 DEF Complete, Expired, Exhausted, SameTerms, Row, NoTime
  <1>4. CASE rows[x].createdAt <= Abandoned(at) /\ (Complete(rows[x]) => rows[x].completedAt >= at)
    BY <1>1, <1>2, <1>4, PolicyAssumption
    DEF Complete, Abandoned, SameTerms, Row, NoTime, PolicyAssumption
  <1> QED BY <1>3, <1>4 DEF DueSince

LEMMA CauseInit == Init => CauseInv
  <1> SUFFICES ASSUME Init PROVE CauseInv
    OBVIOUS
  <1>1. Listed = {}
    BY DEF Init, Listed, NoDel, Deleters
  <1> QED BY <1>1, InitType
    DEF Init, CauseInv, CountDerived, RowsDrawn, ListedDue, Exists

LEMMA CauseStep == CauseInv /\ [Next]_vars => CauseInv'
  <1> SUFFICES ASSUME CauseInv, [Next]_vars PROVE CauseInv'
    OBVIOUS
  <1> USE DEF CauseInv
  <1>1. TypeOK' /\ CountDerived' /\ RowsDrawn' /\ used \subseteq used'
    BY TypeStep, CountDerivedStep, RowsDrawnStep
  <1>2. ASSUME NEW x \in Listed'
        PROVE  /\ x \in used' /\ del'[Reaper].at <= now'
               /\ Exists(x)' => DueSince(rows[x], del[Reaper].at)'
    <2>1. x \in Ids
      BY <1>1 DEF Listed, TypeOK, Deleters, Del, Batching, NoDel
    <2>2. CASE x \in Listed /\ del'[Reaper].at = del[Reaper].at
      <3>1. x \in used /\ del[Reaper].at <= now
            /\ (Exists(x) => DueSince(rows[x], del[Reaper].at))
        BY <2>2 DEF ListedDue
      <3>2. ASSUME Exists(x)' PROVE Exists(x) /\ SameTerms(rows[x], rows'[x])
        BY <2>1, <3>1, <3>2, RowKeepsTerms
      <3>3. del[Reaper].at \in Nat
        BY DEF TypeOK, Deleters, Del, Batching, NoDel
      <3>4. del[Reaper].at <= now'
        BY <3>1, <3>3, ClockGrows DEF TypeOK
      <3>5. ASSUME Exists(x)' PROVE DueSince(rows[x], del[Reaper].at)'
        BY <2>1, <2>2, <3>1, <3>2, <3>3, <3>5, StaysDue DEF DueSince
      <3> QED BY <1>1, <2>2, <3>1, <3>4, <3>5
    <2>3. CASE x \in DeadIds /\ del'[Reaper].at = now /\ UNCHANGED <<rows, now, used>>
      <3>1. Exists(x) /\ x \in used /\ rows[x] \in Row
        BY <2>1, <2>3 DEF DeadIds, RowsDrawn, TypeOK, Exists
      <3>2. DueSince(rows[x], now)
        BY <2>3, <3>1 DEF DeadIds, Dead, DueSince, Expired, Exhausted, Row
      <3>3. now <= now
        BY DEF TypeOK
      <3> QED BY <2>3, <3>1, <3>2, <3>3 DEF DueSince
    <2> QED BY <1>2, <2>2, <2>3, ListedChange
  <1> QED BY <1>1, <1>2 DEF ListedDue

(* What the reaper has listed, it removes when it is due, or after it was  *)
(* completed late.                                                         *)
LEMMA ListedCause ==
  ASSUME CauseInv, NEW x \in Ids, Exists(x), del[Reaper].pc = "row", del[Reaper].id = x
  PROVE  x \in DeadIds \/ CompletedSince(x, del[Reaper].at)
  <1>1. rows[x] \in Row /\ now \in Nat \ {0}
    BY DEF CauseInv, TypeOK, Exists
  <1>2. PICK at \in Nat : at = del[Reaper].at
    BY DEF CauseInv, TypeOK, Deleters, Del, Batching, NoDel
  <1>3. at <= now /\ DueSince(rows[x], at)
    BY <1>2 DEF CauseInv, ListedDue, Listed
  <1>4. Dead(rows[x], now, Abandoned(now)) \/ CompletedSince(x, at)
    BY <1>1, <1>3, PolicyAssumption
    DEF DueSince, Dead, CompletedSince, Complete, Expired, Exhausted, Abandoned, Row, NoTime,
        PolicyAssumption
  <1> QED BY <1>2, <1>4 DEF DeadIds

(* A row is only ever removed by its owner's revocation or because it is   *)
(* expired, exhausted or unfinished for longer than an upload may be -     *)
(* although Reap works through a list that may be stale - or because it    *)
(* was listed as unfinished and has been completed since.                  *)
THEOREM RemovalCause == Spec => RemovedForCause
  <1> DEFINE Cause == \A id \in Ids : Exists(id) /\ ~Exists(id)'
                => \/ id \in DeadIds
                   \/ /\ del[Reaper].pc = "row" /\ del[Reaper].id = id
                      /\ CompletedSince(id, del[Reaper].at)
                   \/ \E d \in Revokers : del[d].pc = "row" /\ del[d].id = id
  <1>1. CauseInv /\ [Next]_vars => [Cause]_vars
    <2> SUFFICES ASSUME CauseInv, Next, NEW id \in Ids, Exists(id), ~Exists(id)'
                 PROVE  \/ id \in DeadIds
                        \/ /\ del[Reaper].pc = "row" /\ del[Reaper].id = id
                           /\ CompletedSince(id, del[Reaper].at)
                        \/ \E d \in Revokers : del[d].pc = "row" /\ del[d].id = id
      OBVIOUS
    <2> USE DEF CauseInv
    <2>1. ASSUME NEW x \in Ids, Inserts(x) PROVE FALSE
      <3>1. PICK size \in Nat, ttl \in Int, max \in Nat \cup {Absent} :
              rows' = [rows EXCEPT ![x] = NewRow(size, ttl, max, now)]
        BY <2>1 DEF Inserts
      <3>2. NewRow(size, ttl, max, now) \in Row
        BY NewRowType DEF TypeOK
      <3> QED BY <3>1, <3>2, LifecycleAssumption DEF Exists, TypeOK, LifecycleAssumption
    <2>2. ASSUME NEW x \in Ids, Completes(x) PROVE FALSE
      <3>1. [rows[x] EXCEPT !.completedAt = now] \in Row
        BY <2>2 DEF Completes, Pending, Exists, TypeOK, Row
      <3> QED BY <2>2, <3>1, LifecycleAssumption
        DEF Completes, Exists, TypeOK, LifecycleAssumption
    <2>3. ASSUME NEW x \in Ids, Accounts(x) PROVE FALSE
      <3>1. PICK n \in Nat : Exists(x) /\ rows' = [rows EXCEPT ![x] = Served(rows[x], n)]
        BY <2>3 DEF Accounts
      <3>2. Served(rows[x], n) \in Row
        BY <3>1, ServedType DEF Exists, TypeOK
      <3> QED BY <3>1, <3>2, LifecycleAssumption DEF Exists, TypeOK, LifecycleAssumption
    <2>4. PICK d \in Deleters : del[d].pc = "row" /\ del[d].id = id
      <3>1. PICK x \in Ids : Deletes(x)
        BY <2>1, <2>2, <2>3, RowsChange DEF Exists
      <3>2. x = id
        BY <3>1 DEF Deletes, Exists, TypeOK
      <3> QED BY <3>1, <3>2 DEF Deletes
    <2>5. CASE d = Reaper
      BY <2>4, <2>5, ListedCause
    <2>6. CASE d \in Revokers
      BY <2>4, <2>6
    <2> QED BY <2>5, <2>6 DEF Deleters
  <1> QED BY <1>1, CauseInit, CauseStep, PTL DEF Spec, RemovedForCause

-----------------------------------------------------------------------------
(* What an upload contains.                                                *)

(* A write request that goes on keeps its upload.                          *)
LEMMA WriterKeepsId ==
  ASSUME TypeOK, NEW w \in Writers, WriterRuns(w), NEW v \in Writers, req'[v].pc # "idle"
  PROVE  req[v].pc # "idle" /\ req'[v].id = req[v].id
  <1>1. req[w] \in Req
    BY ReqActive DEF WriterRuns, LoadKey, Length, OpenPartial, StatPartial, CopyBlock,
       EndChunk, FinishBlob, CompleteRow
  <1>2. CASE v # w
    BY <1>2 DEF WriterRuns, LoadKey, Length, OpenPartial, StatPartial, CopyBlock,
       EndChunk, FinishBlob, CompleteRow, ReqStep, ReqEnd, TypeOK
  <1>3. CASE v = w
    <2>1. req[w].pc # "idle"
      BY <1>1 DEF Req, ReqPC
    <2>2. ASSUME NEW pc \in ReqPC, ReqStep(w, pc) PROVE req'[w].id = req[w].id
      <3>1. req'[w] = [req[w] EXCEPT !.pc = pc]
        BY <2>2 DEF ReqStep, TypeOK
      <3> QED BY <1>1, <3>1 DEF Req
    <2>3. ~ReqEnd(w)
      BY <1>3 DEF ReqEnd, TypeOK, NoReq
    <2>5. CASE CopyBlock(w)
      BY <1>1, <2>5 DEF CopyBlock, TypeOK, Req
    <2>6. CASE OpenPartial(w)
      <3>1. PICK i : req' = [req EXCEPT ![w] = [req[w] EXCEPT !.pc = "stat", !.fd = i]]
        BY <2>3, <2>6 DEF OpenPartial
      <3>2. req'[w] = [req[w] EXCEPT !.pc = "stat", !.fd = i]
        BY <3>1 DEF TypeOK
      <3> QED BY <1>1, <1>3, <2>1, <3>2 DEF Req
    <2> QED BY <1>3, <2>1, <2>2, <2>3, <2>5, <2>6
      DEF WriterRuns, LoadKey, Length, StatPartial, EndChunk, FinishBlob, CompleteRow, ReqPC
  <1> QED BY <1>2, <1>3

(* A step that brings a write request to an upload found the row pending,  *)
(* or has just drawn the identifier.                                       *)
LEMMA WritersChange ==
  ASSUME TypeOK, [Next]_vars, NEW v \in Writers, req'[v].pc # "idle"
  PROVE  \/ req[v].pc # "idle" /\ req'[v].id = req[v].id
         \/ req'[v].id \in Ids /\ Pending(req'[v].id)
         \/ req'[v].id \notin used
  <1>1. CASE UNCHANGED req
    BY <1>1
  <1>2. ASSUME NEW w \in Writers, WriterRuns(w)
        PROVE  req[v].pc # "idle" /\ req'[v].id = req[v].id
    BY <1>2, WriterKeepsId
  <1>3. ASSUME NEW w \in Writers, NEW id \in Ids, NEW size \in Sizes, NEW ttl \in TTLs,
               NEW max \in Maxes, NEW body \in BOOLEAN, NewUpload(w, id, size, ttl, max, body)
        PROVE  (req[v].pc # "idle" /\ req'[v].id = req[v].id) \/ req'[v].id \notin used
    BY <1>3 DEF NewUpload, TypeOK, NoReq
  <1>4. ASSUME NEW w \in Writers, NEW id \in Ids, NEW off \in 0 .. MaxSize, GetUpload(w, id, off)
        PROVE  \/ req[v].pc # "idle" /\ req'[v].id = req[v].id
               \/ req'[v].id \in Ids /\ Pending(req'[v].id)
    BY <1>4 DEF GetUpload, TypeOK, NoReq
  <1>5. CASE Crash
    BY <1>5 DEF Crash, NoReq
  <1> QED BY <1>1, <1>2, <1>3, <1>4, <1>5
    DEF Next, vars, Requests, RevokeGet, Authenticate, DeleterRuns, DeleteRow, ForgetAttempts,
        RemoveFinal, RemovePartial, Checkpoint, RevokeReply, ReaperRuns, ReapList, ReapNext,
        ReapEnd, ReaderRuns, Allow, ForgetOnSuccess, OpenContent, Serve, RecordServed, Tick

(* An upload closed to writers stays closed.                               *)
LEMMA ClosedStep ==
  ASSUME TypeOK, [Next]_vars, NEW x \in Ids, Closed(x)
  PROVE  Closed(x)'
  <1>1. x \in used'
    BY RowsChange DEF Inserts, Completes, Deletes, Accounts, Closed
  <1>2. Exists(x)' => Complete(rows[x])'
    <2> SUFFICES ASSUME Exists(x)' PROVE Complete(rows'[x])
      OBVIOUS
    <2>1. CASE UNCHANGED rows
      BY <2>1 DEF Exists, Closed
    <2>2. ASSUME NEW id \in Ids, Inserts(id) PROVE Complete(rows'[x])
      BY <2>2 DEF Inserts, Exists, Closed, TypeOK
    <2>3. ASSUME NEW id \in Ids, Completes(id) PROVE Complete(rows'[x])
      BY <2>3 DEF Completes, Pending, Exists, Closed, TypeOK
    <2>4. ASSUME NEW id \in Ids, Deletes(id) PROVE Complete(rows'[x])
      BY <2>4 DEF Deletes, Exists, Closed, TypeOK
    <2>5. ASSUME NEW id \in Ids, Accounts(id) PROVE Complete(rows'[x])
      <3>1. PICK n \in Nat : Exists(id) /\ rows' = [rows EXCEPT ![id] = Served(rows[id], n)]
        BY <2>5 DEF Accounts
      <3>2. Served(rows[id], n).completedAt = rows[id].completedAt
        BY <3>1, ServedType DEF Exists, TypeOK
      <3> QED BY <3>1, <3>2 DEF Exists, Closed, Complete, TypeOK
    <2> QED BY <2>1, <2>2, <2>3, <2>4, <2>5, RowsChange
  <1>3. \A w \in Writers : ~Writing(w, x)'
    BY WritersChange DEF Closed, Writing, Pending
  <1> QED BY <1>1, <1>2, <1>3 DEF Closed

-----------------------------------------------------------------------------
(* Names and files.                                                        *)

(* The five calls on the file system that change something.                *)
LEMMA FilesChange ==
  ASSUME [Next]_vars
  PROVE  \/ UNCHANGED files
         \/ \E w \in Writers : OpenPartial(w) \/ CopyBlock(w) \/ FinishBlob(w)
         \/ \E d \in Deleters : RemoveFinal(d) \/ RemovePartial(d)
  <1>1. CASE Requests
    BY <1>1, ZenonT(40) DEF Requests, NewUpload, GetUpload, RevokeGet, Authenticate
  <1>2. ASSUME NEW w \in Writers, WriterRuns(w)
        PROVE  UNCHANGED files \/ OpenPartial(w) \/ CopyBlock(w) \/ FinishBlob(w)
    BY <1>2 DEF WriterRuns, LoadKey, Length, StatPartial, EndChunk, CompleteRow
  <1>3. ASSUME NEW d \in Deleters, DeleterRuns(d)
        PROVE  UNCHANGED files \/ RemoveFinal(d) \/ RemovePartial(d)
    BY <1>3 DEF DeleterRuns, DeleteRow, ForgetAttempts, Checkpoint
  <1>4. CASE ReaperRuns
    BY <1>3, <1>4 DEF ReaperRuns, ReapList, ReapNext, ReapEnd, Deleters
  <1>5. ASSUME NEW d \in Readers, ReaderRuns(d) PROVE UNCHANGED files
    BY <1>5 DEF ReaderRuns, Allow, ForgetOnSuccess, OpenContent, Serve, RecordServed
  <1>6. ASSUME NEW d \in Revokers, RevokeReply(d) PROVE UNCHANGED files
    BY <1>6 DEF RevokeReply
  <1>7. CASE Tick \/ Crash \/ UNCHANGED vars
    BY <1>7 DEF Tick, Crash, vars, files
  <1> QED BY <1>1, <1>2, <1>3, <1>4, <1>5, <1>6, <1>7 DEF Next, Deleters

(* A name appears only by a write request to its own upload.               *)
LEMMA NewNames ==
  ASSUME TypeOK, [Next]_vars, NEW x \in Ids, \A w \in Writers : ~Writing(w, x)
  PROVE  /\ partial'[x] \in {partial[x], NoFile}
         /\ final'[x] \in {final[x], NoFile}
  <1>1. CASE UNCHANGED files
    BY <1>1 DEF files
  <1>2. ASSUME NEW w \in Writers, OpenPartial(w) \/ CopyBlock(w) \/ FinishBlob(w)
        PROVE  partial'[x] = partial[x] /\ final'[x] = final[x]
    <2>1. req[w].id # x
      BY <1>2 DEF Writing, OpenPartial, CopyBlock, FinishBlob
    <2> QED BY <1>2, <2>1 DEF OpenPartial, CopyBlock, FinishBlob, files, TypeOK
  <1>3. ASSUME NEW d \in Deleters, RemoveFinal(d) \/ RemovePartial(d)
        PROVE  /\ partial'[x] \in {partial[x], NoFile}
               /\ final'[x] \in {final[x], NoFile}
    BY <1>3 DEF RemoveFinal, RemovePartial, TypeOK
  <1> QED BY <1>1, <1>2, <1>3, FilesChange

LEMMA FreshIdsStep ==
  ASSUME TypeOK, FreshIds, WriterInv, [Next]_vars
  PROVE  FreshIds'
  <1> SUFFICES ASSUME NEW x \in Ids, x \notin used'
               PROVE  rows'[x] = NoRow /\ partial'[x] = NoFile /\ final'[x] = NoFile
    BY DEF FreshIds, Exists
  <1>1. x \notin used
    BY RowsChange DEF Inserts, Completes, Deletes, Accounts
  <1>2. rows[x] = NoRow /\ partial[x] = NoFile /\ final[x] = NoFile
    BY <1>1 DEF FreshIds, Exists
  <1>3. \A w \in Writers : ~Writing(w, x)
    BY <1>1 DEF WriterInv, WriterOK, Writing
  <1>4. rows'[x] = NoRow
    BY <1>2, RowsChange DEF Inserts, Completes, Deletes, Accounts, Pending, Exists, TypeOK
  <1> QED BY <1>2, <1>3, <1>4, NewNames

(* Only a revocation's last step adds to revoked.                          *)
LEMMA RevokedChange ==
  ASSUME TypeOK, DeleterInv, [Next]_vars, NEW x \in revoked', x \notin revoked
  PROVE  x \in Ids /\ Closed(x) /\ ~Exists(x) /\ partial[x] = NoFile /\ final[x] = NoFile
  <1>1. PICK d \in Deleters : Checkpoint(d) /\ d # Reaper /\ x = del[d].id
    <2>1. ASSUME NEW d \in Deleters, DeleterRuns(d)
          PROVE  UNCHANGED revoked \/ (Checkpoint(d) /\ d # Reaper /\ revoked' = revoked \cup {del[d].id})
      BY <2>1 DEF DeleterRuns, DeleteRow, ForgetAttempts, RemoveFinal, RemovePartial, Checkpoint
    <2>2. CASE Requests
      BY <2>2 DEF Requests, NewUpload, GetUpload, RevokeGet, Authenticate
    <2>3. ASSUME NEW w \in Writers, WriterRuns(w) PROVE UNCHANGED revoked
      BY <2>3 DEF WriterRuns, LoadKey, Length, OpenPartial, StatPartial, CopyBlock, EndChunk,
         FinishBlob, CompleteRow
    <2>4. CASE ReaperRuns
      BY <2>1, <2>4 DEF ReaperRuns, ReapList, ReapNext, ReapEnd, Deleters
    <2>5. ASSUME NEW d \in Readers, ReaderRuns(d) PROVE UNCHANGED revoked
      BY <2>5 DEF ReaderRuns, Allow, ForgetOnSuccess, OpenContent, Serve, RecordServed
    <2>6. ASSUME NEW d \in Revokers, RevokeReply(d) PROVE UNCHANGED revoked
      BY <2>6 DEF RevokeReply
    <2>7. CASE Tick \/ Crash \/ UNCHANGED vars
      BY <2>7 DEF Tick, Crash, vars
    <2> QED BY <2>1, <2>2, <2>3, <2>4, <2>5, <2>6, <2>7 DEF Next, Deleters
  <1>2. d \in Revokers /\ del[d].pc = "checkpoint"
    BY <1>1 DEF Deleters, Checkpoint
  <1>3. del[d] \in Del
    BY <1>2 DEF TypeOK, NoDel
  <1> QED BY <1>1, <1>2, <1>3 DEF DeleterInv, DeleterOK, Del

LEMMA RevokedStep ==
  ASSUME TypeOK, DeleterInv, RevokedClosed, RevokedGone, [Next]_vars
  PROVE  RevokedClosed' /\ RevokedGone'
  <1> SUFFICES ASSUME NEW x \in revoked'
               PROVE  /\ Closed(x)'
                      /\ rows'[x] = NoRow /\ partial'[x] = NoFile /\ final'[x] = NoFile
    BY DEF RevokedClosed, RevokedGone, Exists
  <1>1. x \in Ids /\ Closed(x) /\ ~Exists(x) /\ partial[x] = NoFile /\ final[x] = NoFile
    BY RevokedChange DEF RevokedClosed, RevokedGone, TypeOK
  <1>2. Closed(x)'
    BY <1>1, ClosedStep
  <1>3. rows'[x] = NoRow
    BY <1>1, RowsChange
    DEF Closed, Inserts, Completes, Deletes, Accounts, Pending, Exists, TypeOK
  <1>4. partial'[x] = NoFile /\ final'[x] = NoFile
    BY <1>1, NewNames DEF Closed
  <1> QED BY <1>2, <1>3, <1>4

-----------------------------------------------------------------------------
(* Write requests.                                                         *)

(* Everything that starts, moves or ends a write request.                  *)
LEMMA ReqChange ==
  ASSUME [Next]_vars
  PROVE  \/ UNCHANGED req
         \/ \E w \in Writers : WriterRuns(w)
         \/ \E w \in Writers, id \in Ids, size \in Sizes, ttl \in TTLs, max \in Maxes,
               body \in BOOLEAN : NewUpload(w, id, size, ttl, max, body)
         \/ \E w \in Writers, id \in Ids, off \in 0 .. MaxSize :
              SendsAlone(id) /\ GetUpload(w, id, off)
         \/ Crash
  BY DEF Next, vars, Requests, RevokeGet, Authenticate, DeleterRuns, DeleteRow, ForgetAttempts,
         RemoveFinal, RemovePartial, Checkpoint, RevokeReply, ReaperRuns, ReapList, ReapNext,
         ReapEnd, ReaderRuns, Allow, ForgetOnSuccess, OpenContent, Serve, RecordServed, Tick

(* The one place where the client's good manners are needed.               *)
LEMMA OneWriterStep ==
  ASSUME Serial, TypeOK, OneWriter, WriterInv, [Next]_vars
  PROVE  OneWriter'
  <1> SUFFICES ASSUME NEW u \in Writers, NEW v \in Writers, u # v, req'[u].pc # "idle",
                      req'[v].pc # "idle", req'[u].id = req'[v].id
               PROVE  FALSE
    BY DEF OneWriter
  <1>1. CASE UNCHANGED req
    BY <1>1 DEF OneWriter
  <1>2. ASSUME NEW w \in Writers, WriterRuns(w) PROVE FALSE
    BY <1>2, WriterKeepsId DEF OneWriter
  <1>3. ASSUME NEW w \in Writers, NEW id \in Ids, NEW size \in Sizes, NEW ttl \in TTLs,
               NEW max \in Maxes, NEW body \in BOOLEAN, NewUpload(w, id, size, ttl, max, body)
        PROVE  FALSE
    <2>1. id \notin used /\ (req'[w].pc # "idle" => req'[w].id = id)
      BY <1>3 DEF NewUpload, TypeOK, NoReq
    <2>2. \A x \in Writers \ {w} : req'[x] = req[x] /\ (req[x].pc # "idle" => req[x].id \in used)
      BY <1>3 DEF NewUpload, TypeOK, WriterInv, WriterOK
    <2> QED BY <2>1, <2>2 DEF OneWriter
  <1>4. ASSUME NEW w \in Writers, NEW id \in Ids, NEW off \in 0 .. MaxSize,
               SendsAlone(id), GetUpload(w, id, off)
        PROVE  FALSE
    <2>1. req'[w].id = id /\ \A x \in Writers : ~Writing(x, id)
      BY <1>4 DEF SendsAlone, GetUpload, TypeOK, NoReq
    <2>2. \A x \in Writers \ {w} : req'[x] = req[x]
      BY <1>4 DEF GetUpload, TypeOK
    <2> QED BY <2>1, <2>2 DEF OneWriter, Writing
  <1>5. CASE Crash
    BY <1>5 DEF Crash, NoReq
  <1> QED BY <1>1, <1>2, <1>3, <1>4, <1>5, ReqChange

-----------------------------------------------------------------------------
(* Descriptors and names.                                                  *)

(* Nothing but OpenPartial gives a write request a descriptor.             *)
LEMMA WriterFd ==
  ASSUME TypeOK, [Next]_vars, NEW v \in Writers, ~OpenPartial(v)
  PROVE  req'[v].fd = NoFile \/ (req'[v].fd = req[v].fd /\ req'[v].id = req[v].id)
  <1>1. CASE UNCHANGED req
    BY <1>1
  <1>2. ASSUME NEW w \in Writers, WriterRuns(w)
        PROVE  req'[v].fd = NoFile \/ (req'[v].fd = req[v].fd /\ req'[v].id = req[v].id)
    <2>1. CASE v # w
      BY <1>2, <2>1 DEF WriterRuns, LoadKey, Length, OpenPartial, StatPartial, CopyBlock,
         EndChunk, FinishBlob, CompleteRow, ReqStep, ReqEnd, TypeOK
    <2>2. CASE v = w
      <3>1. req[v] \in Req
        BY <1>2, <2>2, ReqActive DEF WriterRuns, LoadKey, Length, OpenPartial, StatPartial,
           CopyBlock, EndChunk, FinishBlob, CompleteRow
      <3>2. ASSUME NEW pc \in ReqPC, ReqStep(v, pc)
            PROVE  req'[v].fd = req[v].fd /\ req'[v].id = req[v].id
        <4>1. req'[v] = [req[v] EXCEPT !.pc = pc]
          BY <3>2 DEF ReqStep, TypeOK
        <4> QED BY <3>1, <4>1 DEF Req
      <3>3. CASE ReqEnd(v)
        BY <3>3 DEF ReqEnd, TypeOK, NoReq
      <3>4. CASE CopyBlock(v)
        <4>1. req'[v] = [req[v] EXCEPT !.n = req[v].n + 1]
          BY <3>4 DEF CopyBlock, TypeOK
        <4> QED BY <3>1, <4>1 DEF Req
      <3> QED BY <1>2, <2>2, <3>2, <3>3, <3>4
        DEF WriterRuns, LoadKey, Length, StatPartial, EndChunk, FinishBlob, CompleteRow, ReqPC
    <2> QED BY <2>1, <2>2
  <1>3. ASSUME NEW w \in Writers, NEW id \in Ids, NEW size \in Sizes, NEW ttl \in TTLs,
               NEW max \in Maxes, NEW body \in BOOLEAN, NewUpload(w, id, size, ttl, max, body)
        PROVE  req'[v].fd = NoFile \/ (req'[v].fd = req[v].fd /\ req'[v].id = req[v].id)
    BY <1>3 DEF NewUpload, TypeOK, NoReq
  <1>4. ASSUME NEW w \in Writers, NEW id \in Ids, NEW off \in 0 .. MaxSize, GetUpload(w, id, off)
        PROVE  req'[v].fd = NoFile \/ (req'[v].fd = req[v].fd /\ req'[v].id = req[v].id)
    BY <1>4 DEF GetUpload, TypeOK, NoReq
  <1>5. CASE Crash
    BY <1>5 DEF Crash, NoReq
  <1> QED BY <1>1, <1>2, <1>3, <1>4, <1>5, ReqChange

(* Everything that starts, moves or ends a download.                       *)
LEMMA DlChange ==
  ASSUME [Next]_vars
  PROVE  \/ UNCHANGED dl
         \/ \E d \in Readers : ReaderRuns(d) \/ \E id \in Ids : Authenticate(d, id)
         \/ Crash
  BY ZenonT(40)
  DEF Next, vars, Requests, NewUpload, GetUpload, RevokeGet, DeleterRuns, DeleteRow,
      ForgetAttempts, RemoveFinal, RemovePartial, Checkpoint, RevokeReply, ReaperRuns,
      ReapList, ReapNext, ReapEnd, WriterRuns, LoadKey, Length, OpenPartial, StatPartial,
      CopyBlock, EndChunk, FinishBlob, CompleteRow, Tick

(* Nothing but OpenContent gives a download a descriptor.                  *)
LEMMA ReaderFd ==
  ASSUME TypeOK, [Next]_vars, NEW r \in Readers, ~OpenContent(r)
  PROVE  dl'[r].fd \in {dl[r].fd, NoFile}
  <1>1. CASE UNCHANGED dl
    BY <1>1
  <1>2. ASSUME NEW d \in Readers, ReaderRuns(d) PROVE dl'[r].fd \in {dl[r].fd, NoFile}
    <2>1. CASE r # d
      BY <1>2, <2>1 DEF ReaderRuns, Allow, ForgetOnSuccess, OpenContent, Serve, RecordServed,
         DlStep, DlEnd, TypeOK
    <2>2. CASE r = d
      <3>1. dl[r] \in Dl
        BY <1>2, <2>2, DlActive DEF ReaderRuns, Allow, ForgetOnSuccess, OpenContent, Serve,
           RecordServed
      <3>2. ASSUME NEW pc \in DlPC, DlStep(r, pc) PROVE dl'[r].fd = dl[r].fd
        <4>1. dl'[r] = [dl[r] EXCEPT !.pc = pc]
          BY <3>2 DEF DlStep, TypeOK
        <4> QED BY <3>1, <4>1 DEF Dl
      <3>3. CASE DlEnd(r)
        BY <3>3 DEF DlEnd, TypeOK, NoDl
      <3>4. ASSUME NEW n \in 0 .. Response(MaxSize), Serve(r, n) PROVE dl'[r].fd = dl[r].fd
        <4>1. dl'[r] = [dl[r] EXCEPT !.pc = "record", !.n = n]
          BY <3>4 DEF Serve, TypeOK
        <4> QED BY <3>1, <4>1 DEF Dl
      <3> QED BY <1>2, <2>2, <3>2, <3>3, <3>4
        DEF ReaderRuns, Allow, ForgetOnSuccess, RecordServed, DlPC
    <2> QED BY <2>1, <2>2
  <1>3. ASSUME NEW d \in Readers, NEW id \in Ids, Authenticate(d, id)
        PROVE  dl'[r].fd \in {dl[r].fd, NoFile}
    BY <1>3 DEF Authenticate, TypeOK, NoDl
  <1>4. CASE Crash
    BY <1>4 DEF Crash, NoDl
  <1> QED BY <1>1, <1>2, <1>3, <1>4, DlChange

(* Taking names and descriptors away keeps the rest apart.                 *)
LEMMA Fewer ==
  ASSUME InodesApart,
         \A x \in Ids : partial'[x] \in {partial[x], NoFile} /\ final'[x] \in {final[x], NoFile},
         \A w \in Writers : \/ req'[w].fd = NoFile
                            \/ req'[w].fd = req[w].fd /\ req'[w].id = req[w].id,
         \A d \in Readers : dl'[d].fd \in {dl[d].fd, NoFile}
  PROVE  InodesApart'
  BY DEF InodesApart

LEMMA OpenPartialApart ==
  ASSUME IInv, NEW w \in Writers, OpenPartial(w)
  PROVE  InodesApart'
  <1> DEFINE id == req[w].id
  <1>0. req[w] \in Req /\ id \in Ids /\ req[w].pc = "open"
    BY ReqActive DEF OpenPartial, IInv, Req
  <1>1. TypeOK /\ InodesApart /\ OneWriter /\ UNCHANGED dl
    BY DEF IInv, OpenPartial
  <1>2. \A v \in Writers : req[v].fd # NoFile => req[v].pc # "idle"
    BY DEF IInv, WriterInv, WriterOK
  <1>3. ASSUME NEW i, req' = [req EXCEPT ![w] = [req[w] EXCEPT !.pc = "stat", !.fd = i]]
        PROVE  req'[w].fd = i /\ req'[w].id = id /\ \A v \in Writers \ {w} : req'[v] = req[v]
    <2>1. req'[w] = [req[w] EXCEPT !.pc = "stat", !.fd = i]
      BY <1>1, <1>3 DEF TypeOK
    <2>2. \A v \in Writers \ {w} : req'[v] = req[v]
      BY <1>1, <1>3 DEF TypeOK
    <2> QED BY <1>0, <2>1, <2>2 DEF Req
  <1>4. CASE /\ partial[id] # NoFile /\ UNCHANGED files
             /\ req' = [req EXCEPT ![w] = [req[w] EXCEPT !.pc = "stat", !.fd = partial[id]]]
    <2>1. /\ req'[w].fd = partial[id] /\ req'[w].id = id
          /\ \A v \in Writers \ {w} : req'[v] = req[v]
      BY <1>3, <1>4
    <2>2. \A v \in Writers \ {w} : req[v].fd # partial[id]
      BY <1>0, <1>1, <1>2, <1>4 DEF InodesApart, OneWriter
    <2> QED BY <1>0, <1>1, <1>4, <2>1, <2>2 DEF InodesApart, files
  <1>5. ASSUME NEW i \in Inodes, Free(i), partial' = [partial EXCEPT ![id] = i], UNCHANGED final,
               req' = [req EXCEPT ![w] = [req[w] EXCEPT !.pc = "stat", !.fd = i]]
        PROVE  InodesApart'
    <2>1. /\ req'[w].fd = i /\ req'[w].id = id
          /\ \A v \in Writers \ {w} : req'[v] = req[v]
      BY <1>3, <1>5
    <2>2. /\ partial'[id] = i
          /\ \A x \in Ids \ {id} : partial'[x] = partial[x]
      BY <1>0, <1>1, <1>5 DEF TypeOK
    <2>3. i # NoFile
      BY LifecycleAssumption DEF LifecycleAssumption
    <2> HIDE DEF id
    <2> QED BY <1>0, <1>1, <1>5, <2>1, <2>2, <2>3 DEF InodesApart, Free
  <1>6. CASE ReqEnd(w) /\ UNCHANGED files
    <2>1. req'[w] = NoReq /\ \A v \in Writers \ {w} : req'[v] = req[v]
      BY <1>1, <1>6 DEF ReqEnd, TypeOK
    <2> QED BY <1>0, <1>1, <1>6, <2>1 DEF InodesApart, NoReq, files
  <1> QED BY <1>4, <1>5, <1>6 DEF OpenPartial

LEMMA InodesApartStep ==
  ASSUME IInv, [Next]_vars
  PROVE  InodesApart'
  <1>0. TypeOK /\ InodesApart
    BY DEF IInv
  <1>1. ASSUME NEW w \in Writers, OpenPartial(w) PROVE InodesApart'
    BY <1>1, OpenPartialApart
  <1>2. ASSUME NEW d \in Readers, OpenContent(d) PROVE InodesApart'
    <2>1. UNCHANGED <<partial, final, req>>
      BY <1>2 DEF OpenContent, files
    <2>2. dl[d] \in Dl /\ dl[d].id \in Ids /\ dl[d].pc = "open"
      BY <1>0, <1>2, DlActive DEF OpenContent, Dl
    <2>3. \A e \in Readers \ {d} : dl'[e] = dl[e]
      BY <1>0, <1>2 DEF OpenContent, DlEnd, TypeOK
    <2>4. dl'[d].fd \in {NoFile, final[dl[d].id]}
      <3>1. CASE DlEnd(d)
        BY <1>0, <3>1 DEF DlEnd, TypeOK, NoDl
      <3>2. CASE dl' = [dl EXCEPT ![d] = [dl[d] EXCEPT !.pc = "serve", !.fd = final[dl[d].id]]]
        <4>1. dl'[d] = [dl[d] EXCEPT !.pc = "serve", !.fd = final[dl[d].id]]
          BY <1>0, <3>2 DEF TypeOK
        <4> QED BY <2>2, <4>1 DEF Dl
      <3> QED BY <1>2, <3>1, <3>2 DEF OpenContent
    <2>5. \A w \in Writers : ~Writing(w, dl[d].id)
      BY <2>2 DEF IInv, ReaderInv, ReaderOK, Closed
    <2>6. \A w \in Writers : req[w].fd # NoFile => req[w].fd # final[dl[d].id]
      BY <1>0, <2>2, <2>5 DEF IInv, WriterInv, WriterOK, InodesApart, Writing
    <2> QED BY <1>0, <2>1, <2>2, <2>3, <2>4, <2>6 DEF InodesApart
  <1>3. ASSUME NEW w \in Writers, FinishBlob(w), partial[req[w].id] # NoFile,
               final' = [final EXCEPT ![req[w].id] = partial[req[w].id]],
               partial' = [partial EXCEPT ![req[w].id] = NoFile], ReqStep(w, "complete")
        PROVE  InodesApart'
    <2> DEFINE id == req[w].id
    <2>1. req[w] \in Req /\ id \in Ids
      BY <1>0, <1>3, ReqActive DEF FinishBlob, Req
    <2>2. /\ final'[id] = partial[id] /\ partial'[id] = NoFile
          /\ \A x \in Ids \ {id} : final'[x] = final[x] /\ partial'[x] = partial[x]
      BY <1>0, <1>3, <2>1 DEF TypeOK
    <2>3. \A v \in Writers : req'[v].fd = req[v].fd /\ req'[v].id = req[v].id
      <3>1. req'[w] = [req[w] EXCEPT !.pc = "complete"] /\ \A v \in Writers \ {w} : req'[v] = req[v]
        BY <1>0, <1>3 DEF ReqStep, TypeOK
      <3> QED BY <2>1, <3>1 DEF Req
    <2>4. UNCHANGED dl
      BY <1>3 DEF FinishBlob
    <2> HIDE DEF id
    <2> QED BY <1>0, <1>3, <2>1, <2>2, <2>3, <2>4 DEF InodesApart
  <1>4. ASSUME \A w \in Writers : ~OpenPartial(w), \A d \in Readers : ~OpenContent(d),
               \A x \in Ids : partial'[x] \in {partial[x], NoFile} /\ final'[x] \in {final[x], NoFile}
        PROVE  InodesApart'
    BY <1>0, <1>4, WriterFd, ReaderFd, Fewer
  <1>5. \/ \E w \in Writers : OpenPartial(w)
        \/ \E w \in Writers : /\ FinishBlob(w) /\ partial[req[w].id] # NoFile
                              /\ final' = [final EXCEPT ![req[w].id] = partial[req[w].id]]
                              /\ partial' = [partial EXCEPT ![req[w].id] = NoFile]
                              /\ ReqStep(w, "complete")
        \/ \A x \in Ids : partial'[x] \in {partial[x], NoFile} /\ final'[x] \in {final[x], NoFile}
    BY <1>0, FilesChange DEF FinishBlob, CopyBlock, RemoveFinal, RemovePartial, files, TypeOK
  <1> QED BY <1>1, <1>2, <1>3, <1>4, <1>5

-----------------------------------------------------------------------------
(* What a write request knows survives the steps of others.                *)

SameRow(id) == Exists(id)' =>
  /\ Exists(id)
  /\ rows'[id].size = rows[id].size /\ rows'[id].completedAt = rows[id].completedAt

SameFiles(id) ==
  /\ partial'[id] = partial[id] /\ final'[id] = final[id]
  /\ \A i \in {partial[id], final[id]} \ {NoFile} : disk'[i] = disk[i]

LEMMA WriterFrame ==
  ASSUME NEW v \in Writers, TypeOK, WriterOK(v), req'[v] = req[v], used \subseteq used',
         req[v].pc # "idle" => /\ SameRow(req[v].id)
                               /\ Exists(req[v].id)' => SameFiles(req[v].id),
         req[v].fd # NoFile => disk'[req[v].fd] = disk[req[v].fd]
  PROVE  WriterOK(v)'
  <1>1. NoFile \notin Inodes
    BY LifecycleAssumption DEF LifecycleAssumption
  <1>2. CASE req[v].pc = "idle"
    BY <1>2 DEF WriterOK
  <1>3. CASE req[v].pc # "idle"
    <2> DEFINE id == req[v].id
    <2>1. req[v] \in Req /\ id \in Ids
      BY <1>3, ReqActive DEF Req
    <2>2. SameRow(id) /\ (Exists(id)' => SameFiles(id))
      BY <1>3
    <2>3. Exists(id)' => Exists(id) /\ Pending(id)' /\ rows'[id].size = req[v].size
      BY <1>3, <2>2 DEF WriterOK, SameRow, Pending, Complete
    <2>4. Exists(id)' => /\ partial'[id] = partial[id] /\ final'[id] = final[id]
                         /\ partial[id] # NoFile => disk'[partial[id]] = disk[partial[id]]
                         /\ final[id] # NoFile => disk'[final[id]] = disk[final[id]]
      BY <2>2 DEF SameFiles
    <2>5. req[v].pc = "copy" => disk'[req[v].fd].len = req[v].off + req[v].n
      BY <1>1 DEF WriterOK
    <2>6. req'[v] = req[v] /\ id \in used'
      BY <1>3 DEF WriterOK
    <2>7. /\ req[v].pc \in {"stat", "copy"} /\ Exists(id)' => partial'[id] = req[v].fd
          /\ req[v].pc = "finish" /\ Exists(id)' /\ partial'[id] # NoFile =>
                partial'[id] \in Inodes /\ disk'[partial'[id]].len = req[v].size
          /\ req[v].pc = "complete" /\ Exists(id)' =>
                final'[id] \in Inodes /\ disk'[final'[id]].len = req[v].size
      BY <1>1, <2>3, <2>4 DEF WriterOK, Whole
    <2>8. /\ req[v].pc \in {"idle", "key", "length", "open"} => req[v].fd = NoFile
          /\ req[v].pc \in {"key", "length", "open", "stat"} => req[v].n = 0
          /\ req[v].pc \in {"stat", "copy"} => req[v].fd \in Inodes
          /\ req[v].off + req[v].n <= req[v].size
      BY <1>3 DEF WriterOK
    <2> QED BY <1>3, <2>3, <2>5, <2>6, <2>7, <2>8 DEF WriterOK, Whole
  <1> QED BY <1>2, <1>3

(* What a write request knows after a step of its own.                     *)
LEMMA WriterOwnStep ==
  ASSUME IInv, NEW w \in Writers, WriterRuns(w)
  PROVE  WriterOK(w)'
  <1>0. TypeOK /\ WriterOK(w)
    BY DEF IInv, WriterInv
  <1>a. req[w] \in Req /\ req[w].id \in Ids /\ req[w].pc # "idle"
    BY <1>0, ReqActive DEF WriterRuns, LoadKey, Length, OpenPartial, StatPartial, CopyBlock,
       EndChunk, FinishBlob, CompleteRow, Req, ReqPC
  <1>b. NoFile \notin Inodes
    BY LifecycleAssumption DEF LifecycleAssumption
  <1>c. CASE ReqEnd(w)
    <2>1. req'[w] = NoReq
      BY <1>0, <1>c DEF ReqEnd, TypeOK
    <2> QED BY <2>1 DEF WriterOK, NoReq
  <1>d. ASSUME NEW pc \in ReqPC, ReqStep(w, pc)
        PROVE  /\ req'[w].pc = pc /\ req'[w].id = req[w].id /\ req'[w].off = req[w].off
               /\ req'[w].n = req[w].n /\ req'[w].size = req[w].size /\ req'[w].fd = req[w].fd
    <2>1. req'[w] = [req[w] EXCEPT !.pc = pc]
      BY <1>0, <1>d DEF ReqStep, TypeOK
    <2> QED BY <1>a, <2>1 DEF Req
  <1>1. CASE LoadKey(w)
    <2>1. CASE ReqStep(w, "open")
      BY <1>0, <1>1, <1>a, <1>d, <2>1
      DEF LoadKey, WriterOK, ReqPC, Exists, Pending, table, env
    <2> QED BY <1>1, <1>c, <2>1 DEF LoadKey
  <1>2. CASE Length(w)
    <2>1. CASE ReqStep(w, "open")
      BY <1>0, <1>2, <1>a, <1>d, <2>1
      DEF Length, WriterOK, ReqPC, Exists, Pending, table, env
    <2> QED BY <1>2, <1>c, <2>1 DEF Length
  <1>3. CASE OpenPartial(w) /\ ~ReqEnd(w)
    <2>1. PICK i \in Inodes : /\ req' = [req EXCEPT ![w] = [req[w] EXCEPT !.pc = "stat", !.fd = i]]
                             /\ partial'[req[w].id] = i
      BY <1>0, <1>3, <1>a DEF OpenPartial, TypeOK, files
    <2>2. req'[w] = [req[w] EXCEPT !.pc = "stat", !.fd = i]
      BY <1>0, <2>1 DEF TypeOK
    <2>3. /\ req'[w].pc = "stat" /\ req'[w].id = req[w].id /\ req'[w].off = req[w].off
          /\ req'[w].n = req[w].n /\ req'[w].size = req[w].size /\ req'[w].fd = i
      BY <1>a, <2>2 DEF Req
    <2>4. req[w].pc = "open" /\ UNCHANGED <<rows, used>>
      BY <1>3 DEF OpenPartial, table, env
    <2> QED BY <1>0, <2>1, <2>3, <2>4 DEF WriterOK, Exists, Pending
  <1>4. CASE StatPartial(w)
    <2>1. CASE ReqStep(w, "copy") /\ disk[req[w].fd].len = req[w].off
      <3>1. /\ req'[w].pc = "copy" /\ req'[w].id = req[w].id /\ req'[w].off = req[w].off
            /\ req'[w].n = 0 /\ req'[w].size = req[w].size /\ req'[w].fd = req[w].fd
        BY <1>0, <1>4, <1>d, <2>1 DEF ReqPC, WriterOK, StatPartial
      <3>2. req[w].off \in Nat
        BY <1>a DEF Req
      <3> QED BY <1>0, <1>4, <2>1, <3>1, <3>2
        DEF StatPartial, WriterOK, Exists, Pending, table, env, files
    <2> QED BY <1>4, <1>c, <2>1 DEF StatPartial
  <1>5. CASE CopyBlock(w)
    <2> DEFINE p == req[w].off + req[w].n
    <2>1. req'[w] = [req[w] EXCEPT !.n = req[w].n + 1]
      BY <1>0, <1>5 DEF CopyBlock, TypeOK
    <2>2. /\ req'[w].pc = "copy" /\ req'[w].id = req[w].id /\ req'[w].off = req[w].off
          /\ req'[w].n = req[w].n + 1 /\ req'[w].size = req[w].size /\ req'[w].fd = req[w].fd
      BY <1>5, <1>a, <2>1 DEF Req, CopyBlock
    <2>3. p \in Nat /\ p < req[w].size /\ req'[w].off + req'[w].n = p + 1 /\ req[w].size \in Nat
      BY <1>5, <1>a, <2>2 DEF Req, CopyBlock
    <2>4. req[w].fd \in Inodes /\ disk[req[w].fd].len = p
      BY <1>0, <1>5 DEF CopyBlock, WriterOK
    <2>5. disk'[req[w].fd].len = p + 1
      BY <1>0, <1>5, <2>3, <2>4 DEF CopyBlock, TypeOK
    <2> HIDE DEF p
    <2> QED BY <1>0, <1>5, <2>2, <2>3, <2>4, <2>5
      DEF CopyBlock, WriterOK, Exists, Pending, table, env
  <1>6. CASE EndChunk(w)
    <2>1. CASE ReqStep(w, "finish") /\ req[w].off + req[w].n = req[w].size
      BY <1>0, <1>6, <1>d, <2>1
      DEF EndChunk, WriterOK, ReqPC, Exists, Pending, Whole, table, env, files
    <2> QED BY <1>6, <1>c, <2>1 DEF EndChunk
  <1>7. CASE FinishBlob(w)
    <2>1. CASE /\ partial[req[w].id] # NoFile /\ ReqStep(w, "complete") /\ UNCHANGED disk
               /\ final' = [final EXCEPT ![req[w].id] = partial[req[w].id]]
      <3>1. final'[req[w].id] = partial[req[w].id]
        BY <1>0, <1>a, <2>1 DEF TypeOK
      <3> QED BY <1>0, <1>7, <1>d, <2>1, <3>1
        DEF FinishBlob, WriterOK, ReqPC, Exists, Pending, Whole, table, env
    <2> QED BY <1>7, <1>c, <2>1 DEF FinishBlob
  <1>8. CASE CompleteRow(w)
    BY <1>8, <1>c DEF CompleteRow
  <1> QED BY <1>c, <1>1, <1>2, <1>3, <1>4, <1>5, <1>6, <1>7, <1>8 DEF WriterRuns

(* Two requests of different uploads do not share a file.                  *)
LEMMA OthersFiles ==
  ASSUME IInv, NEW v \in Writers, NEW w \in Writers, v # w, req[v].pc # "idle", WriterRuns(w)
  PROVE  /\ req'[v] = req[v] /\ req[v].id # req[w].id
         /\ partial'[req[v].id] = partial[req[v].id] /\ final'[req[v].id] = final[req[v].id]
         /\ \A i \in {partial[req[v].id], final[req[v].id], req[v].fd} \ {NoFile} :
               disk'[i] = disk[i]
  <1>0. TypeOK /\ InodesApart /\ OneWriter /\ WriterOK(w)
    BY DEF IInv, WriterInv
  <1>1. /\ req[w] \in Req /\ req[w].id \in Ids /\ req[w].pc # "idle"
        /\ req[v] \in Req /\ req[v].id \in Ids
    BY <1>0, ReqActive DEF WriterRuns, LoadKey, Length, OpenPartial, StatPartial, CopyBlock,
       EndChunk, FinishBlob, CompleteRow, Req, ReqPC
  <1>2. req'[v] = req[v]
    BY <1>0 DEF WriterRuns, LoadKey, Length, OpenPartial, StatPartial, CopyBlock,
       EndChunk, FinishBlob, CompleteRow, ReqStep, ReqEnd, TypeOK
  <1>3. req[v].id # req[w].id
    BY <1>0, <1>1 DEF OneWriter
  <1>4. partial'[req[v].id] = partial[req[v].id] /\ final'[req[v].id] = final[req[v].id]
    BY <1>0, <1>1, <1>3 DEF WriterRuns, LoadKey, Length, OpenPartial, StatPartial, CopyBlock,
       EndChunk, FinishBlob, CompleteRow, TypeOK, files
  <1>5. ASSUME NEW i \in {partial[req[v].id], final[req[v].id], req[v].fd} \ {NoFile}
        PROVE  disk'[i] = disk[i]
    <2>0. i \in Inodes
      BY <1>0, <1>1 DEF TypeOK, Req
    <2>1. CASE CopyBlock(w)
      <3>1. req[w].fd \in Inodes /\ req[w].fd # NoFile
        BY <1>0, <2>1, LifecycleAssumption DEF CopyBlock, WriterOK, LifecycleAssumption
      <3>2. i # req[w].fd
        BY <1>0, <1>1, <1>3, <1>5, <3>1 DEF InodesApart
      <3> QED BY <1>0, <2>0, <2>1, <3>2 DEF CopyBlock, TypeOK
    <2>2. CASE OpenPartial(w)
      <3>1. ~Free(i)
        BY <1>1, <1>5 DEF Free
      <3> QED BY <1>0, <2>0, <2>2, <3>1 DEF OpenPartial, TypeOK, files
    <2>3. CASE ~CopyBlock(w) /\ ~OpenPartial(w)
      BY <2>3 DEF WriterRuns, LoadKey, Length, StatPartial, EndChunk, FinishBlob, CompleteRow, files
    <2> QED BY <2>1, <2>2, <2>3
  <1> QED BY <1>2, <1>3, <1>4, <1>5

(* What a fresh request knows.                                             *)
LEMMA WriterStarts ==
  ASSUME IInv, NEW w \in Writers, NEW id \in Ids,
         \/ \E size \in Sizes, ttl \in TTLs, max \in Maxes, body \in BOOLEAN :
               NewUpload(w, id, size, ttl, max, body)
         \/ \E off \in 0 .. MaxSize : GetUpload(w, id, off)
  PROVE  WriterOK(w)'
  <1>0. TypeOK /\ FreshIds
    BY DEF IInv
  <1>1. ASSUME NEW size \in Sizes, NEW ttl \in TTLs, NEW max \in Maxes, NEW body \in BOOLEAN,
               NewUpload(w, id, size, ttl, max, body)
        PROVE  WriterOK(w)'
    <2>1. NewRow(size, ttl, max, now) \in Row /\ size \in Nat
      BY <1>0, NewRowType, LifecycleAssumption DEF TypeOK, LifecycleAssumption
    <2>2. /\ rows'[id] = NewRow(size, ttl, max, now) /\ rows'[id] # NoRow
          /\ rows'[id].size = size /\ rows'[id].completedAt = NoTime
      BY <1>0, <1>1, <2>1, LifecycleAssumption DEF NewUpload, TypeOK, NewRow, LifecycleAssumption
    <2>3. id \in used' /\ partial'[id] = NoFile
      BY <1>0, <1>1 DEF NewUpload, FreshIds, files
    <2>4. CASE ~(body \/ size = 0)
      <3>1. req'[w] = NoReq
        BY <1>0, <1>1, <2>4 DEF NewUpload, TypeOK
      <3> QED BY <3>1 DEF WriterOK, NoReq
    <2>5. CASE body \/ size = 0
      <3>1. /\ req'[w].pc \in {"key", "finish"} /\ req'[w].id = id /\ req'[w].off = 0
            /\ req'[w].n = 0 /\ req'[w].size = size /\ req'[w].fd = NoFile
        BY <1>0, <1>1, <2>5 DEF NewUpload, TypeOK, NoReq
      <3> QED BY <2>1, <2>2, <2>3, <3>1 DEF WriterOK, Exists, Pending, Complete
    <2> QED BY <2>4, <2>5
  <1>2. ASSUME NEW off \in 0 .. MaxSize, GetUpload(w, id, off) PROVE WriterOK(w)'
    <2>1. /\ req'[w].pc = "length" /\ req'[w].id = id /\ req'[w].off = off
          /\ req'[w].n = 0 /\ req'[w].size = rows[id].size /\ req'[w].fd = NoFile
      BY <1>0, <1>2 DEF GetUpload, TypeOK, NoReq
    <2>2. Pending(id) /\ off \in 0 .. rows[id].size /\ UNCHANGED <<rows, used>>
      BY <1>2 DEF GetUpload, table, env
    <2>4. rows[id].size \in Nat
      BY <1>0, <2>2 DEF Pending, Exists, TypeOK, Row
    <2>3. id \in used
      BY <1>0, <2>2 DEF FreshIds, Pending
    <2> QED BY <2>1, <2>2, <2>3, <2>4 DEF WriterOK, Exists, Pending
  <1> QED BY <1>1, <1>2

LEMMA WriterInvStep ==
  ASSUME IInv, [Next]_vars
  PROVE  WriterInv'
  <1>0. TypeOK /\ FreshIds /\ WriterInv /\ DeleterInv
    BY DEF IInv
  <1> SUFFICES ASSUME NEW v \in Writers PROVE WriterOK(v)'
    BY DEF WriterInv
  <1>a. WriterOK(v)
    BY <1>0 DEF WriterInv
  <1>b. req[v].pc # "idle" => req[v] \in Req /\ req[v].id \in Ids /\ req[v].id \in used
    BY <1>0, <1>a, ReqActive DEF Req, WriterOK
  <1>1. CASE UNCHANGED <<rows, used, files, req>>
    BY <1>0, <1>1, <1>a, WriterFrame DEF SameRow, SameFiles, Exists, files
  <1>2. ASSUME NEW w \in Writers, WriterRuns(w) PROVE WriterOK(v)'
    <2>1. CASE v = w
      BY <1>2, <2>1, WriterOwnStep
    <2>2. CASE v # w /\ req[v].pc # "idle"
      <3>1. /\ req'[v] = req[v] /\ req[v].id # req[w].id
            /\ partial'[req[v].id] = partial[req[v].id] /\ final'[req[v].id] = final[req[v].id]
            /\ \A i \in {partial[req[v].id], final[req[v].id], req[v].fd} \ {NoFile} :
                  disk'[i] = disk[i]
        BY <1>2, <2>2, OthersFiles
      <3>2. rows'[req[v].id] = rows[req[v].id] /\ used' = used
        BY <1>0, <1>2, <1>b, <2>2, <3>1 DEF WriterRuns, LoadKey, Length, OpenPartial, StatPartial,
           CopyBlock, EndChunk, FinishBlob, CompleteRow, table, env, TypeOK
      <3> QED BY <1>0, <1>a, <2>2, <3>1, <3>2, WriterFrame DEF SameRow, SameFiles, Exists
    <2>3. CASE v # w /\ req[v].pc = "idle"
      <3>1. req'[v] = req[v]
        BY <1>0, <1>2, <2>3 DEF WriterRuns, LoadKey, Length, OpenPartial, StatPartial, CopyBlock,
           EndChunk, FinishBlob, CompleteRow, ReqStep, ReqEnd, TypeOK
      <3> QED BY <1>a, <2>3, <3>1 DEF WriterOK
    <2> QED BY <2>1, <2>2, <2>3
  <1>3. ASSUME NEW w \in Writers, NEW id \in Ids, NEW size \in Sizes, NEW ttl \in TTLs,
               NEW max \in Maxes, NEW body \in BOOLEAN, NewUpload(w, id, size, ttl, max, body)
        PROVE  WriterOK(v)'
    <2>1. CASE v = w
      BY <1>3, <2>1, WriterStarts
    <2>2. CASE v # w
      <3>1. req'[v] = req[v] /\ used \subseteq used' /\ UNCHANGED files
        BY <1>0, <1>3, <2>2 DEF NewUpload, TypeOK
      <3>2. req[v].pc # "idle" => rows'[req[v].id] = rows[req[v].id]
        BY <1>0, <1>3, <1>b DEF NewUpload, TypeOK
      <3> QED BY <1>0, <1>a, <3>1, <3>2, WriterFrame DEF SameRow, SameFiles, Exists, files
    <2> QED BY <2>1, <2>2
  <1>4. ASSUME NEW w \in Writers, NEW id \in Ids, NEW off \in 0 .. MaxSize, GetUpload(w, id, off)
        PROVE  WriterOK(v)'
    <2>1. CASE v = w
      BY <1>4, <2>1, WriterStarts
    <2>2. CASE v # w
      <3>1. req'[v] = req[v] /\ UNCHANGED <<rows, used, files>>
        BY <1>0, <1>4, <2>2 DEF GetUpload, TypeOK, table, env
      <3> QED BY <1>0, <1>a, <3>1, WriterFrame DEF SameRow, SameFiles, Exists, files
    <2> QED BY <2>1, <2>2
  <1>5. CASE Crash
    BY <1>5 DEF Crash, WriterOK, NoReq
  <1>6. ASSUME NEW d \in Deleters, DeleteRow(d) PROVE WriterOK(v)'
    <2>1. UNCHANGED <<used, files, req>>
      BY <1>6 DEF DeleteRow, env
    <2>2. \A x \in Ids : rows'[x] \in {rows[x], NoRow}
      BY <1>0, <1>6 DEF DeleteRow, TypeOK, table
    <2> QED BY <1>0, <1>a, <1>b, <2>1, <2>2, WriterFrame DEF SameRow, SameFiles, Exists, files
  <1>7. ASSUME NEW d \in Deleters, RemoveFinal(d) \/ RemovePartial(d) PROVE WriterOK(v)'
    <2>1. UNCHANGED <<rows, used, disk, req>>
      BY <1>7 DEF RemoveFinal, RemovePartial, table, env
    <2>2. \A x \in Ids : Exists(x) => partial'[x] = partial[x] /\ final'[x] = final[x]
      <3>1. ~Exists(del[d].id)
        BY <1>0, <1>7 DEF RemoveFinal, RemovePartial, DeleterInv, DeleterOK
      <3> QED BY <1>0, <1>7, <3>1 DEF RemoveFinal, RemovePartial, TypeOK
    <2> QED BY <1>0, <1>a, <1>b, <2>1, <2>2, WriterFrame DEF SameRow, SameFiles, Exists
  <1>8. ASSUME NEW d \in Readers, RecordServed(d) PROVE WriterOK(v)'
    <2>1. UNCHANGED <<used, files, req>>
      BY <1>8 DEF RecordServed, env
    <2>2. dl[d].id \in Ids /\ dl[d].n \in Nat
      BY <1>0, <1>8, DlActive DEF RecordServed, Dl
    <2>3. \A x \in Ids : rows'[x] # NoRow => /\ rows[x] # NoRow
                          /\ rows'[x].size = rows[x].size /\ rows'[x].completedAt = rows[x].completedAt
      <3>1. CASE UNCHANGED rows
        BY <3>1
      <3>2. CASE Exists(dl[d].id) /\ rows' = [rows EXCEPT ![dl[d].id] = Served(rows[dl[d].id], dl[d].n)]
        <4>1. rows[dl[d].id] \in Row
          BY <1>0, <2>2, <3>2 DEF Exists, TypeOK
        <4> QED BY <1>0, <2>2, <3>2, <4>1, ServedType DEF Exists, TypeOK
      <3> QED BY <1>8, <3>1, <3>2 DEF RecordServed
    <2> QED BY <1>0, <1>a, <1>b, <2>1, <2>3, WriterFrame DEF SameRow, SameFiles, Exists, files
  <1>9. \/ UNCHANGED <<rows, used, files, req>>
        \/ \E w \in Writers : WriterRuns(w)
        \/ \E w \in Writers, id \in Ids, size \in Sizes, ttl \in TTLs, max \in Maxes,
              body \in BOOLEAN : NewUpload(w, id, size, ttl, max, body)
        \/ \E w \in Writers, id \in Ids, off \in 0 .. MaxSize :
              SendsAlone(id) /\ GetUpload(w, id, off)
        \/ Crash
        \/ \E d \in Deleters : DeleteRow(d) \/ RemoveFinal(d) \/ RemovePartial(d)
        \/ \E d \in Readers : RecordServed(d)
    BY DEF Next, vars, Requests, RevokeGet, Authenticate, DeleterRuns, ForgetAttempts, Checkpoint,
       RevokeReply, ReaperRuns, ReapList, ReapNext, ReapEnd, ReaderRuns, Allow, ForgetOnSuccess,
       OpenContent, Serve, Tick, table, env, files, Deleters
  <1> QED BY <1>1, <1>2, <1>3, <1>4, <1>5, <1>6, <1>7, <1>8, <1>9

-----------------------------------------------------------------------------
(* Deletions.                                                              *)

(* Everything that starts, moves or ends a deletion.                       *)
LEMMA DelChange ==
  ASSUME [Next]_vars
  PROVE  \/ UNCHANGED del
         \/ \E d \in Deleters : DeleterRuns(d)
         \/ \E d \in Revokers : RevokeReply(d) \/ \E id \in Ids : RevokeGet(d, id)
         \/ (\E batch \in SUBSET Ids : ReapList(batch)) \/ (\E id \in Ids : ReapNext(id)) \/ ReapEnd
         \/ Crash
  BY ZenonT(40)
  DEF Next, vars, Requests, NewUpload, GetUpload, Authenticate, WriterRuns, LoadKey, Length,
      OpenPartial, StatPartial, CopyBlock, EndChunk, FinishBlob, CompleteRow, ReaperRuns,
      ReaderRuns, Allow, ForgetOnSuccess, OpenContent, Serve, RecordServed, Tick, Deleters

(* A drawn identifier whose row is gone stays without one.                 *)
LEMMA GoneStays ==
  ASSUME TypeOK, [Next]_vars, NEW x \in Ids, x \in used, ~Exists(x)
  PROVE  x \in used' /\ ~Exists(x)'
  BY RowsChange DEF Inserts, Completes, Deletes, Accounts, Pending, Exists, TypeOK

(* What a deletion knows survives the steps of others.                     *)
LEMMA DeleterFrame ==
  ASSUME IInv, [Next]_vars, NEW e \in Deleters, del'[e] = del[e]
  PROVE  DeleterOK(e)'
  <1>0. TypeOK /\ DeleterOK(e)
    BY DEF IInv, DeleterInv
  <1>1. del[e].batch \subseteq used'
    BY <1>0, RowsChange DEF DeleterOK, Inserts, Completes, Deletes, Accounts
  <1>2. CASE del[e].pc \in {"idle", "next", "reply"} \/ (e = Reaper /\ del[e].pc = "checkpoint")
    BY <1>1, <1>2 DEF DeleterOK
  <1>3. CASE ~(del[e].pc \in {"idle", "next", "reply"} \/ (e = Reaper /\ del[e].pc = "checkpoint"))
    <2>1. del[e] \in Del /\ del[e].id \in Ids
      <3>1. CASE e = Reaper
        BY <1>0, <1>3, <3>1 DEF TypeOK, Del, Batching, NoDel
      <3>2. CASE e # Reaper
        BY <1>0, <1>3, <3>2 DEF TypeOK, Del, NoDel, Deleters
      <3> QED BY <3>1, <3>2
    <2>2. PICK x \in Ids : x = del[e].id
      BY <2>1
    <2>3. x \in used => x \in used'
      BY <1>0, RowsChange DEF Inserts, Completes, Deletes, Accounts
    <2>4. x \in used /\ ~Exists(x) => ~Exists(x)'
      BY <1>0, GoneStays
    <2>5. Closed(x) => Closed(x)'
      BY <1>0, ClosedStep
    <2>6. Closed(x) /\ final[x] = NoFile => final'[x] = NoFile
      BY <1>0, NewNames DEF Closed
    <2>7. Closed(x) /\ partial[x] = NoFile => partial'[x] = NoFile
      BY <1>0, NewNames DEF Closed
    <2>8. /\ del[e].pc = "row" => x \in used
          /\ del[e].pc \in {"forget", "final", "partial"} => x \in used /\ ~Exists(x)
          /\ e # Reaper => Closed(x)
          /\ e # Reaper /\ del[e].pc \in {"partial", "checkpoint"} => final[x] = NoFile
          /\ e # Reaper /\ del[e].pc = "checkpoint" => ~Exists(x) /\ partial[x] = NoFile
      BY <1>0, <1>3, <2>1, <2>2 DEF DeleterOK, Del, DelPC
    <2>9. Closed(x) => x \in used
      BY DEF Closed
    <2>10. del'[e].id = x /\ del'[e].pc = del[e].pc /\ del'[e].batch = del[e].batch
      BY <2>2
    <2> QED BY <1>1, <2>3, <2>4, <2>5, <2>6, <2>7, <2>8, <2>9, <2>10
      DEF DeleterOK, Exists, Closed, Writing
  <1> QED BY <1>2, <1>3

(* What a deletion knows after a step of its own.                          *)
LEMMA DeleterOwnStep ==
  ASSUME IInv, NEW d \in Deleters, DeleterRuns(d), [Next]_vars
  PROVE  DeleterOK(d)'
  <1>0. TypeOK /\ DeleterOK(d)
    BY DEF IInv, DeleterInv
  <1>a. del[d].pc \in {"row", "forget", "final", "partial", "checkpoint"}
    BY DEF DeleterRuns, DeleteRow, ForgetAttempts, RemoveFinal, RemovePartial, Checkpoint
  <1>b. UNCHANGED used
    BY DEF DeleterRuns, DeleteRow, ForgetAttempts, RemoveFinal, RemovePartial, Checkpoint, env
  <1>c. ASSUME NEW pc \in {"reply", "next", "idle"},
               \/ del' = [del EXCEPT ![d] = NoDel]
               \/ del'[d].pc = pc /\ del'[d].batch = del[d].batch
        PROVE  DeleterOK(d)'
    <2>1. del'[d].pc \in {"reply", "next", "idle"} /\ del'[d].batch \subseteq used'
      BY <1>0, <1>b, <1>c DEF TypeOK, NoDel, DeleterOK
    <2> QED BY <2>1 DEF DeleterOK
  <1>d. CASE DeleteFailed(d)
    <2>1. del'[d].pc \in {"reply", "next"} /\ del'[d].batch = del[d].batch
      <3>1. del[d] \in Del \cup Batching \cup {NoDel}
        BY <1>0 DEF TypeOK
      <3>2. CASE d = Reaper
        <4>1. del'[d] = [del[d] EXCEPT !.pc = "next", !.id = NoId]
          BY <1>0, <1>d, <3>2 DEF DeleteFailed, TypeOK
        <4> QED BY <3>1, <4>1 DEF Del, Batching, NoDel
      <3>3. CASE d # Reaper
        <4>1. del'[d] = [del[d] EXCEPT !.pc = "reply", !.status = "500"]
          BY <1>0, <1>d, <3>3 DEF DeleteFailed, TypeOK
        <4> QED BY <3>1, <4>1 DEF Del, Batching, NoDel
      <3> QED BY <3>2, <3>3
    <2> QED BY <1>c, <2>1
  <1>1. CASE Checkpoint(d)
    <2>1. CASE d = Reaper
      BY <1>1, <1>c, <2>1 DEF Checkpoint
    <2>2. CASE d # Reaper
      <3>1. del'[d] = [del[d] EXCEPT !.pc = "reply", !.status = "204"]
        BY <1>0, <1>1, <2>2 DEF Checkpoint, TypeOK
      <3>2. del[d] \in Del \cup Batching \cup {NoDel}
        BY <1>0 DEF TypeOK
      <3>3. del'[d].pc = "reply" /\ del'[d].batch = del[d].batch
        BY <3>1, <3>2 DEF Del, Batching, NoDel
      <3> QED BY <1>c, <3>3
    <2> QED BY <2>1, <2>2
  <1>2. CASE ~Checkpoint(d) /\ ~DeleteFailed(d)
    <2>1. del[d] \in Del /\ del[d].id \in Ids
      <3>1. del[d].pc \in {"row", "forget", "final", "partial"}
        BY <1>2 DEF DeleterRuns, DeleteRow, ForgetAttempts, RemoveFinal, RemovePartial
      <3> QED BY <1>0, <3>1, DelActive DEF Del
    <2>2. PICK x \in Ids : x = del[d].id
      BY <2>1
    <2>3. Closed(x) => Closed(x)'
      BY <1>0, ClosedStep
    <2>4. x \in used /\ ~Exists(x) => ~Exists(x)'
      BY <1>0, GoneStays
    <2>5. Closed(x) => x \in used
      BY DEF Closed
    <2>6. ASSUME NEW pc \in {"forget", "final", "partial"}, DelStep(d, pc)
          PROVE  del'[d].pc = pc /\ del'[d].id = x /\ del'[d].batch = del[d].batch
      <3>1. del'[d] = [del[d] EXCEPT !.pc = pc]
        BY <1>0, <2>6 DEF DelStep, TypeOK
      <3> QED BY <2>1, <2>2, <3>1 DEF Del
    <2>7. CASE DeleteRow(d)
      <3>1. DelStep(d, "forget") /\ rows'[x] = NoRow
        BY <1>0, <1>2, <2>2, <2>7 DEF DeleteRow, TypeOK
      <3> QED BY <1>0, <1>b, <2>2, <2>3, <2>6, <2>7, <3>1
        DEF DeleteRow, DeleterOK, Exists, Closed, Writing
    <2>8. CASE ForgetAttempts(d)
      <3>1. DelStep(d, "final")
        BY <2>8 DEF ForgetAttempts
      <3> QED BY <1>0, <1>b, <2>2, <2>3, <2>4, <2>6, <2>8, <3>1
        DEF ForgetAttempts, DeleterOK, Exists, Closed, Writing
    <2>9. CASE RemoveFinal(d)
      <3>1. DelStep(d, "partial") /\ final'[x] = NoFile
        BY <1>0, <1>2, <2>2, <2>9 DEF RemoveFinal, TypeOK
      <3> QED BY <1>0, <1>b, <2>2, <2>3, <2>4, <2>6, <2>9, <3>1
        DEF RemoveFinal, DeleterOK, Exists, Closed, Writing
    <2>10. CASE RemovePartial(d)
      <3>1. DeleteDone(d) /\ partial'[x] = NoFile /\ final'[x] = final[x]
        BY <1>0, <1>2, <2>2, <2>10 DEF RemovePartial, TypeOK
      <3>2. CASE d = Reaper
        <4>1. del'[d] = [del[d] EXCEPT !.pc = "next", !.id = NoId, !.removed = TRUE]
          BY <1>0, <3>1, <3>2 DEF DeleteDone, TypeOK
        <4>2. del'[d].pc = "next" /\ del'[d].batch = del[d].batch
          BY <2>1, <4>1 DEF Del
        <4> QED BY <1>c, <4>2
      <3>3. CASE d # Reaper
        <4>1. del'[d] = [del[d] EXCEPT !.pc = "checkpoint"]
          BY <1>0, <3>1, <3>3 DEF DeleteDone, TypeOK
        <4>2. del'[d].pc = "checkpoint" /\ del'[d].id = x /\ del'[d].batch = del[d].batch
          BY <2>1, <2>2, <4>1 DEF Del
        <4> QED BY <1>0, <1>b, <2>2, <2>3, <2>4, <2>10, <3>1, <3>3, <4>2
          DEF RemovePartial, DeleterOK, Exists, Closed, Writing
      <3> QED BY <3>2, <3>3
    <2> QED BY <1>2, <2>7, <2>8, <2>9, <2>10 DEF DeleterRuns
  <1> QED BY <1>1, <1>2, <1>d

LEMMA DeleterInvStep ==
  ASSUME IInv, [Next]_vars
  PROVE  DeleterInv'
  <1>0. TypeOK /\ FreshIds /\ DeleterInv /\ WriterInv
    BY DEF IInv
  <1> SUFFICES ASSUME NEW e \in Deleters PROVE DeleterOK(e)'
    BY DEF DeleterInv
  <1>a. DeleterOK(e)
    BY <1>0 DEF DeleterInv
  <1>1. CASE del'[e] = del[e]
    BY <1>1, DeleterFrame
  <1>2. ASSUME NEW d \in Deleters, DeleterRuns(d) PROVE del'[e] = del[e] \/ DeleterOK(e)'
    <2>1. CASE e = d
      BY <1>2, <2>1, DeleterOwnStep
    <2>2. CASE e # d
      BY <1>0, <1>2, <2>2 DEF DeleterRuns, DeleteRow, ForgetAttempts, RemoveFinal, RemovePartial,
         Checkpoint, DelStep, DeleteFailed, DeleteDone, TypeOK
    <2> QED BY <2>1, <2>2
  <1>3. ASSUME NEW d \in Revokers, RevokeReply(d) PROVE del'[e] = del[e] \/ DeleterOK(e)'
    BY <1>0, <1>3 DEF RevokeReply, TypeOK, DeleterOK, NoDel
  <1>4. ASSUME NEW d \in Revokers, NEW id \in Ids, RevokeGet(d, id)
        PROVE  del'[e] = del[e] \/ DeleterOK(e)'
    <2>1. CASE e # d
      BY <1>0, <1>4, <2>1 DEF RevokeGet, TypeOK
    <2>2. CASE e = d /\ ~Reachable(id)
      <3>1. del'[e].pc = "reply" /\ del'[e].batch = {}
        BY <1>0, <1>4, <2>2 DEF RevokeGet, TypeOK, NoDel
      <3> QED BY <3>1 DEF DeleterOK
    <2>3. CASE e = d /\ Reachable(id)
      <3>1. del'[e].pc = "row" /\ del'[e].batch = {} /\ del'[e].id = id
        BY <1>0, <1>4, <2>3 DEF RevokeGet, TypeOK, NoDel
      <3>2. Closed(id)
        BY <1>0, <2>3 DEF Reachable, Live, Closed, FreshIds, WriterInv, WriterOK, Writing, Pending
      <3>3. Closed(id)'
        BY <1>0, <3>2, ClosedStep
      <3> QED BY <3>1, <3>3 DEF DeleterOK, Closed, Exists, Writing
    <2> QED BY <2>1, <2>2, <2>3
  <1>5. ASSUME NEW batch \in SUBSET Ids, ReapList(batch) PROVE del'[e] = del[e] \/ DeleterOK(e)'
    <2>1. CASE e # Reaper
      BY <1>0, <1>5, <2>1 DEF ReapList, TypeOK
    <2>2. CASE e = Reaper
      <3>1. del'[e].pc = "next" /\ del'[e].batch = batch
        BY <1>0, <1>5, <2>2 DEF ReapList, TypeOK, NoDel
      <3>2. batch \subseteq used'
        BY <1>0, <1>5 DEF ReapList, DeadIds, FreshIds, env
      <3> QED BY <3>1, <3>2 DEF DeleterOK
    <2> QED BY <2>1, <2>2
  <1>6. ASSUME NEW id \in Ids, ReapNext(id) PROVE del'[e] = del[e] \/ DeleterOK(e)'
    <2>1. CASE e # Reaper
      BY <1>0, <1>6, <2>1 DEF ReapNext, TypeOK
    <2>2. CASE e = Reaper
      <3>1. del[e] \in Del \cup Batching \cup {NoDel}
        BY <1>0 DEF TypeOK
      <3>2. del'[e] = [del[e] EXCEPT !.pc = "row", !.id = id, !.batch = del[e].batch \ {id}]
        BY <1>0, <1>6, <2>2 DEF ReapNext, TypeOK
      <3>3. del'[e].pc = "row" /\ del'[e].id = id /\ del'[e].batch = del[e].batch \ {id}
        BY <3>1, <3>2 DEF Del, Batching, NoDel
      <3>4. id \in used' /\ del'[e].batch \subseteq used'
        BY <1>6, <1>a, <2>2, <3>3 DEF ReapNext, DeleterOK, env
      <3> QED BY <2>2, <3>3, <3>4 DEF DeleterOK
    <2> QED BY <2>1, <2>2
  <1>7. CASE ReapEnd
    <2>1. CASE e # Reaper
      BY <1>0, <1>1, <1>7, <2>1 DEF ReapEnd, TypeOK
    <2>2. CASE e = Reaper
      <3>1. del[e] \in Del \cup Batching \cup {NoDel}
        BY <1>0 DEF TypeOK
      <3>2. del'[e] = NoDel \/ del'[e] = [del[e] EXCEPT !.pc = "checkpoint"]
        BY <1>0, <1>7, <2>2 DEF ReapEnd, TypeOK
      <3>3. del'[e].pc \in {"idle", "checkpoint"} /\ del'[e].batch = {}
        BY <1>7, <2>2, <3>1, <3>2 DEF ReapEnd, Del, Batching, NoDel
      <3> QED BY <2>2, <3>3 DEF DeleterOK
    <2> QED BY <2>1, <2>2
  <1>8. CASE Crash
    BY <1>8 DEF Crash, DeleterOK, NoDel
  <1> QED BY <1>1, <1>2, <1>3, <1>4, <1>5, <1>6, <1>7, <1>8, DelChange

-----------------------------------------------------------------------------
(* Content.                                                                *)

(* A file in use that no write request has open does not change.           *)
LEMMA QuietInode ==
  ASSUME TypeOK, WriterInv, [Next]_vars, NEW i \in Inodes, ~Free(i),
         \A w \in Writers : req[w].fd # i
  PROVE  disk'[i] = disk[i]
  <1>1. CASE UNCHANGED files
    BY <1>1 DEF files
  <1>2. ASSUME NEW w \in Writers, OpenPartial(w) PROVE disk'[i] = disk[i]
    BY <1>2 DEF OpenPartial, files, TypeOK
  <1>3. ASSUME NEW w \in Writers, CopyBlock(w) PROVE disk'[i] = disk[i]
    BY <1>3 DEF CopyBlock, TypeOK
  <1>4. ASSUME NEW w \in Writers, FinishBlob(w) PROVE disk'[i] = disk[i]
    BY <1>4 DEF FinishBlob, files
  <1>5. ASSUME NEW d \in Deleters, RemoveFinal(d) \/ RemovePartial(d) PROVE disk'[i] = disk[i]
    BY <1>5 DEF RemoveFinal, RemovePartial
  <1> QED BY <1>1, <1>2, <1>3, <1>4, <1>5, FilesChange

(* The blob of an upload closed to writers keeps its content, and keeps    *)
(* its name as long as there is a row.                                     *)
LEMMA ClosedBlob ==
  ASSUME IInv, [Next]_vars, NEW x \in Ids, Closed(x), final[x] # NoFile
  PROVE  /\ final[x] \in Inodes /\ disk'[final[x]] = disk[final[x]]
         /\ final'[x] \in {final[x], NoFile}
         /\ Exists(x) => final'[x] = final[x]
  <1>0. TypeOK /\ WriterInv /\ InodesApart /\ DeleterInv
    BY DEF IInv
  <1>1. final[x] \in Inodes
    BY <1>0 DEF TypeOK
  <1>2. ~Free(final[x])
    BY DEF Free
  <1>3. \A w \in Writers : req[w].fd # final[x]
    BY <1>0 DEF InodesApart, WriterInv, WriterOK, Closed, Writing
  <1>4. final'[x] \in {final[x], NoFile}
    BY <1>0, NewNames DEF Closed
  <1>5. ASSUME Exists(x) PROVE final'[x] = final[x]
    <2>1. CASE UNCHANGED files
      BY <2>1 DEF files
    <2>2. ASSUME NEW w \in Writers, OpenPartial(w) \/ CopyBlock(w) \/ FinishBlob(w)
          PROVE  final'[x] = final[x]
      <3>1. req[w].id # x
        BY <2>2 DEF Closed, Writing, OpenPartial, CopyBlock, FinishBlob
      <3> QED BY <1>0, <2>2, <3>1 DEF OpenPartial, CopyBlock, FinishBlob, files, TypeOK
    <2>3. ASSUME NEW d \in Deleters, RemoveFinal(d) \/ RemovePartial(d)
          PROVE  final'[x] = final[x]
      <3>1. del[d].id # x
        BY <1>0, <1>5, <2>3 DEF RemoveFinal, RemovePartial, DeleterInv, DeleterOK
      <3> QED BY <1>0, <2>3, <3>1 DEF RemoveFinal, RemovePartial, TypeOK
    <2> QED BY <2>1, <2>2, <2>3, FilesChange
  <1> QED BY <1>0, <1>1, <1>2, <1>3, <1>4, <1>5, QuietInode

(* A published upload has no write request.                                *)
LEMMA PublishedClosed ==
  ASSUME IInv, NEW x \in Ids, Published(x)
  PROVE  Closed(x) /\ Whole(final[x], rows[x].size) /\ final[x] # NoFile
  BY LifecycleAssumption DEF IInv, FreshIds, WriterInv, WriterOK, Published, Closed, Writing,
     Pending, PublishedWhole, Whole, LifecycleAssumption

(* The statements that write the table.                                    *)
LEMMA TableChange ==
  ASSUME [Next]_vars
  PROVE  \/ UNCHANGED rows
         \/ \E w \in Writers : CompleteRow(w)
         \/ \E w \in Writers, id \in Ids, size \in Sizes, ttl \in TTLs, max \in Maxes,
               body \in BOOLEAN : NewUpload(w, id, size, ttl, max, body)
         \/ \E d \in Deleters : DeleteRow(d)
         \/ \E d \in Readers : RecordServed(d)
  BY DEF Next, vars, Requests, GetUpload, RevokeGet, Authenticate, WriterRuns, LoadKey, Length,
     OpenPartial, StatPartial, CopyBlock, EndChunk, FinishBlob, DeleterRuns, ForgetAttempts,
     RemoveFinal, RemovePartial, Checkpoint, RevokeReply, ReaperRuns, ReapList, ReapNext, ReapEnd,
     ReaderRuns, Allow, ForgetOnSuccess, OpenContent, Serve, Tick, Crash, table, Deleters

(* Only store.Complete publishes.                                          *)
LEMMA PublishStep ==
  ASSUME IInv, [Next]_vars, NEW x \in Ids, Published(x)'
  PROVE  \/ Published(x) /\ rows'[x].size = rows[x].size
         \/ \E w \in Writers : CompleteRow(w) /\ req[w].id = x /\ Exists(x)
                              /\ rows'[x].size = rows[x].size
  <1>0. TypeOK
    BY DEF IInv
  <1>1. CASE rows'[x] = rows[x]
    BY <1>1 DEF Published, Exists
  <1>2. ASSUME NEW w \in Writers, NEW id \in Ids, NEW size \in Sizes, NEW ttl \in TTLs,
               NEW max \in Maxes, NEW body \in BOOLEAN, NewUpload(w, id, size, ttl, max, body)
        PROVE  rows'[x] = rows[x]
    BY <1>0, <1>2 DEF NewUpload, NewRow, Published, Complete, TypeOK
  <1>3. ASSUME NEW w \in Writers, CompleteRow(w), rows'[x] # rows[x]
        PROVE  req[w].id = x /\ Exists(x) /\ rows'[x].size = rows[x].size
    <2>1. rows' = [rows EXCEPT ![req[w].id].completedAt = now] /\ Pending(req[w].id)
      BY <1>3 DEF CompleteRow
    <2>2. req[w].id = x
      BY <1>0, <1>3, <2>1 DEF TypeOK
    <2>3. rows[x] \in Row /\ rows'[x] = [rows[x] EXCEPT !.completedAt = now]
      BY <1>0, <2>1, <2>2 DEF TypeOK, Pending, Exists
    <2> QED BY <2>1, <2>2, <2>3 DEF Row, Pending
  <1>4. ASSUME NEW d \in Deleters, DeleteRow(d) PROVE rows'[x] = rows[x]
    BY <1>0, <1>4 DEF DeleteRow, Published, Exists, TypeOK, table
  <1>5. ASSUME NEW d \in Readers, RecordServed(d), rows'[x] # rows[x]
        PROVE  Published(x) /\ rows'[x].size = rows[x].size
    <2>1. dl[d].id \in Ids /\ dl[d].n \in Nat
      BY <1>0, <1>5, DlActive DEF RecordServed, Dl
    <2>2. Exists(dl[d].id) /\ rows' = [rows EXCEPT ![dl[d].id] = Served(rows[dl[d].id], dl[d].n)]
      BY <1>5 DEF RecordServed
    <2>3. dl[d].id = x
      BY <1>0, <1>5, <2>2 DEF TypeOK
    <2>4. rows[x] \in Row /\ rows'[x] = Served(rows[x], dl[d].n)
      BY <1>0, <2>2, <2>3 DEF TypeOK, Exists
    <2> QED BY <2>1, <2>2, <2>3, <2>4, ServedType DEF Published, Complete, Exists
  <1> QED BY <1>1, <1>2, <1>3, <1>4, <1>5, TableChange

LEMMA PublishedWholeStep ==
  ASSUME IInv, [Next]_vars
  PROVE  PublishedWhole'
  <1> SUFFICES ASSUME NEW x \in Ids, Published(x)'
               PROVE  final'[x] \in Inodes /\ disk'[final'[x]].len = rows'[x].size
    BY DEF PublishedWhole, Whole
  <1>1. CASE Published(x) /\ rows'[x].size = rows[x].size
    BY <1>1, PublishedClosed, ClosedBlob DEF Published, Whole
  <1>2. ASSUME NEW w \in Writers, CompleteRow(w), req[w].id = x, Exists(x),
               rows'[x].size = rows[x].size
        PROVE  final'[x] \in Inodes /\ disk'[final'[x]].len = rows'[x].size
    <2>1. req[w].pc = "complete" /\ UNCHANGED files
      BY <1>2 DEF CompleteRow
    <2>2. Whole(final[x], req[w].size) /\ rows[x].size = req[w].size
      BY <1>2, <2>1 DEF IInv, WriterInv, WriterOK
    <2> QED BY <1>2, <2>1, <2>2 DEF Whole, files
  <1> QED BY <1>1, <1>2, PublishStep

-----------------------------------------------------------------------------
(* Downloads.                                                              *)

(* What a download knows survives the steps of others.                     *)
LEMMA ReaderFrame ==
  ASSUME IInv, [Next]_vars, NEW r \in Readers, dl'[r].pc # "idle",
         dl'[r].id = dl[r].id, dl'[r].size = dl[r].size, dl[r].pc # "idle"
  PROVE  /\ Closed(dl[r].id)'
         /\ dl'[r].pc \in {"allow", "forget", "open"} /\ dl[r].pc \in {"allow", "forget", "open"}
              /\ final'[dl'[r].id] # NoFile => Whole(final[dl[r].id], dl[r].size)'
  <1>0. TypeOK /\ ReaderOK(r)
    BY DEF IInv, ReaderInv
  <1>1. dl[r].id \in Ids
    BY <1>0, DlActive DEF Dl
  <1>2. PICK x \in Ids : x = dl[r].id
    BY <1>1
  <1>3. Closed(x)
    BY <1>0, <1>2 DEF ReaderOK
  <1>4. Closed(x)'
    BY <1>0, <1>3, ClosedStep
  <1>5. final'[x] # NoFile => /\ final'[x] = final[x] /\ final[x] \in Inodes
                              /\ disk'[final[x]] = disk[final[x]]
    BY <1>0, <1>3, ClosedBlob, NewNames DEF Closed
  <1>6. dl[r].pc \in {"allow", "forget", "open"} /\ final[x] # NoFile => Whole(final[x], dl[r].size)
    BY <1>0, <1>2 DEF ReaderOK
  <1>7. dl'[r].id = x /\ dl'[r].size = dl[r].size
    BY <1>2
  <1> QED BY <1>2, <1>4, <1>5, <1>6, <1>7 DEF Whole, Closed, Exists, Writing

(* A step of a download keeps its upload and its size, and opens the blob  *)
(* in one place only.                                                      *)
LEMMA ReaderMoves ==
  ASSUME TypeOK, ReaderInv, [Next]_vars, NEW r \in Readers
  PROVE  \/ dl'[r] = NoDl
         \/ \E id \in Ids : dl[r].pc = "idle" /\ Reachable(id) /\ UNCHANGED <<rows, now, used, files, req>>
              /\ dl'[r] = [NoDl EXCEPT !.pc = "allow", !.id = id, !.size = rows[id].size]
         \/ /\ dl[r] \in Dl /\ dl[r].pc # "idle" /\ dl'[r].pc # "idle"
            /\ dl'[r].id = dl[r].id /\ dl'[r].size = dl[r].size
            /\ \/ /\ dl'[r].fd = dl[r].fd
                  /\ dl[r].pc \in {"allow", "forget", "open"} <=> dl'[r].pc \in {"allow", "forget", "open"}
               \/ /\ dl[r].pc = "open" /\ dl'[r].pc = "serve" /\ UNCHANGED files
                  /\ dl'[r].fd = final[dl[r].id] /\ final[dl[r].id] # NoFile
  <1>1. CASE dl'[r] = dl[r]
    BY <1>1, DlActive DEF TypeOK, NoDl, Dl, DlPC
  <1>2. ASSUME NEW d \in Readers, NEW id \in Ids, Authenticate(d, id)
        PROVE  \/ dl'[r] = dl[r]
               \/ /\ dl[r].pc = "idle" /\ Reachable(id) /\ UNCHANGED <<rows, now, used, files, req>>
                  /\ dl'[r] = [NoDl EXCEPT !.pc = "allow", !.id = id, !.size = rows[id].size]
    BY <1>2 DEF Authenticate, TypeOK, table, env
  <1>3. CASE Crash
    BY <1>3 DEF Crash
  <1>4. ASSUME NEW d \in Readers, ReaderRuns(d), d # r PROVE dl'[r] = dl[r]
    BY <1>4 DEF ReaderRuns, Allow, ForgetOnSuccess, OpenContent, Serve, RecordServed, DlStep,
       DlEnd, TypeOK
  <1>5. ASSUME ReaderRuns(r)
        PROVE  \/ dl'[r] = NoDl
               \/ /\ dl[r] \in Dl /\ dl[r].pc # "idle" /\ dl'[r].pc # "idle"
                  /\ dl'[r].id = dl[r].id /\ dl'[r].size = dl[r].size
                  /\ \/ /\ dl'[r].fd = dl[r].fd
                        /\ dl[r].pc \in {"allow", "forget", "open"} <=> dl'[r].pc \in {"allow", "forget", "open"}
                     \/ /\ dl[r].pc = "open" /\ dl'[r].pc = "serve" /\ UNCHANGED files
                        /\ dl'[r].fd = final[dl[r].id] /\ final[dl[r].id] # NoFile
    <2>1. dl[r] \in Dl /\ dl[r].pc # "idle"
      BY <1>5, DlActive DEF ReaderRuns, Allow, ForgetOnSuccess, OpenContent, Serve, RecordServed,
         Dl, DlPC
    <2>2. CASE DlEnd(r)
      BY <2>2 DEF DlEnd, TypeOK
    <2>3. ASSUME NEW pc \in {"forget", "open"}, DlStep(r, pc)
          PROVE  dl'[r].pc = pc /\ dl'[r].id = dl[r].id /\ dl'[r].size = dl[r].size /\ dl'[r].fd = dl[r].fd
      <3>1. dl'[r] = [dl[r] EXCEPT !.pc = pc]
        BY <2>3 DEF DlStep, TypeOK
      <3> QED BY <2>1, <3>1 DEF Dl
    <2>4. CASE Allow(r)
      BY <2>1, <2>2, <2>3, <2>4 DEF Allow
    <2>5. CASE ForgetOnSuccess(r)
      BY <2>1, <2>2, <2>3, <2>5 DEF ForgetOnSuccess
    <2>6. CASE OpenContent(r) /\ final[dl[r].id] # NoFile
      <3>1. dl'[r] = [dl[r] EXCEPT !.pc = "serve", !.fd = final[dl[r].id]]
        BY <2>6 DEF OpenContent, TypeOK
      <3>2. dl'[r].pc = "serve" /\ dl'[r].id = dl[r].id /\ dl'[r].size = dl[r].size
            /\ dl'[r].fd = final[dl[r].id]
        BY <2>1, <3>1 DEF Dl
      <3> QED BY <2>1, <2>6, <3>2 DEF OpenContent
    <2>7. ASSUME NEW n \in 0 .. Response(MaxSize), Serve(r, n)
          PROVE  /\ dl'[r].pc = "record" /\ dl'[r].id = dl[r].id /\ dl'[r].size = dl[r].size
                 /\ dl'[r].fd = dl[r].fd /\ dl[r].pc = "serve"
      <3>1. dl'[r] = [dl[r] EXCEPT !.pc = "record", !.n = n] /\ dl[r].pc = "serve"
        BY <2>7 DEF Serve, TypeOK
      <3> QED BY <2>1, <3>1 DEF Dl
    <2>8. CASE RecordServed(r) \/ (OpenContent(r) /\ final[dl[r].id] = NoFile)
      BY <2>2, <2>8 DEF RecordServed, OpenContent
    <2> QED BY <1>5, <2>1, <2>4, <2>5, <2>6, <2>7, <2>8 DEF ReaderRuns
  <1> QED BY <1>1, <1>2, <1>3, <1>4, <1>5, DlChange

LEMMA ReaderStep ==
  ASSUME IInv, [Next]_vars
  PROVE  ReaderInv' /\ ReaderSeesWhole'
  <1>0. TypeOK /\ ReaderInv /\ ReaderSeesWhole /\ InodesApart /\ WriterInv
    BY DEF IInv
  <1> SUFFICES ASSUME NEW r \in Readers
               PROVE  /\ ReaderOK(r)'
                      /\ dl'[r].pc \in {"serve", "record"} => Whole(dl[r].fd, dl[r].size)'
    BY DEF ReaderInv, ReaderSeesWhole
  <1>a. ReaderOK(r)
    BY <1>0 DEF ReaderInv
  <1>1. CASE dl'[r] = NoDl
    BY <1>1 DEF NoDl, ReaderOK
  <1>2. ASSUME NEW id \in Ids, Reachable(id), UNCHANGED <<rows, now, used, files, req>>,
               dl'[r] = [NoDl EXCEPT !.pc = "allow", !.id = id, !.size = rows[id].size]
        PROVE  ReaderOK(r)' /\ dl'[r].pc = "allow"
    <2>1. Published(id)
      BY <1>2 DEF Reachable, Live, Published
    <2>2. Closed(id) /\ Whole(final[id], rows[id].size)
      BY <2>1, PublishedClosed
    <2>3. Closed(id)'
      BY <1>0, <2>2, ClosedStep
    <2>4. dl'[r].pc = "allow" /\ dl'[r].id = id /\ dl'[r].size = rows[id].size /\ dl'[r].fd = NoFile
      BY <1>2 DEF NoDl
    <2> QED BY <1>2, <2>2, <2>3, <2>4 DEF ReaderOK, Whole, files, Closed, Exists, Writing
  <1>3. ASSUME dl[r] \in Dl, dl[r].pc # "idle", dl'[r].pc # "idle",
               dl'[r].id = dl[r].id, dl'[r].size = dl[r].size, dl'[r].fd = dl[r].fd,
               dl[r].pc \in {"allow", "forget", "open"} <=> dl'[r].pc \in {"allow", "forget", "open"}
        PROVE  /\ ReaderOK(r)'
               /\ dl'[r].pc \in {"serve", "record"} => Whole(dl[r].fd, dl[r].size)'
    <2>1. Closed(dl[r].id)'
      BY <1>3, ReaderFrame
    <2>2. dl'[r].pc \in {"allow", "forget", "open"} /\ final'[dl'[r].id] # NoFile
            => Whole(final[dl[r].id], dl[r].size)'
      BY <1>3, ReaderFrame
    <2>3. ReaderOK(r)'
      BY <1>3, <1>a, <2>1, <2>2 DEF ReaderOK
    <2>4. ASSUME dl'[r].pc \in {"serve", "record"} PROVE Whole(dl[r].fd, dl[r].size)'
      <3>1. dl[r].pc \in {"serve", "record"}
        BY <1>3, <2>4 DEF Dl, DlPC
      <3>2. Whole(dl[r].fd, dl[r].size)
        BY <1>0, <3>1 DEF ReaderSeesWhole
      <3>3. dl[r].fd \in Inodes /\ dl[r].fd # NoFile
        BY <3>2, LifecycleAssumption DEF Whole, LifecycleAssumption
      <3>4. ~Free(dl[r].fd) /\ \A w \in Writers : req[w].fd # dl[r].fd
        BY <1>0, <3>3 DEF Free, InodesApart
      <3>5. disk'[dl[r].fd] = disk[dl[r].fd]
        BY <1>0, <3>3, <3>4, QuietInode
      <3> QED BY <1>3, <3>2, <3>5 DEF Whole
    <2> QED BY <2>3, <2>4
  <1>4. ASSUME dl[r] \in Dl, dl[r].pc = "open", dl'[r].pc = "serve", UNCHANGED files,
               dl'[r].id = dl[r].id, dl'[r].size = dl[r].size,
               dl'[r].fd = final[dl[r].id], final[dl[r].id] # NoFile
        PROVE  ReaderOK(r)' /\ Whole(dl[r].fd, dl[r].size)'
    <2>1. Closed(dl[r].id)'
      BY <1>4, ReaderFrame
    <2>2. Whole(final[dl[r].id], dl[r].size)
      BY <1>4, <1>a DEF ReaderOK
    <2> QED BY <1>4, <2>1, <2>2 DEF ReaderOK, Whole, files
  <1> QED BY <1>0, <1>1, <1>2, <1>3, <1>4, ReaderMoves

-----------------------------------------------------------------------------
(* The invariant and what follows from it.                                 *)

LEMMA IInvInit == Init => IInv
  <1> SUFFICES ASSUME Init PROVE IInv
    OBVIOUS
  <1>1. TypeOK
    BY InitType
  <1>2. FreshIds /\ InodesApart /\ OneWriter /\ RevokedClosed /\ RevokedGone
    BY DEF Init, FreshIds, InodesApart, OneWriter, RevokedClosed, RevokedGone, Exists, NoReq, NoDl
  <1>3. WriterInv
    BY DEF Init, WriterInv, WriterOK, NoReq
  <1>4. DeleterInv
    BY DEF Init, DeleterInv, DeleterOK, NoDel
  <1>5. ReaderInv /\ ReaderSeesWhole
    BY DEF Init, ReaderInv, ReaderOK, ReaderSeesWhole, NoDl
  <1>6. PublishedWhole
    BY DEF Init, PublishedWhole, Published, Exists
  <1> QED BY <1>1, <1>2, <1>3, <1>4, <1>5, <1>6 DEF IInv

LEMMA IInvStep ==
  ASSUME Serial, IInv, [Next]_vars
  PROVE  IInv'
  <1>1. TypeOK /\ FreshIds /\ OneWriter /\ WriterInv /\ DeleterInv /\ RevokedClosed /\ RevokedGone
    BY DEF IInv
  <1>2. TypeOK' /\ FreshIds' /\ OneWriter'
    BY <1>1, TypeStep, FreshIdsStep, OneWriterStep
  <1>3. InodesApart' /\ WriterInv' /\ DeleterInv'
    BY InodesApartStep, WriterInvStep, DeleterInvStep
  <1>4. ReaderInv' /\ ReaderSeesWhole' /\ PublishedWhole'
    BY ReaderStep, PublishedWholeStep
  <1>5. RevokedClosed' /\ RevokedGone'
    BY <1>1, RevokedStep
  <1> QED BY <1>2, <1>3, <1>4, <1>5 DEF IInv

(* The content of a published upload does not change.                      *)
LEMMA ContentStep ==
  ASSUME IInv, [Next]_vars, NEW x \in Ids, Published(x)
  PROVE  final'[x] = final[x] /\ disk'[final[x]] = disk[final[x]]
  BY PublishedClosed, ClosedBlob DEF Published

LEMMA IInvAlways == Serial => (Spec => []IInv)
  <1> SUFFICES ASSUME Serial PROVE Spec => []IInv
    OBVIOUS
  <1>1. IInv /\ [Next]_vars => IInv'
    BY IInvStep
  <1> QED BY <1>1, IInvInit, PTL DEF Spec

(* If write requests against one upload come one at a time, a row that is  *)
(* complete has its whole blob under the final name in every reachable     *)
(* state, through any failures, crashes and deletions.                     *)
THEOREM WholePublished == Serial => (Spec => []PublishedWhole)
  <1>1. IInv => PublishedWhole
    BY DEF IInv
  <1> QED BY <1>1, IInvAlways, PTL

(* Under the same condition a download that was let in has the whole       *)
(* upload open to its end, whatever is revoked or reaped under it.         *)
THEOREM WholeServed == Serial => (Spec => []ReaderSeesWhole)
  <1>1. IInv => ReaderSeesWhole
    BY DEF IInv
  <1> QED BY <1>1, IInvAlways, PTL

(* Under the same condition a revocation answered 204 leaves no row and no *)
(* file, now and later.                                                    *)
THEOREM GoneForGood == Serial => (Spec => []RevokedGone)
  <1>1. IInv => RevokedGone
    BY DEF IInv
  <1> QED BY <1>1, IInvAlways, PTL

-----------------------------------------------------------------------------
(* The write-ahead log.                                                    *)

(* Only the row's removal adds to the log.                                 *)
LEMMA WalChange ==
  ASSUME [Next]_vars
  PROVE  UNCHANGED wal \/ \E d \in Deleters : DeleteRow(d) \/ Checkpoint(d)
  BY ZenonT(40)
  DEF Next, vars, Requests, NewUpload, GetUpload, RevokeGet, Authenticate, WriterRuns, LoadKey,
      Length, OpenPartial, StatPartial, CopyBlock, EndChunk, FinishBlob, CompleteRow, DeleterRuns,
      ForgetAttempts, RemoveFinal, RemovePartial, RevokeReply, ReaperRuns, ReapList, ReapNext,
      ReapEnd, ReaderRuns, Allow, ForgetOnSuccess, OpenContent, Serve, RecordServed, Tick, Crash,
      table, Deleters

(* Nothing has failed before, if nothing has now.                          *)
LEMMA FailuresGrow ==
  ASSUME TypeOK, [Next]_vars, faults' = 0, crashes' = 0
  PROVE  faults = 0 /\ crashes = 0 /\ ~Fault /\ ~Crash
  <1>1. (UNCHANGED faults \/ Fault) /\ (UNCHANGED crashes \/ Crash)
    BY ZenonT(40)
    DEF Next, vars, Requests, NewUpload, GetUpload, RevokeGet, Authenticate, WriterRuns, LoadKey,
        Length, OpenPartial, StatPartial, CopyBlock, EndChunk, FinishBlob, CompleteRow, DeleterRuns,
        DeleteRow, Checkpoint, ForgetAttempts, RemoveFinal, RemovePartial, RevokeReply, ReaperRuns,
        ReapList, ReapNext, ReapEnd, ReaderRuns, Allow, ForgetOnSuccess, OpenContent, Serve,
        RecordServed, Tick, Crash, env
  <1>2. faults \in Nat /\ crashes \in Nat /\ faults' \in Nat /\ crashes' \in Nat
    BY TypeStep DEF TypeOK
  <1>3. faults' \in {faults, faults + 1} /\ crashes' \in {crashes, crashes + 1}
    BY <1>1 DEF Fault, Crash
  <1>4. faults = 0 /\ crashes = 0 /\ faults' = faults /\ crashes' = crashes
    BY <1>2, <1>3
  <1>5. ~Fault
    BY <1>2, <1>4 DEF Fault
  <1>6. ~Crash
    BY <1>2, <1>4 DEF Crash
  <1> QED BY <1>4, <1>5, <1>6

(* Whoever retires the log goes on to do so.                               *)
LEMMA RetiringGoesOn ==
  ASSUME TypeOK, NEW d \in Deleters, DeleterRuns(d), ~Fault
  PROVE  Checkpoint(d) \/ Retiring(d)'
  <1>1. CASE DeleteRow(d) \/ ForgetAttempts(d) \/ RemoveFinal(d)
    <2>1. PICK pc \in {"forget", "final", "partial"} : DelStep(d, pc)
      BY <1>1 DEF DeleteRow, ForgetAttempts, RemoveFinal
    <2>2. del[d] \in Del
      BY <1>1, DelActive DEF DeleteRow, ForgetAttempts, RemoveFinal
    <2>3. del'[d].pc = pc
      BY <2>1, <2>2 DEF DelStep, TypeOK, Del
    <2> QED BY <2>3 DEF Retiring
  <1>2. CASE RemovePartial(d)
    <2>1. DeleteDone(d)
      BY <1>2 DEF RemovePartial
    <2>2. del[d] \in Del
      BY <1>2, DelActive DEF RemovePartial
    <2>3. CASE d = Reaper
      <3>1. del'[d] = [del[d] EXCEPT !.pc = "next", !.id = NoId, !.removed = TRUE]
        BY <2>1, <2>3 DEF DeleteDone, TypeOK
      <3> QED BY <2>2, <3>1 DEF Del, Retiring
    <2>4. CASE d # Reaper
      <3>1. del'[d] = [del[d] EXCEPT !.pc = "checkpoint"]
        BY <2>1, <2>4 DEF DeleteDone, TypeOK
      <3> QED BY <2>2, <3>1 DEF Del, Retiring
    <2> QED BY <2>3, <2>4
  <1> QED BY <1>1, <1>2 DEF DeleterRuns

LEMMA LogStep == TypeOK /\ LogInv /\ [Next]_vars => LogInv'
  <1> SUFFICES ASSUME TypeOK, LogInv, [Next]_vars, faults' = 0, crashes' = 0, wal' # {}
               PROVE  \E d \in Deleters : Retiring(d)'
    BY DEF LogInv, Retiring
  <1>1. faults = 0 /\ crashes = 0 /\ ~Fault /\ ~Crash
    BY FailuresGrow
  <1>2. ASSUME NEW d \in Deleters, DeleterRuns(d) PROVE \E e \in Deleters : Retiring(e)'
    <2>1. ~Checkpoint(d)
      BY <1>1 DEF Checkpoint
    <2> QED BY <1>1, <1>2, <2>1, RetiringGoesOn
  <1>3. CASE ~ \E d \in Deleters : DeleterRuns(d)
    <2>0. UNCHANGED wal
      BY <1>3, WalChange DEF DeleterRuns
    <2>1. PICK e \in Deleters : Retiring(e)
      BY <1>1, <2>0 DEF LogInv
    <2>2. ASSUME NEW d \in Revokers, NEW id \in Ids, RevokeReply(d) \/ RevokeGet(d, id)
          PROVE  Retiring(e)'
      <3>1. d # e
        BY <2>1, <2>2 DEF RevokeReply, RevokeGet, Retiring
      <3>2. del'[e] = del[e]
        BY <2>2, <3>1 DEF RevokeReply, RevokeGet, TypeOK
      <3> QED BY <2>1, <3>2 DEF Retiring
    <2>3. ASSUME NEW batch \in SUBSET Ids, ReapList(batch) PROVE Retiring(e)'
      <3>1. Reaper # e
        BY <2>1, <2>3 DEF ReapList, Retiring
      <3>2. del'[e] = del[e]
        BY <2>3, <3>1 DEF ReapList, TypeOK
      <3> QED BY <2>1, <3>2 DEF Retiring
    <2>4. ASSUME NEW id \in Ids, ReapNext(id) \/ ReapEnd PROVE Retiring(e)'
      <3>1. CASE e # Reaper
        <4>1. del'[e] = del[e]
          BY <2>4, <3>1 DEF ReapNext, ReapEnd, TypeOK
        <4> QED BY <2>1, <4>1 DEF Retiring
      <3>2. CASE e = Reaper
        <4>1. del[e] \in Batching /\ del[e].removed
          BY <2>1, <2>4, <3>2 DEF ReapNext, ReapEnd, Retiring, TypeOK, Del, DelPC, NoDel
        <4>2. \/ del'[e] = [del[e] EXCEPT !.pc = "row", !.id = id, !.batch = del[e].batch \ {id}]
              \/ del'[e] = [del[e] EXCEPT !.pc = "checkpoint"]
          BY <2>4, <3>2, <4>1 DEF ReapNext, ReapEnd, TypeOK
        <4>3. del'[e].pc \in {"row", "checkpoint"} /\ del'[e].removed
          BY <4>1, <4>2 DEF Batching
        <4> QED BY <4>3 DEF Retiring
      <3> QED BY <3>1, <3>2
    <2>5. CASE UNCHANGED del
      BY <2>1, <2>5 DEF Retiring
    <2>6. \E id \in Ids : TRUE
      BY <2>0 DEF TypeOK
    <2> QED BY <1>1, <1>3, <2>2, <2>3, <2>4, <2>5, <2>6, DelChange
  <1> QED BY <1>2, <1>3

(* Service.Revoke and Service.Reap checkpoint after they have deleted: as  *)
(* long as nothing fails, no key of a deleted row is in the log once the   *)
(* deletions are done, for any number of uploads and revocations.          *)
THEOREM LogCleared == Spec => []LogRetired
  <1>1. Init => LogInv
    BY DEF Init, LogInv
  <1>2. LogInv => LogRetired
    BY DEF LogInv, LogRetired, Retiring
  <1> QED BY <1>1, <1>2, LogStep, TypeCorrect, PTL DEF Spec

-----------------------------------------------------------------------------
(* The allowance.                                                          *)

LEMMA DivBelow ==
  ASSUME NEW b \in Nat, NEW s \in Nat \ {0}, NEW m \in Nat, b \div s < m
  PROVE  b < m * s
  <1>1. b \div s \in Nat /\ b < (b \div s) * s + s
    OBVIOUS
  <1>2. ASSUME NEW k \in Nat, k + 1 <= m PROVE k * s + s <= m * s
    <2>1. PICK j \in Nat : m = k + 1 + j
      BY <1>2
    <2>2. m * s = k * s + s + j * s /\ j * s \in Nat /\ k * s \in Nat
      BY <2>1
    <2> QED BY <2>2
  <1>3. m * s \in Nat
    OBVIOUS
  <1> QED BY <1>1, <1>2, <1>3

LEMMA TimesGrows ==
  ASSUME NEW j \in Nat, NEW k \in Nat, NEW s \in Nat, j <= k
  PROVE  j * s \in Nat /\ k * s \in Nat /\ j * s <= k * s
  <1>1. PICK i \in Nat : k = j + i
    OBVIOUS
  <1>2. k * s = j * s + i * s /\ i * s \in Nat /\ j * s \in Nat
    BY <1>1
  <1> QED BY <1>2

(* A transfer begins below the limit, and there are as many as readers.    *)
LEMMA RoomToBegin ==
  ASSUME NEW b \in Nat, NEW s \in Nat, NEW j \in Nat, NEW n \in Nat, NEW y \in Nat,
         b < y, j <= n
  PROVE  b + j * s < y + n * s
  <1>1. j * s <= n * s /\ j * s \in Nat /\ n * s \in Nat
    BY TimesGrows
  <1> QED BY <1>1

(* A transfer that ends adds at most the answer it had room for.           *)
LEMMA RoomUsed ==
  ASSUME NEW b \in Nat, NEW s \in Nat, NEW k \in Nat \ {0}, NEW x \in Nat, NEW n \in Nat,
         NEW j \in Nat, b + k * s < x, n <= s, j <= k - 1
  PROVE  b + n + j * s < x
  <1>1. k - 1 \in Nat /\ k * s = (k - 1) * s + s
    OBVIOUS
  <1>2. j * s <= (k - 1) * s /\ j * s \in Nat /\ (k - 1) * s \in Nat
    BY <1>1, TimesGrows
  <1> QED BY <1>1, <1>2

LEMMA TransfersFinite ==
  ASSUME NEW x
  PROVE  /\ IsFiniteSet(Transfers(x)) /\ Cardinality(Transfers(x)) \in Nat
         /\ Cardinality(Transfers(x))' \in Nat /\ Cardinality(Readers) \in Nat
         /\ Cardinality(Transfers(x))' <= Cardinality(Readers)
  <1>1. Transfers(x) \in SUBSET Readers /\ Transfers(x)' \in SUBSET Readers
    BY DEF Transfers
  <1>2. IsFiniteSet(Readers)
    BY ReadersAssumption DEF ReadersAssumption
  <1>3. IsFiniteSet(Transfers(x)) /\ IsFiniteSet(Transfers(x)')
        /\ Cardinality(Transfers(x)') <= Cardinality(Readers)
    BY <1>1, <1>2, FS_Subset
  <1> QED BY <1>2, <1>3, FS_CardinalityType

(* A transfer is counted for no more than one answer.                      *)
LEMMA SentWithin ==
  ASSUME TypeOK, ReaderSeesWhole, TransferTerms, [Next]_vars, NEW r \in Readers,
         dl'[r].pc # "idle"
  PROVE  dl'[r].n <= Response(dl'[r].size)
  <1>1. CASE dl'[r] = dl[r]
    BY <1>1 DEF TransferTerms
  <1>2. ASSUME NEW d \in Readers, NEW id \in Ids, Authenticate(d, id)
        PROVE  dl'[r] = dl[r] \/ dl'[r].n <= Response(dl'[r].size)
    <2>1. Exists(id) /\ rows[id].size \in Nat
      BY <1>2 DEF Authenticate, Reachable, Exists, TypeOK, Row
    <2>2. Response(rows[id].size) \in Nat
      BY <2>1, ResponseType
    <2>3. dl'[r] = dl[r] \/ dl'[r] = [NoDl EXCEPT !.pc = "allow", !.id = id, !.size = rows[id].size]
      BY <1>2 DEF Authenticate, TypeOK
    <2>4. CASE dl'[r] = [NoDl EXCEPT !.pc = "allow", !.id = id, !.size = rows[id].size]
      <3>1. dl'[r].n = 0 /\ dl'[r].size = rows[id].size
        BY <2>4 DEF NoDl
      <3> QED BY <2>2, <3>1
    <2> QED BY <2>3, <2>4
  <1>3. ~Crash
    BY DEF Crash, NoDl
  <1>4. ASSUME NEW d \in Readers, ReaderRuns(d), d # r PROVE dl'[r] = dl[r]
    BY <1>4 DEF ReaderRuns, Allow, ForgetOnSuccess, OpenContent, Serve, RecordServed, DlStep,
       DlEnd, TypeOK
  <1>5. ASSUME ReaderRuns(r) PROVE dl'[r].n <= Response(dl'[r].size)
    <2>1. dl[r] \in Dl /\ dl[r].pc # "idle"
      BY <1>5, DlActive DEF ReaderRuns, Allow, ForgetOnSuccess, OpenContent, Serve, RecordServed,
         Dl, DlPC
    <2>2. ~DlEnd(r)
      BY DEF DlEnd, TypeOK, NoDl
    <2>3. ASSUME NEW pc, DlStep(r, pc) PROVE dl'[r].n <= Response(dl'[r].size)
      <3>1. dl'[r] = [dl[r] EXCEPT !.pc = pc]
        BY <2>3 DEF DlStep, TypeOK
      <3> QED BY <2>1, <3>1 DEF Dl, TransferTerms
    <2>4. CASE OpenContent(r)
      <3>1. dl'[r] = [dl[r] EXCEPT !.pc = "serve", !.fd = final[dl[r].id]]
        BY <2>2, <2>4 DEF OpenContent, TypeOK
      <3> QED BY <2>1, <3>1 DEF Dl, TransferTerms
    <2>5. ASSUME NEW n \in 0 .. Response(MaxSize), Serve(r, n) PROVE dl'[r].n <= Response(dl'[r].size)
      <3>1. dl'[r] = [dl[r] EXCEPT !.pc = "record", !.n = n] /\ n <= Response(dl[r].size)
        BY <2>5 DEF Serve, TypeOK, ReaderSeesWhole, Whole
      <3> QED BY <2>1, <3>1 DEF Dl
    <2> QED BY <1>5, <2>2, <2>3, <2>4, <2>5 DEF ReaderRuns, Allow, ForgetOnSuccess, RecordServed
  <1> QED BY <1>1, <1>2, <1>3, <1>4, <1>5, DlChange

LEMMA TransferTermsStep ==
  ASSUME AllowanceInv, [Next]_vars
  PROVE  TransferTerms'
  <1>0. /\ TypeOK /\ ReaderInv /\ ReaderSeesWhole /\ TransferTerms /\ CountDerived /\ RowsDrawn
    BY DEF AllowanceInv, IInv, CauseInv
  <1> SUFFICES ASSUME NEW r \in Readers, dl'[r].pc # "idle"
               PROVE  /\ dl'[r].n <= Response(dl'[r].size)
                      /\ Exists(dl[r].id)' => rows'[dl'[r].id].size = dl'[r].size
    BY DEF TransferTerms
  <1>1. dl'[r].n <= Response(dl'[r].size)
    BY <1>0, SentWithin
  <1>2. ASSUME NEW id \in Ids, UNCHANGED rows,
               dl'[r] = [NoDl EXCEPT !.pc = "allow", !.id = id, !.size = rows[id].size]
        PROVE  rows'[dl'[r].id].size = dl'[r].size
    BY <1>2 DEF NoDl
  <1>3. ASSUME dl[r] \in Dl, dl[r].pc # "idle", dl'[r].id = dl[r].id, dl'[r].size = dl[r].size,
               rows'[dl[r].id] # NoRow
        PROVE  rows'[dl'[r].id].size = dl'[r].size
    <2>1. dl[r].id \in Ids /\ dl[r].id \in used
      BY <1>0, <1>3 DEF Dl, ReaderInv, ReaderOK, Closed
    <2>2. Exists(dl[r].id) /\ rows'[dl[r].id].size = rows[dl[r].id].size
      <3>1. \A x \in Ids : x \in used /\ Exists(x)' => Exists(x) /\ rows'[x].size = rows[x].size
        BY <1>0, RowKeepsTerms DEF SameTerms
      <3> QED BY <1>3, <2>1, <3>1 DEF Exists
    <2> QED BY <1>0, <1>3, <2>2 DEF TransferTerms
  <1>4. dl'[r] # NoDl
    BY DEF NoDl
  <1> QED BY <1>0, <1>1, <1>2, <1>3, <1>4, ReaderMoves DEF Exists

(* Only accounting changes what was counted, and it ends the transfer.     *)
LEMMA BytesChange ==
  ASSUME TypeOK, [Next]_vars, NEW x \in Ids, x \in used, Exists(x), Exists(x)'
  PROVE  \/ rows'[x].bytesServed = rows[x].bytesServed
         \/ \E d \in Readers : /\ dl[d].pc # "idle" /\ dl[d].id = x /\ dl'[d] = NoDl
                               /\ rows'[x].bytesServed = rows[x].bytesServed + dl[d].n
  <1>1. CASE rows'[x] = rows[x]
    BY <1>1
  <1>2. ASSUME NEW w \in Writers, NEW id \in Ids, NEW size \in Sizes, NEW ttl \in TTLs,
               NEW max \in Maxes, NEW body \in BOOLEAN, NewUpload(w, id, size, ttl, max, body)
        PROVE  rows'[x] = rows[x]
    BY <1>2 DEF NewUpload, TypeOK
  <1>3. ASSUME NEW w \in Writers, CompleteRow(w), rows'[x] # rows[x]
        PROVE  rows'[x].bytesServed = rows[x].bytesServed
    <2>1. rows' = [rows EXCEPT ![req[w].id].completedAt = now]
      BY <1>3 DEF CompleteRow
    <2>2. rows[x] \in Row /\ rows'[x] = [rows[x] EXCEPT !.completedAt = now]
      BY <1>3, <2>1 DEF TypeOK, Exists
    <2> QED BY <2>2 DEF Row
  <1>4. ASSUME NEW d \in Deleters, DeleteRow(d) PROVE rows'[x] = rows[x]
    BY <1>4 DEF DeleteRow, Exists, TypeOK, table
  <1>5. ASSUME NEW d \in Readers, RecordServed(d), rows'[x] # rows[x]
        PROVE  /\ dl[d].pc # "idle" /\ dl[d].id = x /\ dl'[d] = NoDl
               /\ rows'[x].bytesServed = rows[x].bytesServed + dl[d].n
    <2>1. dl[d].n \in Nat /\ dl[d].pc # "idle" /\ dl'[d] = NoDl
      BY <1>5, DlActive DEF RecordServed, Dl, DlEnd, TypeOK
    <2>2. rows' = [rows EXCEPT ![dl[d].id] = Served(rows[dl[d].id], dl[d].n)]
      BY <1>5 DEF RecordServed
    <2>3. dl[d].id = x /\ rows[x] \in Row /\ rows'[x] = Served(rows[x], dl[d].n)
      BY <1>5, <2>2 DEF TypeOK, Exists
    <2> QED BY <2>1, <2>3, ServedType
  <1> QED BY <1>1, <1>2, <1>3, <1>4, <1>5, TableChange

LEMMA AllowanceStep ==
  ASSUME AllowanceInv, [Next]_vars
  PROVE  Allowance'
  <1>0. /\ TypeOK /\ TypeOK' /\ ReaderInv /\ TransferTerms /\ CountDerived /\ RowsDrawn /\ Allowance
    BY TypeStep DEF AllowanceInv, IInv, CauseInv
  <1> SUFFICES ASSUME NEW x \in Ids, Exists(x)', rows'[x].maxDownloads > 0, rows'[x].size > 0
               PROVE  rows'[x].bytesServed + Cardinality(Transfers(x))' * Response(rows'[x].size)
                        < rows'[x].maxDownloads * rows'[x].size
                          + Cardinality(Readers) * Response(rows'[x].size)
    BY DEF Allowance
  <1>1. rows'[x] \in Row /\ rows'[x].size \in Nat \ {0} /\ rows'[x].maxDownloads \in Nat \ {0}
        /\ rows'[x].bytesServed \in Nat
    BY <1>0 DEF TypeOK, Exists, Row
  <1>a. Response(rows'[x].size) \in Nat /\ rows'[x].maxDownloads * rows'[x].size \in Nat
    BY <1>1, ResponseType
  <1>2. /\ IsFiniteSet(Transfers(x)) /\ Cardinality(Transfers(x)) \in Nat
        /\ Cardinality(Transfers(x))' \in Nat /\ Cardinality(Readers) \in Nat
        /\ Cardinality(Transfers(x))' <= Cardinality(Readers)
    BY TransfersFinite
  <1>3. CASE rows'[x].bytesServed < rows'[x].maxDownloads * rows'[x].size
    BY <1>1, <1>a, <1>2, <1>3, RoomToBegin
  <1>4. CASE x \notin used
    <2>1. ~Exists(x)
      BY <1>0, <1>4 DEF RowsDrawn
    <2>2. rows'[x].bytesServed = 0
      <3>1. ASSUME NEW id \in Ids, Inserts(id) PROVE rows'[x].bytesServed = 0
        BY <1>0, <2>1, <3>1 DEF Inserts, Exists, TypeOK, NewRow
      <3>2. ASSUME NEW id \in Ids, Completes(id) \/ Deletes(id) \/ Accounts(id) PROVE FALSE
        BY <1>0, <2>1, <3>2 DEF Completes, Deletes, Accounts, Pending, Exists, TypeOK
      <3> QED BY <1>0, <2>1, <3>1, <3>2, RowsChange DEF Exists
    <2>3. 0 < rows'[x].maxDownloads * rows'[x].size
      <3>1. \A m, s \in Nat \ {0} : 0 < m * s
        OBVIOUS
      <3> QED BY <1>1, <3>1
    <2> QED BY <1>3, <2>2, <2>3
  <1>5. CASE x \in used
    <2>1. Exists(x) /\ rows'[x].size = rows[x].size /\ rows'[x].maxDownloads = rows[x].maxDownloads
      BY <1>0, <1>5, RowKeepsTerms DEF SameTerms
    <2>2. rows[x] \in Row /\ rows[x].bytesServed \in Nat
      BY <1>0, <2>1 DEF TypeOK, Exists, Row
    <2>3. ASSUME NEW r \in Readers, r \in Transfers(x)', r \notin Transfers(x)
          PROVE  rows'[x].bytesServed < rows'[x].maxDownloads * rows'[x].size
      <3>1. dl'[r].pc # "idle" /\ dl'[r].id = x /\ dl'[r] # NoDl
        BY <2>3 DEF Transfers, NoDl
      <3>2. PICK id \in Ids : Reachable(id) /\ UNCHANGED rows
              /\ dl'[r] = [NoDl EXCEPT !.pc = "allow", !.id = id, !.size = rows[id].size]
        BY <1>0, <2>3, <3>1, ReaderMoves DEF Transfers
      <3>3. id = x
        BY <3>1, <3>2 DEF NoDl
      <3>4. rows[x].downloadCount < rows[x].maxDownloads
        BY <1>1, <2>1, <2>2, <3>2, <3>3 DEF Reachable, Live, Exhausted, Row
      <3>5. rows[x].downloadCount = rows[x].bytesServed \div rows[x].size
        BY <1>0, <2>1 DEF CountDerived
      <3>6. rows[x].bytesServed < rows[x].maxDownloads * rows[x].size
        BY <1>1, <2>1, <2>2, <3>4, <3>5, DivBelow
      <3> QED BY <3>2, <3>6
    <2>4. CASE Transfers(x)' \subseteq Transfers(x)
      <3> DEFINE lim == rows[x].maxDownloads * rows[x].size + Cardinality(Readers) * Response(rows[x].size)
      <3>1. rows[x].bytesServed + Cardinality(Transfers(x)) * Response(rows[x].size) < lim /\ lim \in Nat
        BY <1>0, <1>1, <1>a, <1>2, <2>1 DEF Allowance
      <3>2. Cardinality(Transfers(x))' <= Cardinality(Transfers(x))
        BY <1>2, <2>4, FS_Subset
      <3>3. CASE rows'[x].bytesServed = rows[x].bytesServed
        <4>1. Cardinality(Transfers(x))' * Response(rows[x].size) \in Nat
              /\ Cardinality(Transfers(x)) * Response(rows[x].size) \in Nat
              /\ Cardinality(Transfers(x))' * Response(rows[x].size) <= Cardinality(Transfers(x)) * Response(rows[x].size)
          BY <1>a, <1>2, <2>1, <3>2, TimesGrows
        <4>2. rows[x].bytesServed + Cardinality(Transfers(x))' * Response(rows[x].size) < lim
          BY <2>2, <3>1, <4>1
        <4> QED BY <2>1, <3>3, <4>2
      <3>4. ASSUME NEW d \in Readers, dl[d].pc # "idle", dl[d].id = x, dl'[d] = NoDl,
                   rows'[x].bytesServed = rows[x].bytesServed + dl[d].n
            PROVE  rows'[x].bytesServed + Cardinality(Transfers(x))' * Response(rows[x].size) < lim
        <4>1. d \in Transfers(x) /\ d \notin Transfers(x)'
          BY <3>4 DEF Transfers, NoDl
        <4>2. IsFiniteSet(Transfers(x) \ {d})
              /\ Cardinality(Transfers(x) \ {d}) = Cardinality(Transfers(x)) - 1
          BY <1>2, <4>1, FS_RemoveElement
        <4>3. Transfers(x)' \in SUBSET (Transfers(x) \ {d})
          BY <2>4, <4>1
        <4>4. Cardinality(Transfers(x)') <= Cardinality(Transfers(x)) - 1
          BY <4>2, <4>3, FS_Subset
        <4>5. dl[d].n \in Nat /\ dl[d].n <= Response(rows[x].size)
          BY <1>0, <2>1, <3>4, DlActive DEF TransferTerms, Dl
        <4>6. Cardinality(Transfers(x)) \in Nat \ {0}
          BY <1>2, <4>4
        <4> HIDE DEF lim
        <4> QED BY <1>a, <1>2, <2>1, <2>2, <3>1, <3>4, <4>4, <4>5, <4>6, RoomUsed
      <3> QED BY <1>0, <1>5, <2>1, <3>3, <3>4, BytesChange
    <2> QED BY <1>3, <2>3, <2>4 DEF Transfers
  <1> QED BY <1>4, <1>5

(* Counting after the transfer lets transfers overlap, but what is counted *)
(* stays below the allowance and one answer for each connection, if write  *)
(* requests are serial: each transfer was let in below the allowance.      *)
THEOREM OvershootLimited == Serial => (Spec => []OvershootBounded)
  <1> SUFFICES ASSUME Serial PROVE Spec => []OvershootBounded
    OBVIOUS
  <1>1. Init => AllowanceInv
    BY IInvInit, CauseInit DEF Init, AllowanceInv, TransferTerms, Allowance, Exists, NoDl
  <1>2. AllowanceInv /\ [Next]_vars => AllowanceInv'
    BY IInvStep, CauseStep, TransferTermsStep, AllowanceStep DEF AllowanceInv
  <1>3. AllowanceInv => OvershootBounded
    <2> SUFFICES ASSUME AllowanceInv, NEW x \in Ids, Exists(x), rows[x].maxDownloads > 0,
                        rows[x].size > 0
                 PROVE  rows[x].bytesServed < rows[x].maxDownloads * rows[x].size
                                              + Cardinality(Readers) * Response(rows[x].size)
      BY DEF OvershootBounded
    <2>1. rows[x].size \in Nat /\ rows[x].bytesServed \in Nat /\ rows[x].maxDownloads \in Nat
      BY DEF AllowanceInv, IInv, TypeOK, Exists, Row
    <2>2. /\ Cardinality(Transfers(x)) * Response(rows[x].size) \in Nat
          /\ rows[x].maxDownloads * rows[x].size \in Nat
          /\ Cardinality(Readers) * Response(rows[x].size) \in Nat
      BY <2>1, TransfersFinite, ResponseType
    <2>3. rows[x].bytesServed + Cardinality(Transfers(x)) * Response(rows[x].size)
             < rows[x].maxDownloads * rows[x].size + Cardinality(Readers) * Response(rows[x].size)
      BY DEF AllowanceInv, Allowance
    <2> QED BY <2>1, <2>2, <2>3
  <1> QED BY <1>1, <1>2, <1>3, PTL DEF Spec

-----------------------------------------------------------------------------
(* The promise.  Every step of a handler, of the reaper, of the clock or   *)
(* of a crash is a step of UploadPromise or changes nothing that it speaks *)
(* of.                                                                     *)

(* A file read as a sequence has the file's length.                        *)
LEMMA ContentLen ==
  ASSUME NEW i, disk[i].len \in Nat
  PROVE  Len(Content(i)) = disk[i].len
  <1> DEFINE n == disk[i].len
             S == {Content(i)[p] : p \in 1 .. n}
  <1>1. Content(i) \in [1 .. n -> S]
    BY DEF Content
  <1>2. Content(i) \in Seq(S)
    BY <1>1, SeqDef
  <1>3. DOMAIN Content(i) = 1 .. n
    BY DEF Content
  <1> QED BY <1>2, <1>3, LenProperties

(* What the promise says of one upload does not change.                    *)
UploadSame(x) ==
  /\ AbsState(x)' = AbsState(x) /\ AbsSize(x)' = AbsSize(x) /\ AbsBody(x)' = AbsBody(x)

LEMMA SameUpload ==
  ASSUME IInv, [Next]_vars, NEW x \in Ids, x \in used' <=> x \in used,
         Exists(x)' <=> Exists(x),
         Exists(x) => rows'[x].size = rows[x].size /\ (Complete(rows[x])' <=> Complete(rows[x]))
  PROVE  UploadSame(x)
  <1>1. (Pending(x)' <=> Pending(x)) /\ (Published(x)' <=> Published(x))
    BY DEF Pending, Published, Exists
  <1>2. AbsState(x)' = AbsState(x)
    BY <1>1 DEF AbsState
  <1>3. AbsSize(x)' = AbsSize(x)
    BY DEF AbsSize
  <1>4. AbsBody(x)' = AbsBody(x)
    <2>1. CASE ~Published(x)
      BY <1>1, <2>1 DEF AbsBody
    <2>2. CASE Published(x)
      <3>1. final'[x] = final[x] /\ disk'[final[x]] = disk[final[x]]
        BY <2>2, ContentStep
      <3>2. AbsBody(x) = Content(final[x]) /\ AbsBody(x)' = Content(final[x])'
        BY <1>1, <2>2 DEF AbsBody
      <3> QED BY <3>1, <3>2 DEF Content
    <2> QED BY <2>1, <2>2
  <1> QED BY <1>2, <1>3, <1>4 DEF UploadSame

(* A reader goes on reading what it was let in to, or stops, unless the    *)
(* step lets it in or opens the blob for it.                               *)
LEMMA ReadingChange ==
  ASSUME IInv, [Next]_vars, NEW r \in Readers,
         dl[r].pc = "idle" => dl'[r].pc = "idle",
         dl[r].pc = "open" => dl'[r].pc # "serve"
  PROVE  AbsReading(r)' \in {AbsReading(r), NotReading}
  <1>0. TypeOK /\ WriterInv /\ ReaderInv /\ InodesApart /\ ReaderSeesWhole
    BY DEF IInv
  <1> DEFINE waiting == {"allow", "forget", "open"}
             serving == {"serve", "record"}
  <1>1. CASE dl'[r] = NoDl
    BY <1>1 DEF AbsReading, NoDl
  <1>2. ASSUME dl[r] \in Dl, dl[r].pc # "idle", dl'[r].pc # "idle",
               dl'[r].id = dl[r].id, dl'[r].fd = dl[r].fd,
               dl[r].pc \in waiting <=> dl'[r].pc \in waiting
        PROVE  AbsReading(r)' \in {AbsReading(r), NotReading}
    <2>1. CASE dl[r].pc \in waiting
      <3>1. Closed(dl[r].id) /\ dl[r].id \in Ids
        BY <1>0, <1>2 DEF ReaderInv, ReaderOK, Dl
      <3>2. CASE final'[dl[r].id] = NoFile
        BY <1>2, <2>1, <3>2 DEF AbsReading
      <3>3. CASE final'[dl[r].id] # NoFile
        <4>1. final'[dl[r].id] = final[dl[r].id]
          BY <1>0, <3>1, <3>3, NewNames DEF Closed
        <4>2. disk'[final[dl[r].id]] = disk[final[dl[r].id]]
          BY <3>1, <3>3, <4>1, ClosedBlob
        <4>3. AbsReading(r) = [id |-> dl[r].id, begun |-> FALSE, body |-> Content(final[dl[r].id])]
          BY <2>1, <3>3, <4>1 DEF AbsReading
        <4>4. AbsReading(r)' = [id |-> dl[r].id, begun |-> FALSE, body |-> Content(final[dl[r].id])']
          BY <1>2, <2>1, <3>3 DEF AbsReading
        <4>5. Content(final[dl[r].id])' = Content(final[dl[r].id])
          BY <1>2, <4>1, <4>2 DEF Content
        <4> QED BY <4>3, <4>4, <4>5
      <3> QED BY <3>2, <3>3
    <2>2. CASE dl[r].pc \in serving
      <3>1. dl[r].fd \in Inodes
        BY <1>0, <2>2 DEF ReaderSeesWhole, Whole
      <3>2. disk'[dl[r].fd] = disk[dl[r].fd]
        <4>1. ~Free(dl[r].fd)
          BY DEF Free
        <4>2. \A w \in Writers : req[w].fd # dl[r].fd
          BY <1>0, <3>1, LifecycleAssumption DEF InodesApart, LifecycleAssumption
        <4> QED BY <1>0, <3>1, <4>1, <4>2, QuietInode
      <3>3. AbsReading(r) = [id |-> dl[r].id, begun |-> TRUE, body |-> Content(dl[r].fd)]
        BY <2>2 DEF AbsReading
      <3>4. dl'[r].pc \in serving \/ AbsReading(r)' = NotReading
        BY <1>2, <2>2 DEF AbsReading
      <3>5. dl'[r].pc \in serving =>
              AbsReading(r)' = [id |-> dl[r].id, begun |-> TRUE, body |-> Content(dl[r].fd)']
        BY <1>2 DEF AbsReading
      <3>6. Content(dl[r].fd)' = Content(dl[r].fd)
        BY <1>2, <3>2 DEF Content
      <3> QED BY <3>3, <3>4, <3>5, <3>6
    <2> QED BY <1>2, <2>1, <2>2 DEF Dl, DlPC
  <1>3. ASSUME NEW id \in Ids,
               dl'[r] = [NoDl EXCEPT !.pc = "allow", !.id = id, !.size = rows[id].size]
        PROVE  dl'[r].pc = "allow"
    BY <1>3 DEF NoDl
  <1> QED BY <1>0, <1>1, <1>2, <1>3, ReaderMoves

-----------------------------------------------------------------------------
(* One lemma per step of the promise.                                      *)

(* A step that changes no upload and lets no reader in or further only     *)
(* sends readers away.                                                     *)
LEMMA StepLeaves ==
  ASSUME \A x \in Ids : UploadSame(x), revoked' = revoked,
         \A r \in Readers : AbsReading(r)' \in {AbsReading(r), NotReading}
  PROVE  Promise!Next
  <1> DEFINE S == {r \in Readers : AbsReading(r)' = NotReading}
  <1>1. S \in SUBSET Readers
    OBVIOUS
  <1>2. Promise!Leave(S)
    BY DEF Promise!Leave, UploadSame
  <1> QED BY <1>1, <1>2 DEF Promise!Next

(* A reader that takes no step, while no blob loses its name, goes on.     *)
LEMMA ReadingSame ==
  ASSUME IInv, [Next]_vars, UNCHANGED final, NEW r \in Readers, dl'[r] = dl[r]
  PROVE  AbsReading(r)' = AbsReading(r)
  <1>1. AbsReading(r)' \in {AbsReading(r), NotReading}
    BY ReadingChange
  <1>2. ASSUME AbsReading(r) # NotReading PROVE AbsReading(r)' # NotReading
    <2>1. dl[r].pc \in {"serve", "record", "allow", "forget", "open"}
      BY <1>2 DEF AbsReading
    <2>2. dl[r].id \in Ids
      BY <2>1, DlActive DEF IInv, Dl
    <2>3. AbsReading(r)'.id = dl[r].id
      BY <1>2 DEF AbsReading
    <2> QED BY <2>2, <2>3, LifecycleAssumption DEF NotReading, LifecycleAssumption
  <1> QED BY <1>1, <1>2

LEMMA NewUploadCreates ==
  ASSUME IInv, [Next]_vars, NEW w \in Writers, NEW id \in Ids, NEW size \in Sizes,
         NEW ttl \in TTLs, NEW max \in Maxes, NEW body \in BOOLEAN,
         NewUpload(w, id, size, ttl, max, body)
  PROVE  Promise!Create(id)
  <1>0. TypeOK /\ TypeOK' /\ FreshIds
    BY TypeStep DEF IInv
  <1>2. rows' = [rows EXCEPT ![id] = NewRow(size, ttl, max, now)] /\ used' = used \cup {id}
        /\ UNCHANGED <<dl, final, revoked>>
    BY DEF NewUpload, files
  <1>3. Pending(id)' /\ ~Published(id)' /\ ~Published(id) /\ ~Exists(id)
    <2>1. rows'[id] = NewRow(size, ttl, max, now) /\ rows'[id] \in Row
      BY <1>0, <1>2, NewRowType, LifecycleAssumption DEF TypeOK, LifecycleAssumption
    <2>2. rows'[id] # NoRow /\ rows'[id].completedAt = NoTime
      BY <2>1, LifecycleAssumption DEF LifecycleAssumption, NewRow
    <2>3. ~Exists(id)
      BY <1>0 DEF NewUpload, FreshIds
    <2> QED BY <2>2, <2>3 DEF Pending, Published, Exists, Complete
  <1>4. AbsState(id)' = "receiving" /\ AbsBody(id)' = AbsBody(id)
    BY <1>2, <1>3 DEF AbsState, AbsBody
  <1>7. AbsState(id) = "absent"
    BY <1>3 DEF NewUpload, AbsState, Pending
  <1>5. \A x \in Ids \ {id} : UploadSame(x)
    BY <1>0, <1>2, SameUpload DEF Exists, TypeOK, Complete
  <1>6. \A r \in Readers : AbsReading(r)' = AbsReading(r)
    BY <1>2, ReadingSame
  <1> QED BY <1>2, <1>4, <1>5, <1>6, <1>7 DEF Promise!Create, UploadSame

LEMMA CompleteRowPublishes ==
  ASSUME IInv, [Next]_vars, NEW w \in Writers, CompleteRow(w), rows' # rows,
         NEW id, id = req[w].id
  PROVE  id \in Ids /\ Promise!Publish(id)
  <1>0. TypeOK /\ WriterInv
    BY DEF IInv
  <1>1. id \in Ids /\ req[w].pc = "complete" /\ req[w] \in Req
    BY <1>0, ReqActive DEF CompleteRow, Req
  <1>2. Pending(id) /\ rows' = [rows EXCEPT ![id].completedAt = now]
        /\ UNCHANGED <<dl, final, disk, revoked, used>>
    BY DEF CompleteRow, files, env
  <1>3. rows[id] \in Row /\ rows'[id] = [rows[id] EXCEPT !.completedAt = now] /\ now # NoTime
    BY <1>0, <1>1, <1>2 DEF TypeOK, Pending, Exists, NoTime
  <1>4. rows'[id] \in Row /\ rows'[id].size = rows[id].size /\ Complete(rows[id])'
    BY <1>0, <1>1, <1>2, <1>3 DEF Row, Complete, TypeOK
  <1>5. Published(id)' /\ ~Pending(id)' /\ ~Published(id) /\ id \in used
    BY <1>0, <1>1, <1>2, <1>4, LifecycleAssumption
    DEF Published, Exists, LifecycleAssumption, Pending, WriterInv, WriterOK
  <1>6. AbsState(id) = "receiving" /\ AbsState(id)' = "available"
    BY <1>1, <1>2, <1>5 DEF AbsState
  <1>7. AbsSize(id) = rows[id].size /\ AbsSize(id)' = AbsSize(id)
    BY <1>2, <1>4, <1>5 DEF AbsSize, Pending, Published
  <1>8. Len(AbsBody(id)') = AbsSize(id)
    <2>1. final[id] \in Inodes /\ disk[final[id]].len = rows[id].size
      BY <1>0, <1>1, <1>2 DEF WriterInv, WriterOK, Whole, Pending
    <2>2. AbsBody(id)' = Content(final[id])
      BY <1>2, <1>5 DEF AbsBody, Content
    <2>3. rows[id].size \in Nat
      BY <1>3 DEF Row
    <2> QED BY <1>7, <2>1, <2>2, <2>3, ContentLen
  <1>9. \A x \in Ids \ {id} : UploadSame(x)
    BY <1>0, <1>2, SameUpload DEF Exists, TypeOK, Complete
  <1>10. \A r \in Readers : AbsReading(r)' = AbsReading(r)
    BY <1>2, ReadingSame
  <1> QED BY <1>1, <1>2, <1>6, <1>7, <1>8, <1>9, <1>10 DEF Promise!Publish, UploadSame

LEMMA DeleteRowRemoves ==
  ASSUME IInv, [Next]_vars, NEW d \in Deleters, DeleteRow(d), rows' # rows,
         NEW id, id = del[d].id
  PROVE  id \in Ids /\ Promise!Remove(id)
  <1>0. TypeOK /\ DeleterInv
    BY DEF IInv
  <1>1. id \in Ids /\ id \in used
    BY <1>0, DelActive DEF DeleteRow, Del, DeleterInv, DeleterOK
  <1>2. rows' = [rows EXCEPT ![id] = NoRow] /\ UNCHANGED <<dl, final, revoked, used>>
    BY DEF DeleteRow, files, env, table
  <1>3. Exists(id) /\ ~Exists(id)'
    BY <1>0, <1>1, <1>2 DEF Exists, TypeOK
  <1>4. AbsState(id) \in {"receiving", "available"} /\ AbsState(id)' = "gone"
    BY <1>1, <1>2, <1>3 DEF AbsState, Pending, Published
  <1>5. AbsSize(id)' = 0 /\ AbsBody(id)' = NoFile
    BY <1>3 DEF AbsSize, AbsBody, Published
  <1>6. \A x \in Ids \ {id} : UploadSame(x)
    BY <1>0, <1>2, SameUpload DEF Exists, TypeOK, Complete
  <1>7. \A r \in Readers : AbsReading(r)' = AbsReading(r)
    BY <1>2, ReadingSame
  <1> QED BY <1>1, <1>2, <1>4, <1>5, <1>6, <1>7 DEF Promise!Remove, UploadSame

LEMMA CheckpointConfirms ==
  ASSUME IInv, [Next]_vars, NEW d \in Revokers, Checkpoint(d), NEW id, id = del[d].id
  PROVE  id \in Ids /\ Promise!Confirm(id)
  <1>0. TypeOK /\ DeleterInv /\ FreshIds
    BY DEF IInv
  <1>1. id \in Ids /\ d # Reaper /\ d \in Deleters /\ del[d].pc = "checkpoint"
    BY <1>0, LifecycleAssumption
    DEF Checkpoint, TypeOK, Del, NoDel, Deleters, LifecycleAssumption
  <1>2. revoked' = revoked \cup {id} /\ UNCHANGED <<dl, final, rows, used>>
    BY <1>1 DEF Checkpoint, env, files
  <1>3. id \in used /\ ~Exists(id) /\ final[id] = NoFile
    BY <1>0, <1>1 DEF DeleterInv, DeleterOK, Closed
  <1>4. AbsState(id) = "gone"
    BY <1>3 DEF AbsState, Pending, Published
  <1>5. \A r \in Readers : AbsReading(r) # NotReading =>
            AbsReading(r).id # id \/ AbsReading(r).begun
    BY <1>3 DEF AbsReading
  <1>6. \A x \in Ids : UploadSame(x)
    BY <1>2, SameUpload DEF Exists, Complete
  <1>7. \A r \in Readers : AbsReading(r)' = AbsReading(r)
    BY <1>2, ReadingSame
  <1> QED BY <1>1, <1>2, <1>4, <1>5, <1>6, <1>7 DEF Promise!Confirm, UploadSame

LEMMA AuthenticateAdmits ==
  ASSUME IInv, [Next]_vars, NEW d \in Readers, NEW id \in Ids, Authenticate(d, id)
  PROVE  Promise!Admit(d, id)
  <1>0. TypeOK
    BY DEF IInv
  <1>1. dl[d].pc = "idle" /\ UNCHANGED <<rows, used, final, disk, revoked>>
        /\ dl' = [dl EXCEPT ![d] = [NoDl EXCEPT !.pc = "allow", !.id = id, !.size = rows[id].size]]
    BY DEF Authenticate, env, table, files
  <1>2. Published(id)
    BY DEF Authenticate, Reachable, Live, Published
  <1>3. Closed(id) /\ final[id] # NoFile
    BY <1>2, PublishedClosed
  <1>4. AbsState(id) = "available" /\ AbsBody(id) = Content(final[id])
    BY <1>2, <1>3 DEF AbsState, AbsBody, Pending, Published, Closed
  <1>5. AbsReading(d) = NotReading
    BY <1>1 DEF AbsReading
  <1>6. AbsReading(d)' = [id |-> id, begun |-> FALSE, body |-> AbsBody(id)]
    <2>1. dl'[d].pc = "allow" /\ dl'[d].id = id
      BY <1>0, <1>1 DEF TypeOK, NoDl
    <2>2. Content(final[id])' = Content(final[id])
      BY <1>1 DEF Content
    <2>3. AbsReading(d)' = [id |-> id, begun |-> FALSE, body |-> Content(final[id])']
      BY <1>1, <1>3, <2>1 DEF AbsReading
    <2> QED BY <1>4, <2>2, <2>3
  <1>7. \A x \in Ids : UploadSame(x)
    BY <1>1, SameUpload DEF Exists, Complete
  <1>8. \A r \in Readers \ {d} : AbsReading(r)' = AbsReading(r)
    BY <1>0, <1>1, ReadingSame DEF TypeOK
  <1> QED BY <1>1, <1>4, <1>5, <1>6, <1>7, <1>8 DEF Promise!Admit, UploadSame

LEMMA BegunRecord ==
  ASSUME NEW x, NEW b, NEW r, r = [id |-> x, begun |-> FALSE, body |-> b]
  PROVE  [r EXCEPT !.begun = TRUE] = [id |-> x, begun |-> TRUE, body |-> b]
  <1> DEFINE no  == FALSE
             yes == TRUE
  <1>1. [[id |-> x, begun |-> no, body |-> b] EXCEPT !.begun = yes]
          = [id |-> x, begun |-> yes, body |-> b]
    <2> HIDE DEF no, yes
    <2> QED OBVIOUS
  <1> QED BY <1>1

LEMMA OpenContentBegins ==
  ASSUME IInv, [Next]_vars, NEW d \in Readers, OpenContent(d), final[dl[d].id] # NoFile
  PROVE  Promise!Begin(d)
  <1>0. TypeOK
    BY DEF IInv
  <1>1. dl[d].pc = "open" /\ UNCHANGED <<rows, used, final, disk, revoked>>
        /\ dl' = [dl EXCEPT ![d] = [dl[d] EXCEPT !.pc = "serve", !.fd = final[dl[d].id]]]
    BY DEF OpenContent, env, table, files
  <1>2. dl[d] \in Dl /\ dl[d].id \in Ids
    BY <1>0, <1>1, DlActive DEF Dl
  <1>3. dl'[d].pc = "serve" /\ dl'[d].id = dl[d].id /\ dl'[d].fd = final[dl[d].id]
    <2>1. dl'[d] = [dl[d] EXCEPT !.pc = "serve", !.fd = final[dl[d].id]]
      BY <1>0, <1>1 DEF TypeOK
    <2> QED BY <1>2, <2>1 DEF Dl
  <1>4. AbsReading(d) = [id |-> dl[d].id, begun |-> FALSE, body |-> Content(final[dl[d].id])]
    BY <1>1 DEF AbsReading
  <1>5. AbsReading(d)' = [id |-> dl[d].id, begun |-> TRUE, body |-> Content(final[dl[d].id])]
    <2>1. Content(dl[d].fd)' = Content(final[dl[d].id])
      BY <1>1, <1>3 DEF Content
    <2>2. AbsReading(d)' = [id |-> dl'[d].id, begun |-> TRUE, body |-> Content(dl[d].fd)']
      BY <1>3 DEF AbsReading
    <2> QED BY <1>3, <2>1, <2>2
  <1>6. AbsReading(d) # NotReading /\ AbsReading(d)' = [AbsReading(d) EXCEPT !.begun = TRUE]
    <2>1. AbsReading(d).id # NotReading.id
      BY <1>2, <1>4, LifecycleAssumption DEF NotReading, LifecycleAssumption
    <2>2. [AbsReading(d) EXCEPT !.begun = TRUE]
            = [id |-> dl[d].id, begun |-> TRUE, body |-> Content(final[dl[d].id])]
      BY <1>4, BegunRecord
    <2> QED BY <1>5, <2>1, <2>2
  <1>7. \A x \in Ids : UploadSame(x)
    BY <1>1, SameUpload DEF Exists, Complete
  <1>8. \A r \in Readers \ {d} : AbsReading(r)' = AbsReading(r)
    BY <1>0, <1>1, ReadingSame DEF TypeOK
  <1> QED BY <1>1, <1>6, <1>7, <1>8 DEF Promise!Begin, UploadSame

-----------------------------------------------------------------------------
(* Steps of the server that are no step of the promise of their own.       *)

(* Accounting changes nothing that the promise speaks of.                  *)
LEMMA ServedSame ==
  ASSUME IInv, [Next]_vars, NEW d \in Readers, RecordServed(d), NEW x \in Ids
  PROVE  UploadSame(x)
  <1>0. TypeOK
    BY DEF IInv
  <1>1. used' = used
    BY DEF RecordServed, env
  <1>2. CASE rows'[x] = rows[x]
    BY <1>1, <1>2, SameUpload DEF Exists, Complete
  <1>3. CASE rows'[x] # rows[x]
    <2>1. dl[d].id \in Ids /\ dl[d].n \in Nat
      BY <1>0, DlActive DEF RecordServed, Dl
    <2>2. Exists(dl[d].id) /\ rows' = [rows EXCEPT ![dl[d].id] = Served(rows[dl[d].id], dl[d].n)]
      BY <1>3 DEF RecordServed
    <2>3. dl[d].id = x
      BY <1>0, <1>3, <2>2 DEF TypeOK
    <2>4. rows[x] \in Row /\ rows'[x] = Served(rows[x], dl[d].n)
      BY <1>0, <2>2, <2>3 DEF TypeOK, Exists
    <2>5. Exists(x) /\ Exists(x)' /\ rows'[x].size = rows[x].size
          /\ (Complete(rows[x])' <=> Complete(rows[x]))
      BY <2>1, <2>2, <2>3, <2>4, ServedType, LifecycleAssumption
      DEF Exists, Complete, LifecycleAssumption
    <2> QED BY <1>1, <2>5, SameUpload
  <1> QED BY <1>2, <1>3

(* A step of a reader that neither lets it in nor opens the blob.          *)
LEMMA ReaderAside ==
  ASSUME IInv, [Next]_vars, NEW d \in Readers,
         \/ Allow(d) \/ ForgetOnSuccess(d) \/ RecordServed(d)
         \/ \E n \in 0 .. Response(MaxSize) : Serve(d, n)
         \/ OpenContent(d) /\ final[dl[d].id] = NoFile,
         NEW r \in Readers
  PROVE  AbsReading(r)' \in {AbsReading(r), NotReading}
  <1>0. TypeOK
    BY DEF IInv
  <1>1. dl[d] \in Dl /\ dl[d].pc # "idle"
    BY <1>0, DlActive DEF Allow, ForgetOnSuccess, RecordServed, Serve, OpenContent, Dl, DlPC
  <1>2. PICK v \in {"forget", "open", "record", "idle"} :
           dl' = [dl EXCEPT ![d] = dl'[d]] /\ dl'[d].pc = v
    <2>1. ASSUME NEW pc, DlStep(d, pc) PROVE dl' = [dl EXCEPT ![d] = dl'[d]] /\ dl'[d].pc = pc
      <3>1. dl'[d] = [dl[d] EXCEPT !.pc = pc]
        BY <1>0, <2>1 DEF DlStep, TypeOK
      <3>2. dl'[d].pc = pc
        BY <1>1, <3>1 DEF Dl
      <3> QED BY <1>0, <2>1, <3>1, <3>2 DEF DlStep, TypeOK
    <2>2. ASSUME DlEnd(d) PROVE dl' = [dl EXCEPT ![d] = dl'[d]] /\ dl'[d].pc = "idle"
      BY <1>0, <2>2 DEF DlEnd, TypeOK, NoDl
    <2>3. ASSUME NEW n \in 0 .. Response(MaxSize), Serve(d, n)
          PROVE  dl' = [dl EXCEPT ![d] = dl'[d]] /\ dl'[d].pc = "record"
      <3>1. dl'[d] = [dl[d] EXCEPT !.pc = "record", !.n = n]
        BY <1>0, <2>3 DEF Serve, TypeOK
      <3>2. dl'[d].pc = "record"
        BY <1>1, <3>1 DEF Dl
      <3> QED BY <1>0, <2>3, <3>1, <3>2 DEF Serve, TypeOK
    <2> QED BY <2>1, <2>2, <2>3 DEF Allow, ForgetOnSuccess, RecordServed, OpenContent
  <1>3. r # d => dl'[r] = dl[r]
    BY <1>0, <1>2 DEF TypeOK
  <1> QED BY <1>1, <1>2, <1>3, ReadingChange

(* Every step of the server is a step of the promise, or none.             *)
LEMMA StepKeepsPromise ==
  ASSUME IInv, [Next]_vars
  PROVE  [Promise!Next]_Promise!vars
  <1>0. TypeOK
    BY DEF IInv
  <1>1. ASSUME UNCHANGED <<rows, used, revoked>>,
               \A r \in Readers : AbsReading(r)' \in {AbsReading(r), NotReading}
        PROVE  Promise!Next
    <2>1. \A x \in Ids : UploadSame(x)
      BY <1>1, SameUpload DEF Exists, Complete
    <2> QED BY <1>1, <2>1, StepLeaves
  <1>2. ASSUME UNCHANGED <<rows, used, revoked, dl>> PROVE Promise!Next
    BY <1>1, <1>2, ReadingChange
  <1>3. ASSUME NEW w \in Writers, NEW id \in Ids, NEW size \in Sizes, NEW ttl \in TTLs,
               NEW max \in Maxes, NEW body \in BOOLEAN, NewUpload(w, id, size, ttl, max, body)
        PROVE  Promise!Next
    BY <1>3, NewUploadCreates DEF Promise!Next
  <1>4. ASSUME NEW w \in Writers, NEW id \in Ids, NEW off \in 0 .. MaxSize, GetUpload(w, id, off)
        PROVE  Promise!Next
    BY <1>2, <1>4 DEF GetUpload, env, table
  <1>5. ASSUME NEW w \in Writers, WriterRuns(w) PROVE Promise!Next
    <2>1. CASE CompleteRow(w) /\ rows' # rows
      BY <2>1, CompleteRowPublishes DEF Promise!Next
    <2>2. CASE ~(CompleteRow(w) /\ rows' # rows)
      BY <1>2, <1>5, <2>2 DEF WriterRuns, LoadKey, Length, OpenPartial, StatPartial, CopyBlock,
         EndChunk, FinishBlob, CompleteRow, env, table
    <2> QED BY <2>1, <2>2
  <1>6. ASSUME NEW d \in Deleters, DeleterRuns(d) PROVE Promise!Next
    <2>1. CASE DeleteRow(d) /\ rows' # rows
      BY <2>1, DeleteRowRemoves DEF Promise!Next
    <2>2. CASE Checkpoint(d) /\ d # Reaper
      <3>1. d \in Revokers
        BY <2>2 DEF Deleters
      <3> QED BY <2>2, <3>1, CheckpointConfirms DEF Promise!Next
    <2>3. CASE ~(DeleteRow(d) /\ rows' # rows) /\ ~(Checkpoint(d) /\ d # Reaper)
      BY <1>2, <1>6, <2>3 DEF DeleterRuns, DeleteRow, ForgetAttempts, RemoveFinal, RemovePartial,
         Checkpoint, env, table
    <2> QED BY <2>1, <2>2, <2>3
  <1>7. ASSUME NEW d \in Revokers, RevokeReply(d) \/ \E id \in Ids : RevokeGet(d, id)
        PROVE  Promise!Next
    BY <1>2, <1>7 DEF RevokeReply, RevokeGet, env, table
  <1>8. ASSUME \/ \E batch \in SUBSET Ids : ReapList(batch)
               \/ \E id \in Ids : ReapNext(id)
               \/ ReapEnd \/ Tick
        PROVE  Promise!Next
    BY <1>2, <1>8 DEF ReapList, ReapNext, ReapEnd, Tick, env, table
  <1>9. ASSUME NEW d \in Readers, NEW id \in Ids, Authenticate(d, id) PROVE Promise!Next
    BY <1>9, AuthenticateAdmits DEF Promise!Next
  <1>10. ASSUME NEW d \in Readers, ReaderRuns(d) PROVE Promise!Next
    <2>1. CASE OpenContent(d) /\ final[dl[d].id] # NoFile
      BY <2>1, OpenContentBegins DEF Promise!Next
    <2>2. CASE RecordServed(d)
      <3>1. \A x \in Ids : UploadSame(x)
        BY <2>2, ServedSame
      <3>2. \A r \in Readers : AbsReading(r)' \in {AbsReading(r), NotReading}
        BY <2>2, ReaderAside
      <3>3. revoked' = revoked
        BY <2>2 DEF RecordServed
      <3> QED BY <3>1, <3>2, <3>3, StepLeaves
    <2>3. CASE \/ Allow(d) \/ ForgetOnSuccess(d) \/ \E n \in 0 .. Response(MaxSize) : Serve(d, n)
               \/ OpenContent(d) /\ final[dl[d].id] = NoFile
      <3>1. \A r \in Readers : AbsReading(r)' \in {AbsReading(r), NotReading}
        BY <2>3, ReaderAside
      <3>2. UNCHANGED <<rows, used, revoked>>
        BY <2>3 DEF Allow, ForgetOnSuccess, Serve, OpenContent, env, table
      <3> QED BY <1>1, <3>1, <3>2
    <2> QED BY <1>10, <2>1, <2>2, <2>3 DEF ReaderRuns
  <1>11. CASE Crash
    <2>1. \A r \in Readers : AbsReading(r)' = NotReading
      BY <1>11 DEF Crash, NoDl, AbsReading
    <2> QED BY <1>1, <1>11, <2>1 DEF Crash, table
  <1>12. CASE UNCHANGED vars
    BY <1>2, <1>12 DEF vars
  <1> QED BY <1>3, <1>4, <1>5, <1>6, <1>7, <1>8, <1>9, <1>10, <1>11, <1>12
    DEF Next, Requests, ReaperRuns, Deleters

LEMMA InitKeepsPromise == Init => Promise!Init
  <1> SUFFICES ASSUME Init PROVE Promise!Init
    OBVIOUS
  <1>1. \A x \in Ids : ~Exists(x) /\ x \notin used
    BY DEF Init, Exists
  <1>2. \A x \in Ids : AbsState(x) = "absent" /\ AbsSize(x) = 0 /\ AbsBody(x) = NoFile
    BY <1>1 DEF AbsState, AbsSize, AbsBody, Pending, Published
  <1>3. \A r \in Readers : AbsReading(r) = NotReading
    BY DEF Init, NoDl, AbsReading
  <1> QED BY <1>2, <1>3 DEF Init, Promise!Init

(* The server keeps its promise: whatever requests, deletions, failures    *)
(* and crashes it meets, on a table and files that no lock spans, what it  *)
(* shows of an upload is a behaviour of UploadPromise, provided a client   *)
(* sends its write requests one at a time.                                 *)
THEOREM PromiseKept == Serial => (Spec => KeepsPromise)
  <1> SUFFICES ASSUME Serial PROVE Spec => Promise!Spec
    BY DEF KeepsPromise
  <1>1. IInv /\ [Next]_vars => [Promise!Next]_Promise!vars
    BY StepKeepsPromise
  <1>2. Spec => []IInv
    BY IInvAlways
  <1> QED BY <1>1, <1>2, InitKeepsPromise, PTL DEF Spec, Promise!Spec
=============================================================================
