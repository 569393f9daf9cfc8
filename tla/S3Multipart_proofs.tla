------------------------- MODULE S3Multipart_proofs -------------------------
(***************************************************************************)
(* The object-store backend: the bytes of a chunk that was answered stay   *)
(* stored, writeChunk reports what it stored, an undisturbed upload is the *)
(* file that was sent, and a deletion leaves nothing, for files and parts  *)
(* of any size and any number of failures and crashes.                     *)
(***************************************************************************)
EXTENDS S3Multipart, SequenceTheorems, TLAPS

-----------------------------------------------------------------------------
(* The operators.                                                          *)

LEMMA MaxOne ==
  ASSUME NEW a \in Int
  PROVE  Max({a}) = a
  BY DEF Max

LEMMA MaxPair ==
  ASSUME NEW a \in Int, NEW b \in Int
  PROVE  Max({a, b}) \in {a, b} /\ Max({a, b}) >= a /\ Max({a, b}) >= b
  <1>1. \E x \in {a, b} : \A y \in {a, b} : x >= y
    OBVIOUS
  <1>2. Max({a, b}) \in {a, b} /\ \A y \in {a, b} : Max({a, b}) >= y
    BY <1>1 DEF Max
  <1> QED BY <1>2

(* uploadIDFor finds the one upload there is.                              *)
LEMMA NewestFacts ==
  ASSUME OneUpload
  PROVE  /\ InProgress = {} => Newest = 0
         /\ \A u \in InProgress : Newest = u /\ InProgress = {u}
         /\ Newest # 0 => Newest \in InProgress
         /\ Newest = 0 => InProgress = {}
  <1>1. \A u \in InProgress : InProgress = {u} /\ u \in Nat \ {0}
    BY DEF OneUpload, InProgress, Uploads
  <1>2. ASSUME NEW u \in InProgress PROVE Newest = u
    BY <1>1, MaxOne DEF Newest
  <1> QED BY <1>1, <1>2 DEF Newest

(* Pieces of the file.                                                     *)
LEMMA FollowsConcat ==
  ASSUME NEW s \in Seq(Nat), NEW t \in Seq(Nat), NEW a \in Nat, Follows(s, a), Follows(t, a + Len(s))
  PROVE  Follows(s \o t, a)
  <1>1. Len(s) \in Nat /\ Len(t) \in Nat /\ Len(s \o t) = Len(s) + Len(t)
    OBVIOUS
  <1>2. ASSUME NEW i \in 1 .. Len(s \o t) PROVE (s \o t)[i] = a + i
    <2>1. CASE i <= Len(s)
      BY <1>1, <2>1 DEF Follows
    <2>2. CASE i > Len(s)
      <3>1. (s \o t)[i] = t[i - Len(s)] /\ i - Len(s) \in 1 .. Len(t)
        BY <1>1, <2>2
      <3> QED BY <1>1, <3>1 DEF Follows
    <2> QED BY <1>1, <2>1, <2>2
  <1> QED BY <1>2 DEF Follows

LEMMA FollowsSplit ==
  ASSUME NEW s \in Seq(Nat), NEW a \in Nat, NEW k \in Nat, k <= Len(s), Follows(s, a)
  PROVE  /\ Follows(SubSeq(s, 1, k), a) /\ Follows(SubSeq(s, k + 1, Len(s)), a + k)
         /\ Len(SubSeq(s, 1, k)) = k /\ Len(SubSeq(s, k + 1, Len(s))) = Len(s) - k
  <1>0. Len(s) \in Nat
    OBVIOUS
  <1>1. Len(SubSeq(s, 1, k)) = k /\ \A i \in 1 .. k : SubSeq(s, 1, k)[i] = s[i]
    BY <1>0
  <1>2. /\ Len(SubSeq(s, k + 1, Len(s))) = Len(s) - k
        /\ \A i \in 1 .. Len(s) - k : SubSeq(s, k + 1, Len(s))[i] = s[k + i]
    BY <1>0
  <1> QED BY <1>0, <1>1, <1>2 DEF Follows

(* What is held in two pieces.                                             *)
LEMMA HeldConcat ==
  ASSUME NEW s \in Seq(Nat), NEW t \in Seq(Nat)
  PROVE  Held(s \o t) = Held(s) \cup Held(t)
  <1>1. Len(s) \in Nat /\ Len(t) \in Nat /\ Len(s \o t) = Len(s) + Len(t)
    OBVIOUS
  <1>2. ASSUME NEW i \in 1 .. Len(s \o t) PROVE (s \o t)[i] \in Held(s) \cup Held(t)
    <2>1. CASE i <= Len(s)
      BY <1>1, <2>1 DEF Held
    <2>2. CASE i > Len(s)
      <3>1. (s \o t)[i] = t[i - Len(s)] /\ i - Len(s) \in 1 .. Len(t)
        BY <1>1, <2>2
      <3> QED BY <3>1 DEF Held
    <2> QED BY <1>1, <2>1, <2>2
  <1>3. ASSUME NEW i \in 1 .. Len(s) PROVE s[i] \in Held(s \o t)
    <2>1. i \in 1 .. Len(s \o t) /\ (s \o t)[i] = s[i]
      BY <1>1
    <2> QED BY <2>1 DEF Held
  <1>4. ASSUME NEW i \in 1 .. Len(t) PROVE t[i] \in Held(s \o t)
    <2>1. Len(s) + i \in 1 .. Len(s \o t) /\ (s \o t)[Len(s) + i] = t[i]
      BY <1>1
    <2> QED BY <2>1 DEF Held
  <1> QED BY <1>2, <1>3, <1>4 DEF Held

LEMMA HeldSplit ==
  ASSUME NEW s \in Seq(Nat), NEW k \in Nat, k <= Len(s)
  PROVE  Held(s) = Held(SubSeq(s, 1, k)) \cup Held(SubSeq(s, k + 1, Len(s)))
  <1>0. Len(s) \in Nat
    OBVIOUS
  <1>1. Len(SubSeq(s, 1, k)) = k /\ \A i \in 1 .. k : SubSeq(s, 1, k)[i] = s[i]
    BY <1>0
  <1>2. /\ Len(SubSeq(s, k + 1, Len(s))) = Len(s) - k
        /\ \A i \in 1 .. Len(s) - k : SubSeq(s, k + 1, Len(s))[i] = s[k + i]
    BY <1>0
  <1> DEFINE a == SubSeq(s, 1, k)
             b == SubSeq(s, k + 1, Len(s))
  <1>3. Held(a) = {s[i] : i \in 1 .. k}
    BY <1>1 DEF Held
  <1>4. Held(b) = {s[k + i] : i \in 1 .. Len(s) - k}
    BY <1>2 DEF Held
  <1>5. {s[k + i] : i \in 1 .. Len(s) - k} = {s[j] : j \in (k + 1) .. Len(s)}
    <2>1. ASSUME NEW j \in (k + 1) .. Len(s) PROVE \E i \in 1 .. Len(s) - k : s[k + i] = s[j]
      <3>1. j - k \in 1 .. Len(s) - k /\ k + (j - k) = j
        BY <1>0
      <3> QED BY <3>1
    <2>2. ASSUME NEW i \in 1 .. Len(s) - k PROVE k + i \in (k + 1) .. Len(s)
      BY <1>0
    <2> QED BY <2>1, <2>2
  <1>6. 1 .. Len(s) = (1 .. k) \cup ((k + 1) .. Len(s))
    BY <1>0
  <1> HIDE DEF a, b
  <1>7. Held(s) = Held(a) \cup Held(b)
    BY <1>3, <1>4, <1>5, <1>6 DEF Held
  <1> QED BY <1>7 DEF a, b

LEMMA FollowsHeld ==
  ASSUME NEW s \in Seq(Nat), NEW a \in Nat, Follows(s, a)
  PROVE  Held(s) = Chunk(a, Len(s))
  <1>1. Len(s) \in Nat /\ \A i \in 1 .. Len(s) : s[i] = a + i
    BY DEF Follows
  <1>2. ASSUME NEW x \in Chunk(a, Len(s)) PROVE x \in Held(s)
    <2>1. x - a \in 1 .. Len(s) /\ s[x - a] = x
      BY <1>1 DEF Chunk
    <2> QED BY <2>1 DEF Held
  <1>3. ASSUME NEW i \in 1 .. Len(s) PROVE s[i] \in Chunk(a, Len(s))
    BY <1>1 DEF Chunk
  <1> QED BY <1>2, <1>3 DEF Held

LEMMA FollowsFile ==
  ASSUME NEW s \in Seq(Nat), Follows(s, 0)
  PROVE  s = File(Len(s))
  <1>1. s = [i \in 1 .. Len(s) |-> s[i]] /\ Len(s) \in Nat
    OBVIOUS
  <1> QED BY <1>1 DEF Follows, File

-----------------------------------------------------------------------------
(* Types.                                                                  *)

(* Sequences over the file.                                                *)
LEMMA Bytes ==
  ASSUME NEW S
  PROVE  /\ <<>> \in Seq(S)
         /\ \A s, t \in Seq(S) : s \o t \in Seq(S) /\ Len(s \o t) = Len(s) + Len(t)
         /\ \A s \in Seq(S) : Len(s) \in Nat
  OBVIOUS

LEMMA BytesSplit ==
  ASSUME NEW S, NEW s \in Seq(S), NEW k \in Nat, k <= Len(s)
  PROVE  /\ SubSeq(s, 1, k) \in Seq(S) /\ Len(SubSeq(s, 1, k)) = k
         /\ SubSeq(s, k + 1, Len(s)) \in Seq(S) /\ Len(SubSeq(s, k + 1, Len(s))) = Len(s) - k
  <1>1. Len(s) \in Nat
    OBVIOUS
  <1>2. SubSeq(s, 1, k) \in Seq(S) /\ SubSeq(s, k + 1, Len(s)) \in Seq(S)
    BY <1>1, SubSeqProperties
  <1> QED BY <1>1, <1>2

LEMMA InitType == Init => TypeInv
  <1> SUFFICES ASSUME Init PROVE TypeInv
    OBVIOUS
  <1>0. PartSize \in Nat \ {0} /\ MaxUploads \in Nat /\ size \in Sizes
    BY MultipartAssumption DEF MultipartAssumption, Init
  <1>1. Idle \in Req /\ <<>> \in Seq(1 .. size)
    BY DEF Idle, Req, ReqPC
  <1>2. req \in Req
    BY <1>1 DEF Init, Req, ReqPC
  <1>3. req.read = 0 /\ req.pc \in {"idle", "list"} /\ req.src = <<>> /\ req.rep = 0
    BY DEF Init, Idle
  <1>4. /\ started \in 0 .. MaxUploads /\ del \in [pc : DelPC, left : SUBSET Uploads] /\ del.left = {}
        /\ mp \in [Uploads -> [n : Nat, data : Seq(1 .. size)] \cup {NoUpload}]
    BY <1>0 DEF Init, NoDel, DelPC
  <1>5. tail \in Seq(1 .. size) /\ Len(tail) = 0 /\ object \in Seq(1 .. size) \cup {NoObject}
    BY <1>1 DEF Init
  <1>6. /\ req.src \in Seq(1 .. size) /\ req.read \in Nat /\ req.rep \in Nat
    BY <1>1, <1>3
  <1>7. known = 0 /\ acked = {} /\ size \in Sizes /\ row = "pending"
    BY DEF Init
  <1>8. TypeOK
    BY <1>0, <1>4, <1>5, <1>6, <1>7 DEF TypeOK
  <1> QED BY <1>2, <1>3, <1>4, <1>8 DEF Init, TypeInv, Located

(* The parts of TypeInv by name, for the steps of a request.               *)
LEMMA TypeFacts ==
  ASSUME TypeInv
  PROVE  /\ PartSize \in Nat \ {0} /\ size \in Nat /\ req \in Req
         /\ req.src \in Seq(1 .. size) /\ tail \in Seq(1 .. size) /\ Len(tail) \in Nat
         /\ \A u \in Uploads : mp[u] # NoUpload => mp[u].n \in Nat /\ mp[u].data \in Seq(1 .. size)
         /\ NoUpload \notin [n : Nat, data : Seq(1 .. size)] /\ NoObject \notin Seq(1 .. size)
         /\ Seq(1 .. size) \subseteq Seq(Nat)
  <1>1. PartSize \in Nat \ {0} /\ size \in Nat
    BY MultipartAssumption DEF MultipartAssumption, TypeInv, TypeOK
  <1>2. Seq(1 .. size) \subseteq Seq(Nat)
    BY <1>1, SeqMonotonic DEF TypeInv, TypeOK
  <1>3. NoUpload \notin [n : Nat, data : Seq(1 .. size)] /\ NoObject \notin Seq(1 .. size)
    BY <1>2, MultipartAssumption DEF MultipartAssumption
  <1>4. Len(tail) \in Nat
    BY Bytes DEF TypeInv, TypeOK
  <1> QED BY <1>1, <1>2, <1>3, <1>4 DEF TypeInv, TypeOK

(* A step that leaves the store's types alone is typed by its request.     *)
LEMMA RequestTyped ==
  ASSUME TypeInv, req' \in Req, UNCHANGED <<size, del>>, UNCHANGED row \/ row' = "complete",
         started' \in 0 .. MaxUploads,
         mp' \in [Uploads -> [n : Nat, data : Seq(1 .. size)] \cup {NoUpload}],
         tail' \in Seq(1 .. size), Len(tail') < PartSize, object' \in Seq(1 .. size) \cup {NoObject},
         known' \in Nat \cup {Unknown}, acked' \subseteq Nat, faults' \in Nat, crashes' \in Nat,
         req'.pc \in Located => req'.up \in Uploads,
         req'.pc \in Before => req'.read = 0
  PROVE  TypeInv'
  <1>1. req'.src \in Seq(1 .. size) /\ req'.read \in Nat /\ req'.rep \in Nat
    BY DEF Req
  <1>2. TypeOK'
    BY <1>1 DEF TypeInv, TypeOK
  <1>3. Req' = Req
    BY DEF Req
  <1> QED BY <1>2, <1>3 DEF TypeInv

-----------------------------------------------------------------------------
(* Steps of a request that leave the object store alone.                   *)

store == <<size, row, started, mp, tail, object, del, alone, crashes>>

(* While a request is handled, or may begin, no deletion found it gone.    *)
LEMMA NotAlone ==
  ASSUME Inv, req.pc # "idle" \/ row = "pending"
  PROVE  ~alone /\ (row # "gone" /\ req.pc # "idle" => row = "pending")
  BY DEF Inv, Clearing, TypeInv, TypeOK, RequestOK

LEMMA ClearingKept ==
  ASSUME Clearing, ~alone, UNCHANGED <<del, alone>>, (row' = "gone") = (row = "gone")
  PROVE  Clearing'
  BY DEF Clearing

(* The request ends where the store was last seen whole.                   *)
LEMMA Stops ==
  ASSUME Inv, req.pc # "idle", req' = Idle, UNCHANGED store, known' \in Nat \cup {Unknown}, acked' \subseteq Nat,
         Kept', faults' \in Nat, faults' = 0 => faults = 0,
         faults' # 0 \/ row # "pending" \/ req.pc \notin {"copy", "complete", "untail", "row"}
  PROVE  Inv'
  <1>0. TypeInv /\ TypeOK /\ OneUpload /\ RequestOK /\ Content /\ Clearing /\ ~alone
    BY NotAlone DEF Inv, TypeInv
  <1>1. Idle \in Req /\ Idle.pc = "idle" /\ Idle.read = 0 /\ Idle.op = "none"
    BY Bytes DEF Idle, Req, ReqPC
  <1>2. TypeInv'
    BY <1>0, <1>1, RequestTyped DEF store, TypeOK, TypeInv, Located
  <1>3. OneUpload' /\ Clearing'
    BY <1>0, ClearingKept DEF store, OneUpload, InProgress
  <1>4. RequestOK'
    BY <1>1 DEF RequestOK, Accurate, Replacing, Carrying, Located
  <1>5. Content'
    <2> SUFFICES ASSUME faults' + crashes' = 0, row' # "gone" PROVE Content'
      BY DEF Content
    <2>0. faults \in Nat /\ crashes \in Nat /\ UNCHANGED crashes
      BY <1>0 DEF store, TypeInv
    <2>1. faults' = 0 /\ faults + crashes = 0
      <3>1. \A a, b \in Nat : a + b = 0 <=> a = 0 /\ b = 0
        OBVIOUS
      <3>2. crashes' \in Nat /\ crashes' = crashes
        BY <2>0
      <3> QED BY <2>0, <3>1, <3>2
    <2>2. row = "pending"
      BY NotAlone DEF store
    <2>3. object = NoObject
      BY <1>0, <2>1, <2>2 DEF Content, store
    <2>4. \A u \in InProgress : Follows(mp[u].data, 0) /\ Follows(tail, Len(mp[u].data))
      BY <1>0, <2>1, <2>2, <2>3 DEF Content, store
    <2> QED BY <1>1, <2>3, <2>4 DEF Content, store, InProgress, Follows
  <1> QED BY <1>2, <1>3, <1>4, <1>5 DEF Inv

(* A call that failed and had no effect.                                   *)
LEMMA FailsClean ==
  ASSUME Inv, req.pc # "idle", Failed, UNCHANGED store, UNCHANGED acked,
         \/ faults' = faults + 1
         \/ /\ UNCHANGED faults
            /\ row # "pending" \/ req.pc \notin {"copy", "complete", "untail", "row"}
  PROVE  Inv'
  <1>1. Kept' /\ faults' \in Nat /\ (faults' = 0 => faults = 0) /\ acked' \subseteq Nat
    <2>1. Kept /\ faults \in Nat /\ acked \subseteq Nat
      BY DEF Inv, TypeInv, TypeOK
    <2>2. InProgress' = InProgress
      BY DEF store, InProgress
    <2>3. Kept'
      BY <2>1, <2>2 DEF Kept, store, Held
    <2> QED BY <2>1, <2>3
  <1>2. faults' # 0 \/ row # "pending" \/ req.pc \notin {"copy", "complete", "untail", "row"}
    BY DEF Inv, TypeInv
  <1> QED BY <1>1, <1>2, Stops DEF Failed

LEMMA AskKeeps ==
  ASSUME Inv, Ask
  PROVE  Inv'
  <1>0. TypeInv /\ TypeOK /\ OneUpload /\ Kept /\ RequestOK /\ Content /\ Clearing /\ ~alone
    BY NotAlone DEF Inv, TypeInv, Ask
  <1>1. /\ req' \in Req /\ req'.pc = "list" /\ req'.op = "length" /\ req'.read = 0
        /\ req.pc = "idle" /\ row = "pending" /\ UNCHANGED <<store, known, acked, faults>>
    BY Bytes DEF Ask, Idle, Req, ReqPC, history, blobs, store
  <1>2. TypeInv'
    BY <1>0, <1>1, RequestTyped DEF store, TypeOK, TypeInv, Located
  <1>3. OneUpload' /\ Kept' /\ Clearing'
    BY <1>0, <1>1, ClearingKept DEF store, OneUpload, Kept, InProgress, Held
  <1>4. RequestOK'
    BY <1>1 DEF RequestOK, Accurate, Replacing, Carrying, Located, store
  <1>5. Content'
    BY <1>0, <1>1 DEF Content, store, InProgress, Follows
  <1> QED BY <1>2, <1>3, <1>4, <1>5 DEF Inv

LEMMA SendKeeps ==
  ASSUME Inv, NEW k \in 0 .. size, Send(k)
  PROVE  Inv'
  <1>0. TypeInv /\ TypeOK /\ OneUpload /\ Kept /\ RequestOK /\ Content /\ Clearing /\ ~alone /\ size \in Nat
    BY NotAlone, TypeFacts DEF Inv, TypeInv, Send
  <1>1. known \in Nat /\ k \in Nat /\ known + k <= size
    BY <1>0 DEF Send, TypeOK
  <1> DEFINE src == [i \in 1 .. k |-> known + i]
  <1>2. src \in Seq(1 .. size) /\ Follows(src, known)
    <2>1. \A i \in 1 .. k : known + i \in 1 .. size
      BY <1>0, <1>1
    <2>2. src \in Seq(1 .. size) /\ Len(src) = k
      BY <1>1, <2>1
    <2> QED BY <2>2 DEF Follows
  <1> HIDE DEF src
  <1>3. req' = [Idle EXCEPT !.pc = "list", !.op = "write", !.off = known, !.src = src]
    BY DEF Send, src
  <1>4. /\ req' \in Req /\ req'.pc = "list" /\ req'.op = "write" /\ req'.read = 0
        /\ req'.src = src /\ req'.off = known
    BY <1>1, <1>2, <1>3 DEF Idle, Req, ReqPC
  <1>5. req.pc = "idle" /\ row = "pending" /\ UNCHANGED <<store, known, acked, faults>>
    BY DEF Send, history, blobs, store
  <1>6. TypeInv'
    BY <1>0, <1>4, <1>5, RequestTyped DEF store, TypeOK, TypeInv, Located
  <1>7. OneUpload' /\ Kept' /\ Clearing'
    BY <1>0, <1>5, ClearingKept DEF store, OneUpload, Kept, InProgress, Held
  <1>8. RequestOK'
    BY <1>2, <1>4, <1>5 DEF RequestOK, Accurate, Replacing, Carrying, Follows, Located, store
  <1>9. Content'
    BY <1>0, <1>2, <1>4, <1>5 DEF Content, store, InProgress, Follows
  <1> QED BY <1>6, <1>7, <1>8, <1>9 DEF Inv

(* What was resolved is what the store holds, if the row is still there.   *)
LEMMA ResolveKeeps ==
  ASSUME Inv, req.pc \in {"list", "stat"}, NEW up \in Nat, NEW n \in Nat, NEW stored \in Nat, NEW t \in Nat,
         up = 0 => InProgress = {} /\ stored = 0 /\ t = 0,
         up # 0 => /\ up \in Uploads /\ t = Len(tail)
                   /\ row = "pending" => mp[up] # NoUpload /\ stored = Len(mp[up].data),
         Resolve(up, n, stored, t), UNCHANGED <<store, acked, faults>>
  PROVE  Inv'
  <1>0. /\ TypeInv /\ TypeOK /\ OneUpload /\ Kept /\ RequestOK /\ Content /\ Clearing /\ ~alone
        /\ req \in Req /\ row # "complete" /\ req.read = 0
    BY NotAlone DEF Inv, TypeInv, RequestOK, Before
  <1>1. \A u \in InProgress : row = "pending" => u = up /\ Total(u) = stored + t
    BY <1>0 DEF OneUpload, InProgress, Total
  <1>2. CASE req.op = "length" /\ req' = Idle /\ known' = stored + t
    <2>1. stored + t \in Nat /\ acked' \subseteq Nat
      BY <1>0 DEF TypeOK
    <2>2. Kept'
      BY <1>0 DEF Kept, store, InProgress, Held
    <2> QED BY <1>0, <1>2, <2>1, <2>2, Stops DEF TypeInv
  <1>3. CASE Failed
    BY <1>3, FailsClean
  <1>4. CASE /\ req.op = "write" /\ req.off = stored + t
             /\ req' = [req EXCEPT !.pc = IF up = 0 THEN "create" ELSE "head",
                           !.up = up, !.n = n, !.stored = stored, !.tail = t]
             /\ UNCHANGED known
    <2>1. /\ req' \in Req /\ req'.op = "write" /\ req'.read = 0 /\ req'.src = req.src /\ req'.off = req.off
          /\ req'.up = up /\ req'.stored = stored /\ req'.tail = t
          /\ req'.pc = IF up = 0 THEN "create" ELSE "head"
      BY <1>0, <1>4 DEF Req, ReqPC
    <2>2. TypeInv'
      <3>1. req'.pc \in Located => req'.up \in Uploads
        BY <2>1 DEF Located
      <3> QED BY <1>0, <1>4, <2>1, <3>1, RequestTyped DEF store, TypeOK, TypeInv
    <2>3. OneUpload' /\ Kept' /\ Clearing'
      BY <1>0, <1>4, ClearingKept DEF store, OneUpload, Kept, InProgress, Held
    <2>4. Accurate' /\ Replacing' /\ Carrying'
      <3>1. Accurate' /\ Replacing'
        BY <1>4, <2>1 DEF Accurate, Replacing, Located, store
      <3>2. Carrying'
        BY <1>0, <1>4, <2>1 DEF RequestOK, Carrying, Follows, Before
      <3> QED BY <3>1, <3>2
    <2>5. RequestOK'
      BY <1>0, <2>1, <2>4 DEF RequestOK, store, InProgress
    <2>6. Content'
      <3>1. req'.pc \in {"create", "head"} /\ req.pc \in Before
        BY <2>1 DEF Before
      <3>2. InProgress' = InProgress /\ File(size)' = File(size)
        BY DEF store, InProgress, File
      <3> SUFFICES ASSUME faults' + crashes' = 0, row' # "gone" PROVE Content'
        BY DEF Content
      <3>3. faults + crashes = 0 /\ row = "pending"
        BY <1>0, NotAlone DEF store
      <3>4. /\ \A u \in InProgress : Follows(mp[u].data, 0) /\ Follows(tail, Len(mp[u].data))
            /\ object = NoObject
        BY <1>0, <1>4, <3>1, <3>3 DEF Content
      <3> QED BY <2>1, <3>1, <3>2, <3>4 DEF Content, store, Follows
    <2> QED BY <2>2, <2>3, <2>5, <2>6 DEF Inv
  <1>5. CASE /\ req.op = "finish" /\ up # 0
             /\ req' = [req EXCEPT !.pc = IF stored + t = 0 THEN "abort"
                                          ELSE IF t > 0 THEN "last" ELSE "complete",
                           !.up = up, !.n = n, !.stored = stored, !.tail = t]
             /\ UNCHANGED known
    <2>1. /\ req' \in Req /\ req'.op = "finish" /\ req'.up = up
          /\ req'.pc = IF stored + t = 0 THEN "abort" ELSE IF t > 0 THEN "last" ELSE "complete"
      BY <1>0, <1>5 DEF Req, ReqPC
    <2>2. TypeInv'
      BY <1>0, <1>5, <2>1, RequestTyped, SMTT(30) DEF store, TypeOK, TypeInv, Before
    <2>3. OneUpload' /\ Kept' /\ Clearing'
      BY <1>0, <1>5, ClearingKept DEF store, OneUpload, Kept, InProgress, Held
    <2>4. Accurate' /\ Replacing' /\ Carrying'
      <3>1. Accurate' /\ Replacing'
        BY <1>0, <1>5, <2>1 DEF Accurate, Replacing, Located, store, Total
      <3>2. Carrying'
        BY <1>5, <2>1 DEF Carrying
      <3> QED BY <3>1, <3>2
    <2>5. RequestOK'
      BY <1>0, <2>1, <2>4 DEF RequestOK, store, InProgress
    <2>6. Content'
      <3> SUFFICES ASSUME faults' + crashes' = 0, row' # "gone" PROVE Content'
        BY DEF Content
      <3>1. row = "pending" /\ faults + crashes = 0
        BY NotAlone DEF store
      <3>2. /\ object = NoObject
            /\ \A u \in InProgress :
                 Follows(mp[u].data, 0) /\ Follows(tail, Len(mp[u].data)) /\ Total(u) = size
        BY <1>0, <1>5, <3>1 DEF Content
      <3>3. up \in InProgress /\ stored + t = size
        BY <1>1, <1>5, <3>1, <3>2 DEF InProgress
      <3>4. req'.pc = "complete" => Len(mp[up].data) = size
        BY <1>5, <2>1, <3>1, <3>3
      <3> QED BY <1>5, <2>1, <3>2, <3>3, <3>4 DEF Content, store, InProgress, Follows, Before, Total
    <2> QED BY <2>2, <2>3, <2>5, <2>6 DEF Inv
  <1> QED BY <1>2, <1>3, <1>4, <1>5 DEF Resolve

(* The request learns a little more of the store.                          *)
LEMMA Walks ==
  ASSUME Inv, req.pc \in {"list", "parts"}, req' \in Req, req'.pc \in {"parts", "stat"},
         req'.op = req.op, req'.src = req.src, req'.off = req.off, req'.read = req.read,
         req'.up \in Uploads, row = "pending" => mp[req'.up] # NoUpload,
         req'.pc = "stat" => req'.stored = Len(mp[req'.up].data),
         UNCHANGED <<store, known, acked, faults>>
  PROVE  Inv'
  <1>0. /\ TypeInv /\ TypeOK /\ OneUpload /\ Kept /\ RequestOK /\ Content /\ Clearing /\ ~alone
        /\ req \in Req /\ row # "complete" /\ req.read = 0
    BY NotAlone DEF Inv, TypeInv, RequestOK, Before
  <1>1. TypeInv'
    BY <1>0, RequestTyped DEF store, TypeOK, TypeInv
  <1>2. OneUpload' /\ Kept' /\ Clearing'
    BY <1>0, ClearingKept DEF store, OneUpload, Kept, InProgress, Held
  <1>3. RequestOK'
    BY <1>0 DEF RequestOK, Accurate, Replacing, Carrying, Follows, Before, Located, store, InProgress
  <1>4. Content'
    BY <1>0 DEF Content, store, InProgress, Follows, Before, Total
  <1> QED BY <1>1, <1>2, <1>3, <1>4 DEF Inv

LEMMA ListUploadsKeeps ==
  ASSUME Inv, ListUploads
  PROVE  Inv'
  <1>0. OneUpload /\ req \in Req /\ req.pc = "list" /\ UNCHANGED <<store, acked, faults>>
    BY DEF Inv, TypeInv, ListUploads, blobs, history, store
  <1>1. CASE Newest = 0
    BY <1>0, <1>1, NewestFacts, ResolveKeeps DEF ListUploads
  <1>2. CASE Newest # 0
    <2>1. Newest \in Uploads /\ mp[Newest] # NoUpload /\ Newest \in Nat
      BY <1>0, <1>2, NewestFacts DEF InProgress, Uploads
    <2>2. req' = [req EXCEPT !.pc = "parts", !.up = Newest] /\ UNCHANGED known
      BY <1>2 DEF ListUploads
    <2>3. /\ req' \in Req /\ req'.pc = "parts" /\ req'.up = Newest /\ req'.op = req.op
          /\ req'.src = req.src /\ req'.off = req.off /\ req'.read = req.read
      BY <1>0, <2>1, <2>2 DEF Req, ReqPC
    <2> QED BY <1>0, <2>1, <2>2, <2>3, Walks
  <1> QED BY <1>1, <1>2

LEMMA ListPartsKeeps ==
  ASSUME Inv, ListParts
  PROVE  Inv'
  <1>0. /\ TypeInv /\ req \in Req /\ req.pc = "parts" /\ req.up \in Uploads
        /\ UNCHANGED <<store, acked, faults>>
    BY DEF Inv, TypeInv, ListParts, blobs, history, store, Located
  <1>1. CASE mp[req.up] = NoUpload
    BY <1>0, <1>1, FailsClean DEF ListParts
  <1>2. CASE mp[req.up] # NoUpload
    <2>1. mp[req.up].n \in Nat /\ Len(mp[req.up].data) \in Nat
      BY <1>0, <1>2, TypeFacts, Bytes
    <2>2. /\ req' = [req EXCEPT !.pc = "stat", !.n = mp[req.up].n, !.stored = Len(mp[req.up].data)]
          /\ UNCHANGED known
      BY <1>2 DEF ListParts
    <2>3. /\ req' \in Req /\ req'.pc = "stat" /\ req'.up = req.up /\ req'.op = req.op
          /\ req'.src = req.src /\ req'.off = req.off /\ req'.read = req.read
          /\ req'.stored = Len(mp[req.up].data)
      BY <1>0, <2>1, <2>2 DEF Req, ReqPC
    <2> QED BY <1>0, <1>2, <2>2, <2>3, Walks
  <1> QED BY <1>1, <1>2

LEMMA StatTailKeeps ==
  ASSUME Inv, StatTail
  PROVE  Inv'
  <1>1. /\ TypeInv /\ req.pc = "stat" /\ UNCHANGED <<store, acked, faults>> /\ req.up \in Uploads
        /\ Resolve(req.up, req.n, req.stored, Len(tail))
    BY DEF Inv, TypeInv, StatTail, blobs, history, store, Located
  <1>2. req.up \in Nat \ {0} /\ req.n \in Nat /\ req.stored \in Nat /\ Len(tail) \in Nat
    BY <1>1, TypeFacts DEF Req, Uploads
  <1>3. row = "pending" => mp[req.up] # NoUpload /\ req.stored = Len(mp[req.up].data)
    BY <1>1 DEF Inv, RequestOK, Accurate, Located
  <1> QED BY <1>1, <1>2, <1>3, ResolveKeeps

LEMMA ReadTailKeeps ==
  ASSUME Inv, ReadTail
  PROVE  Inv'
  <1>0. /\ TypeInv /\ TypeOK /\ OneUpload /\ Kept /\ RequestOK /\ Content /\ Clearing /\ ~alone
        /\ req \in Req /\ row # "complete" /\ req.read = 0 /\ req.pc = "head" /\ req.up \in Uploads
        /\ UNCHANGED <<store, known, acked, faults>>
    BY NotAlone DEF Inv, TypeInv, RequestOK, Before, Located, ReadTail, history, blobs, store
  <1> DEFINE h == IF req.tail > 0 THEN tail ELSE <<>>
             src == h \o req.src
  <1>1. h \in Seq(1 .. size) /\ req.src \in Seq(1 .. size)
    BY <1>0, TypeFacts, Bytes
  <1>2. src \in Seq(1 .. size) /\ Len(src) = Len(h) + Len(req.src) /\ Len(h) \in Nat /\ Len(req.src) \in Nat
    BY <1>1, Bytes
  <1>3. req.tail \in Nat /\ Len(<<>>) = 0 /\ Len(tail) \in Nat
    BY <1>0, TypeFacts DEF Req
  <1>4. req.tail \in {0, Len(tail)} => Len(h) = req.tail
    BY <1>3
  <1>5. req' = [req EXCEPT !.pc = "copy", !.src = src, !.carried = Len(h)]
    BY DEF ReadTail
  <1>6. ASSUME faults + crashes = 0, row = "pending"
        PROVE  /\ object = NoObject
               /\ \A u \in InProgress : Follows(mp[u].data, 0) /\ Follows(src, Len(mp[u].data))
    <2>1. object = NoObject /\ Follows(req.src, req.off)
      BY <1>0, <1>6 DEF Content, Carrying, Before, RequestOK
    <2>2. ASSUME NEW u \in InProgress PROVE Follows(mp[u].data, 0) /\ Follows(src, Len(mp[u].data))
      <3>1. /\ Follows(mp[u].data, 0) /\ Follows(tail, Len(mp[u].data))
            /\ req.stored = Len(mp[u].data) /\ req.off = req.stored + req.tail
            /\ req.tail = Len(tail)
        BY <1>0, <1>6, <2>1 DEF Content, OneUpload, InProgress, RequestOK, Accurate, Replacing, Carrying, Located
      <3>2. Len(h) = req.tail /\ req.stored \in Nat
        BY <1>0, <1>4, <3>1 DEF Req
      <3>3. Follows(h, req.stored)
        BY <3>1 DEF Follows
      <3>4. h \in Seq(Nat) /\ req.src \in Seq(Nat)
        BY <1>0, <1>1, TypeFacts
      <3> HIDE DEF h
      <3> QED BY <2>1, <3>1, <3>2, <3>3, <3>4, FollowsConcat
    <2> QED BY <2>1, <2>2
  <1> HIDE DEF h, src
  <1>7. /\ req' \in Req /\ req'.pc = "copy" /\ req'.src = src /\ req'.carried = Len(h) /\ req'.up = req.up
        /\ req'.off = req.off /\ req'.stored = req.stored /\ req'.read = req.read
    BY <1>0, <1>2, <1>5 DEF Req, ReqPC
  <1>8. TypeInv'
    BY <1>0, <1>7, RequestTyped DEF store, TypeOK, TypeInv, Before
  <1>9. OneUpload' /\ Kept' /\ Clearing'
    BY <1>0, ClearingKept DEF store, OneUpload, Kept, InProgress, Held
  <1>10. Accurate'
    <2> SUFFICES ASSUME row' = "pending"
                 PROVE  /\ mp[req.up] # NoUpload /\ Len(mp[req.up].data) = req'.stored + req'.read
                        /\ req'.off = req'.stored + req'.carried
                        /\ req'.carried <= req'.read + Len(req'.src)
      BY <1>0, <1>7 DEF Accurate, Located, store
    <2>1. /\ mp[req.up] # NoUpload /\ req.stored = Len(mp[req.up].data) /\ req.off = req.stored + req.tail
          /\ req.tail \in {0, Len(tail)} /\ req.stored \in Nat
      BY <1>0 DEF RequestOK, Accurate, Located, store, Req
    <2>2. req'.carried = req.tail /\ req'.stored = req.stored /\ req'.off = req.off /\ req'.read = 0
      BY <1>0, <1>4, <1>7, <2>1
    <2>3. Len(req'.src) = Len(h) + Len(req.src) /\ req'.carried = Len(h)
      BY <1>2, <1>7
    <2>4. req'.carried <= 0 + Len(req'.src)
      BY <1>2, <2>3
    <2> QED BY <2>1, <2>2, <2>4
  <1>11. Replacing'
    <2> SUFFICES ASSUME row' = "pending", object' = NoObject
                 PROVE  req'.carried = Len(tail)
      BY <1>0, <1>7 DEF Replacing, store
    <2>1. req.tail = Len(tail)
      BY <1>0 DEF RequestOK, Replacing, store
    <2> QED BY <1>4, <1>7, <2>1
  <1>14. Carrying'
    <2> SUFFICES ASSUME row' = "pending", object' = NoObject
                 PROVE  (Held(tail) \cup Chunk(req.off, req.read + Len(req.src) - req.carried)
                           \subseteq Held(mp[req.up].data) \cup Held(req.src))'
      BY <1>7 DEF Carrying, Before
    <2>7. Held(tail)' = Held(tail) /\ Held(mp[req.up].data)' = Held(mp[req.up].data)
      BY <1>0, <1>7 DEF store, Held
    <2>8. Held(req.src)' = Held(src)
      BY <1>7 DEF Held
    <2>1. req.tail = Len(tail) /\ Follows(req.src, req.off) /\ req.off \in Nat
      BY <1>0 DEF RequestOK, Replacing, Carrying, Before, store, Req
    <2>2. h = tail
      <3>1. \A s \in Seq(1 .. size) : Len(s) = 0 => s = <<>>
        OBVIOUS
      <3>2. req.tail = 0 => tail = <<>>
        BY <1>0, <2>1, <3>1, TypeFacts
      <3> QED BY <1>3, <3>2 DEF h
    <2>3. tail \in Seq(Nat) /\ req.src \in Seq(Nat)
      BY <1>0, TypeFacts
    <2>4. Held(src) = Held(tail) \cup Held(req.src)
      BY <2>2, <2>3, HeldConcat DEF src
    <2>5. Held(req.src) = Chunk(req.off, Len(req.src))
      BY <2>1, <2>3, FollowsHeld
    <2>6. req'.read + Len(req'.src) - req'.carried = Len(req.src)
      BY <1>0, <1>2, <1>7
    <2>9. Chunk(req.off, req.read + Len(req.src) - req.carried)' = Chunk(req.off, Len(req.src))
      BY <1>7, <2>6 DEF Chunk
    <2> QED BY <2>4, <2>5, <2>7, <2>8, <2>9
  <1>12. RequestOK'
    BY <1>0, <1>7, <1>10, <1>11, <1>14 DEF RequestOK, store
  <1>13. Content'
    <2> SUFFICES ASSUME faults' + crashes' = 0, row' # "gone" PROVE Content'
      BY DEF Content
    <2>1. row = "pending" /\ faults + crashes = 0
      BY <1>0, NotAlone DEF store
    <2> QED BY <1>0, <1>6, <1>7, <2>1 DEF Content, store, InProgress, Follows, Before
  <1> QED BY <1>8, <1>9, <1>12, <1>13 DEF Inv

LEMMA ReplyKeeps ==
  ASSUME Inv, Reply
  PROVE  Inv'
  <1>0. /\ TypeInv /\ TypeOK /\ OneUpload /\ Kept /\ RequestOK /\ Content /\ Clearing /\ ~alone
        /\ req \in Req /\ row # "complete" /\ req.pc = "reply" /\ req.up \in Uploads
        /\ UNCHANGED <<store, faults>>
    BY NotAlone DEF Inv, TypeInv, RequestOK, Located, Reply, blobs, store
  <1> DEFINE at == req.off + req.rep
  <1>1. at \in Nat /\ acked \subseteq Nat /\ Chunk(req.off, req.rep) \subseteq Nat
    BY <1>0 DEF Req, TypeOK, Chunk
  <1>2. /\ acked' = IF req.ok THEN acked \cup Chunk(req.off, req.rep) ELSE acked
        /\ known' = IF req.ok THEN at ELSE Unknown
        /\ req' = IF at = size THEN [Idle EXCEPT !.pc = "list", !.op = "finish"] ELSE Idle
    BY DEF Reply
  <1>3. row = "pending" => req.up \in InProgress /\ (req.ok => at = Total(req.up)) /\ (faults = 0 => req.ok)
    BY <1>0 DEF RequestOK, Accurate, Located, InProgress
  <1> HIDE DEF at
  <1>5. acked' \subseteq Nat /\ known' \in Nat \cup {Unknown}
    BY <1>1, <1>2
  <1>6. Kept'
    <2> SUFFICES ASSUME row' = "pending", object' = NoObject PROVE Kept'
      BY DEF Kept
    <2>1. row = "pending" /\ object = NoObject /\ UNCHANGED <<mp, tail>>
      BY <1>0 DEF store
    <2>2. \A u \in InProgress : u = req.up /\ acked \subseteq Held(mp[u].data) \cup Held(tail)
      BY <1>0, <1>3, <2>1 DEF OneUpload, Kept
    <2>3. req.ok => Chunk(req.off, req.rep) \subseteq Held(mp[req.up].data) \cup Held(tail)
      BY <1>0, <2>1 DEF RequestOK, Carrying
    <2>4. \A u \in InProgress : acked' \subseteq Held(mp[u].data) \cup Held(tail)
      BY <1>2, <2>2, <2>3
    <2> QED BY <1>3, <2>1, <2>4 DEF Kept, InProgress, Held
  <1>7. CASE at # size
    BY <1>0, <1>1, <1>2, <1>5, <1>6, <1>7, Stops DEF TypeInv
  <1>8. CASE at = size
    <2>1. req' = [Idle EXCEPT !.pc = "list", !.op = "finish"]
      BY <1>2, <1>8
    <2>2. req' \in Req /\ req'.pc = "list" /\ req'.op = "finish" /\ req'.read = 0
      BY <2>1, Bytes DEF Idle, Req, ReqPC
    <2>3. TypeInv'
      BY <1>0, <1>1, <1>5, <2>2, RequestTyped DEF store, TypeOK, TypeInv, Located
    <2>4. OneUpload' /\ Clearing'
      BY <1>0, ClearingKept DEF store, OneUpload, InProgress
    <2>5. RequestOK'
      BY <1>0, <2>2 DEF RequestOK, Accurate, Replacing, Carrying, Located, store
    <2>6. Content'
      <3> SUFFICES ASSUME faults' + crashes' = 0, row' # "gone" PROVE Content'
        BY DEF Content
      <3>1. row = "pending" /\ faults + crashes = 0 /\ faults = 0
        <4>1. \A a, b \in Nat : a + b = 0 => a = 0
          OBVIOUS
        <4>2. row = "pending" /\ faults + crashes = 0 /\ faults \in Nat /\ crashes \in Nat
          BY <1>0, NotAlone DEF store, TypeInv
        <4> QED BY <4>1, <4>2
      <3>2. /\ object = NoObject
            /\ \A u \in InProgress : Follows(mp[u].data, 0) /\ Follows(tail, Len(mp[u].data))
        BY <1>0, <3>1 DEF Content
      <3>3. \A u \in InProgress : Total(u) = size
        BY <1>0, <1>3, <1>8, <3>1 DEF OneUpload
      <3> QED BY <1>0, <2>2, <3>2, <3>3 DEF Content, store, InProgress, Follows, Total
    <2> QED BY <1>6, <2>3, <2>4, <2>5, <2>6 DEF Inv
  <1> QED BY <1>7, <1>8

-----------------------------------------------------------------------------
(* Steps of a request that write to the object store.                      *)

(* A call that took effect although its caller was told that it failed.    *)
LEMMA FailsAfter ==
  ASSUME Inv, req.pc # "idle", Failed, faults' = faults + 1,
         UNCHANGED <<size, del, alone, acked, crashes>>,
         UNCHANGED row \/ (row = "pending" /\ row' = "complete"),
         started' \in 0 .. MaxUploads,
         mp' \in [Uploads -> [n : Nat, data : Seq(1 .. size)] \cup {NoUpload}],
         tail' \in Seq(1 .. size), Len(tail') < PartSize, object' \in Seq(1 .. size) \cup {NoObject},
         OneUpload', Kept'
  PROVE  Inv'
  <1>0. TypeInv /\ TypeOK /\ Clearing /\ ~alone /\ faults \in Nat /\ crashes \in Nat /\ acked \subseteq Nat
    BY NotAlone DEF Inv, TypeInv, TypeOK
  <1>1. /\ Idle \in Req /\ Idle.pc = "idle" /\ Idle.read = 0 /\ Idle.op = "none"
        /\ req' = Idle /\ known' \in Nat \cup {Unknown}
    BY Bytes DEF Idle, Req, ReqPC, Failed
  <1>2. TypeInv'
    BY <1>0, <1>1, RequestTyped DEF Located
  <1>3. Clearing'
    BY <1>0, ClearingKept
  <1>4. RequestOK'
    BY <1>1 DEF RequestOK, Accurate, Replacing, Carrying, Located
  <1>5. faults' + crashes' # 0
    BY <1>0
  <1> QED BY <1>2, <1>3, <1>4, <1>5 DEF Inv, Content

LEMMA NewMultipartKeeps ==
  ASSUME Inv, NewMultipart
  PROVE  Inv'
  <1>0. /\ TypeInv /\ TypeOK /\ OneUpload /\ Kept /\ RequestOK /\ Content /\ Clearing /\ ~alone
        /\ req \in Req /\ row # "complete" /\ req.read = 0 /\ req.pc = "create" /\ InProgress = {}
        /\ UNCHANGED <<size, row, tail, object, acked, alone, crashes, del>>
    BY NotAlone DEF Inv, TypeInv, RequestOK, Before, NewMultipart
  <1> DEFINE u == started + 1
             effect == mp' = [mp EXCEPT ![u] = [n |-> 0, data |-> <<>>]] /\ started' = u
  <1>1. u \in Uploads /\ u \in Nat /\ u # 0 /\ u \in 0 .. MaxUploads
    BY <1>0, MultipartAssumption, SMTT(30) DEF NewMultipart, TypeOK, Uploads, MultipartAssumption
  <1>2. CASE UNCHANGED <<mp, started>> /\ Failed /\ faults' = faults + 1
    BY <1>0, <1>2, FailsClean DEF store
  <1> SUFFICES ASSUME effect, \/ Failed /\ faults' = faults + 1
                              \/ /\ req' = [req EXCEPT !.pc = "head", !.up = u]
                                 /\ UNCHANGED <<known, faults>>
               PROVE  Inv'
    BY <1>2 DEF NewMultipart, Call
  <1> HIDE DEF u
  <1>3. /\ mp' \in [Uploads -> [n : Nat, data : Seq(1 .. size)] \cup {NoUpload}]
        /\ mp'[u] = [n |-> 0, data |-> <<>>] /\ mp'[u].data = <<>> /\ mp'[u] # NoUpload
        /\ Len(<<>>) = 0
    <2>1. [n |-> 0, data |-> <<>>] \in [n : Nat, data : Seq(1 .. size)]
      BY Bytes
    <2> QED BY <1>0, <1>1, <2>1, TypeFacts DEF TypeOK
  <1>4. InProgress' = {u}
    <2>1. \A v \in Uploads : v # u => mp'[v] = NoUpload
      BY <1>0, <1>1 DEF InProgress, TypeOK
    <2> QED BY <1>1, <1>3, <2>1 DEF InProgress
  <1>5. OneUpload'
    BY <1>4 DEF OneUpload
  <1>6. Kept'
    <2> SUFFICES ASSUME row' = "pending", object' = NoObject PROVE Kept'
      BY DEF Kept
    <2>1. tail = <<>> /\ acked = {}
      BY <1>0 DEF Kept
    <2> QED BY <1>0, <1>3, <1>4, <2>1 DEF Kept
  <1>7. CASE Failed /\ faults' = faults + 1
    <2>1. started' \in 0 .. MaxUploads /\ tail' \in Seq(1 .. size) /\ Len(tail') < PartSize
          /\ object' \in Seq(1 .. size) \cup {NoObject}
      BY <1>0, <1>1 DEF TypeOK
    <2> QED BY <1>0, <1>3, <1>5, <1>6, <1>7, <2>1, FailsAfter
  <1>8. CASE req' = [req EXCEPT !.pc = "head", !.up = u] /\ UNCHANGED <<known, faults>>
    <2>1. /\ req' \in Req /\ req'.pc = "head" /\ req'.up = u /\ req'.off = req.off /\ req'.src = req.src
          /\ req'.stored = req.stored /\ req'.tail = req.tail /\ req'.op = req.op /\ req'.read = 0
      BY <1>0, <1>1, <1>8 DEF Req, ReqPC
    <2>2. started' \in 0 .. MaxUploads
      BY <1>1
    <2>3. TypeInv'
      BY <1>0, <1>1, <1>3, <1>8, <2>1, <2>2, RequestTyped DEF TypeOK, TypeInv
    <2>4. Clearing'
      BY <1>0, ClearingKept
    <2>5. Accurate'
      BY <1>0, <1>3, <2>1 DEF RequestOK, Accurate, Located
    <2>6. Replacing'
      BY <1>0, <1>3, <2>1 DEF RequestOK, Accurate, Replacing, Kept
    <2>9. Carrying'
      BY <1>0, <2>1 DEF RequestOK, Carrying, Before, Follows
    <2>7. RequestOK'
      BY <1>0, <2>1, <2>5, <2>6, <2>9 DEF RequestOK
    <2>8. Content'
      <3> SUFFICES ASSUME faults' + crashes' = 0, row' # "gone" PROVE Content'
        BY DEF Content
      <3>1. row = "pending" /\ faults + crashes = 0
        BY <1>0, <1>8, NotAlone
      <3>2. object = NoObject /\ tail = <<>>
        BY <1>0, <3>1 DEF Content, Before, RequestOK, Kept
      <3>3. \A v \in InProgress' : Follows(mp'[v].data, 0) /\ Follows(tail, Len(mp'[v].data))
        BY <1>3, <1>4, <3>2 DEF Follows
      <3> QED BY <1>0, <2>1, <3>2, <3>3 DEF Content, Follows, Before
    <2> QED BY <1>5, <1>6, <2>3, <2>4, <2>7, <2>8 DEF Inv
  <1> QED BY <1>7, <1>8

LEMMA ReturnFacts ==
  ASSUME TypeInv, NEW read \in Nat, NEW ok \in BOOLEAN, Return(read, ok)
  PROVE  /\ req' \in Req /\ req'.pc = "reply" /\ req'.ok = ok /\ req'.off = req.off /\ req'.up = req.up
         /\ req'.op = req.op /\ UNCHANGED known
         /\ read >= req.carried => req'.rep = read - req.carried
  <1>1. req \in Req /\ read - req.carried \in Int /\ req.carried \in Nat /\ 0 \in Int
    BY DEF TypeInv, Req
  <1> DEFINE rep == Max({0, read - req.carried})
  <1>2. rep \in {0, read - req.carried} /\ rep >= 0 /\ rep >= read - req.carried
    BY <1>1, MaxPair, Zenon
  <1>3. rep \in Nat /\ (read >= req.carried => rep = read - req.carried)
    BY <1>1, <1>2
  <1>4. req' = [req EXCEPT !.pc = "reply", !.src = <<>>, !.read = read, !.ok = ok, !.rep = rep] /\ UNCHANGED known
    BY DEF Return
  <1> HIDE DEF rep
  <1>5. req' \in Req
    BY <1>1, <1>3, <1>4, Bytes DEF Req, ReqPC
  <1>6. /\ req'.pc = "reply" /\ req'.ok = ok /\ req'.off = req.off /\ req'.up = req.up
        /\ req'.op = req.op /\ req'.rep = rep
    BY <1>1, <1>4 DEF Req
  <1> QED BY <1>3, <1>4, <1>5, <1>6

(* writeChunk returns an error: the row is gone or a call failed.          *)
LEMMA ReturnsError ==
  ASSUME Inv, req.pc = "copy", NEW read \in Nat, Return(read, FALSE),
         UNCHANGED <<size, row, started, object, del, alone, acked, crashes>>,
         faults' = faults + 1 \/ (UNCHANGED faults /\ row # "pending"),
         mp' \in [Uploads -> [n : Nat, data : Seq(1 .. size)] \cup {NoUpload}],
         tail' \in Seq(1 .. size), Len(tail') < PartSize,
         OneUpload', Kept', mp[req.up] # NoUpload => mp'[req.up] # NoUpload
  PROVE  Inv'
  <1>0. /\ TypeInv /\ TypeOK /\ Clearing /\ ~alone /\ faults \in Nat /\ crashes \in Nat /\ acked \subseteq Nat
        /\ RequestOK /\ row # "complete" /\ req.up \in Uploads /\ started \in 0 .. MaxUploads
    BY NotAlone DEF Inv, TypeInv, TypeOK, RequestOK, Located
  <1>1. /\ req' \in Req /\ req'.pc = "reply" /\ req'.ok = FALSE /\ req'.up = req.up /\ req'.op = req.op
        /\ UNCHANGED known
    BY <1>0, ReturnFacts
  <1>2. TypeInv'
    BY <1>0, <1>1, RequestTyped DEF Before, TypeOK
  <1>3. Clearing'
    BY <1>0, ClearingKept
  <1>4. row # "pending" \/ (faults' # 0 /\ mp'[req.up] # NoUpload)
    BY <1>0 DEF RequestOK, Accurate, Located
  <1>5. RequestOK'
    BY <1>0, <1>1, <1>4 DEF RequestOK, Accurate, Replacing, Carrying, Located, Before
  <1>6. row' = "gone" \/ faults' + crashes' # 0
    BY <1>0, NotAlone
  <1> QED BY <1>2, <1>3, <1>5, <1>6 DEF Inv, Content

(* A part moves from what is left to what was read.                        *)
LEMMA Shifted ==
  ASSUME NEW c \in Nat, NEW r \in Nat, NEW p \in Nat, NEW l \in Nat, c <= r + l
  PROVE  c <= (r + p) + (l - p)
  OBVIOUS

LEMMA PutPartKeeps ==
  ASSUME Inv, PutPart
  PROVE  Inv'
  <1>0. /\ TypeInv /\ TypeOK /\ OneUpload /\ Kept /\ RequestOK /\ Content /\ Clearing /\ ~alone
        /\ req \in Req /\ row # "complete" /\ req.pc = "copy" /\ req.up \in Uploads
        /\ UNCHANGED <<size, row, started, tail, object, acked, alone, crashes, del>>
    BY NotAlone DEF Inv, TypeInv, RequestOK, Located, PutPart, history
  <1>a. PICK u : u = req.up
    OBVIOUS
  <1> DEFINE read == req.read + PartSize
             part == SubSeq(req.src, 1, PartSize)
             rest == SubSeq(req.src, PartSize + 1, Len(req.src))
             effect == mp' = [mp EXCEPT ![u] = [n |-> req.n + 1, data |-> @.data \o part]]
             more == /\ req' = [req EXCEPT !.n = req.n + 1, !.read = read, !.src = rest]
                     /\ UNCHANGED known
  <1>1. /\ PartSize \in Nat /\ req.src \in Seq(1 .. size) /\ PartSize <= Len(req.src)
        /\ req.read \in Nat /\ req.n \in Nat /\ read \in Nat /\ req.off \in Nat /\ req.stored \in Nat
        /\ req.carried \in Nat
    BY <1>0, TypeFacts DEF PutPart, Req, TypeInv
  <1>2. /\ part \in Seq(1 .. size) /\ rest \in Seq(1 .. size) /\ Len(part) = PartSize
        /\ Len(rest) = Len(req.src) - PartSize /\ Len(req.src) \in Nat
    <2>1. Len(req.src) \in Nat
      BY <1>1
    <2> QED BY <1>1, <2>1, BytesSplit, ZenonT(40)
  <1>3. \/ mp[u] = NoUpload /\ Return(read, FALSE) /\ UNCHANGED <<mp, faults>>
        \/ mp[u] # NoUpload /\ UNCHANGED mp /\ Return(read, FALSE) /\ faults' = faults + 1
        \/ mp[u] # NoUpload /\ effect /\ Return(read, FALSE) /\ faults' = faults + 1
        \/ mp[u] # NoUpload /\ effect /\ more /\ UNCHANGED faults
    BY <1>a DEF PutPart, Call
  <1> HIDE DEF read, part, rest
  <1>4. CASE UNCHANGED mp /\ Return(read, FALSE) /\ (faults' = faults + 1 \/ (mp[u] = NoUpload /\ UNCHANGED faults))
    <2>1. OneUpload' /\ Kept'
      BY <1>0, <1>a, <1>4 DEF OneUpload, Kept, InProgress, Held
    <2>2. mp[u] = NoUpload => row # "pending"
      BY <1>0, <1>a DEF RequestOK, Accurate, Located
    <2> QED BY <1>0, <1>a, <1>1, <1>4, <2>1, <2>2, ReturnsError DEF TypeOK
  <1>5. CASE mp[u] # NoUpload /\ effect
    <2>1. mp[u].data \in Seq(1 .. size) /\ Len(mp[u].data) \in Nat
      <3>1. \A s \in Seq(1 .. size) : Len(s) \in Nat
        BY Bytes
      <3> QED BY <1>0, <1>a, <1>5, <3>1, TypeFacts
    <2>2. mp[u].data \o part \in Seq(1 .. size) /\ Len(mp[u].data \o part) = Len(mp[u].data) + PartSize
      <3>0. \A s, t \in Seq(1 .. size) : s \o t \in Seq(1 .. size) /\ Len(s \o t) = Len(s) + Len(t)
        BY Bytes
      <3>1. mp[u].data \o part \in Seq(1 .. size) /\ Len(mp[u].data \o part) = Len(mp[u].data) + Len(part)
        BY <1>2, <2>1, <3>0, Zenon
      <3> QED BY <1>2, <3>1
    <2>3. [n |-> req.n + 1, data |-> mp[u].data \o part] \in [n : Nat, data : Seq(1 .. size)]
      BY <1>1, <2>2
    <2>4. /\ mp' \in [Uploads -> [n : Nat, data : Seq(1 .. size)] \cup {NoUpload}]
          /\ mp'[u].data = mp[u].data \o part /\ mp'[u] # NoUpload
          /\ \A v \in Uploads : v # u => mp'[v] = mp[v]
      BY <1>0, <1>a, <1>5, <2>3, TypeFacts DEF TypeOK
    <2>5. InProgress' = InProgress /\ u \in InProgress
      BY <1>0, <1>a, <1>5, <2>4 DEF InProgress
    <2>6. Len(mp'[u].data) = Len(mp[u].data) + PartSize
      BY <2>2, <2>4
    <2>12. /\ Held(mp'[u].data) = Held(mp[u].data) \cup Held(part)
           /\ Held(req.src) = Held(part) \cup Held(rest)
      <3>1. mp[u].data \in Seq(Nat) /\ part \in Seq(Nat) /\ req.src \in Seq(Nat)
        BY <1>0, <1>1, <1>2, <2>1, TypeFacts
      <3>2. Held(mp[u].data \o part) = Held(mp[u].data) \cup Held(part)
        BY <3>1, HeldConcat
      <3>3. Held(req.src) = Held(part) \cup Held(rest)
        BY <1>1, <3>1, HeldSplit DEF part, rest
      <3> QED BY <2>4, <3>2, <3>3
    <2>7. OneUpload'
      BY <1>0, <1>a, <2>5 DEF OneUpload
    <2>8. Kept'
      <3> SUFFICES ASSUME row' = "pending", object' = NoObject PROVE Kept'
        BY DEF Kept
      <3>1. acked \subseteq Held(mp[u].data) \cup Held(tail)
        BY <1>0, <1>a, <2>5 DEF Kept
      <3>2. \A v \in InProgress : v = u
        BY <1>0, <1>a, <2>5 DEF OneUpload
      <3>3. acked \subseteq Held(mp'[u].data) \cup Held(tail)
        BY <2>12, <3>1
      <3> QED BY <1>0, <1>a, <2>5, <3>2, <3>3 DEF Kept, Held
    <2>9. CASE Return(read, FALSE) /\ faults' = faults + 1
      BY <1>0, <1>a, <1>1, <2>4, <2>7, <2>8, <2>9, ReturnsError DEF TypeOK
    <2>10. CASE more /\ UNCHANGED faults
      <3>1. /\ req' \in Req /\ req'.pc = "copy" /\ req'.up = u /\ req'.read = read /\ req'.src = rest
            /\ req'.off = req.off /\ req'.stored = req.stored /\ req'.carried = req.carried
            /\ req'.op = req.op
        <4>1. req' = [req EXCEPT !.n = req.n + 1, !.read = read, !.src = rest]
          BY <2>10
        <4>2. req \in Req /\ req.n + 1 \in Nat /\ read \in Nat /\ rest \in Seq(1 .. size)
          BY <1>0, <1>1, <1>2
        <4>3. req' \in Req
          BY <4>1, <4>2 DEF Req
        <4> QED BY <1>0, <1>a, <4>1, <4>2, <4>3 DEF Req
      <3>2. TypeInv'
        BY <1>0, <1>a, <2>4, <2>10, <3>1, RequestTyped DEF TypeOK, TypeInv, Before
      <3>3. Clearing'
        BY <1>0, <1>a, ClearingKept
      <3>4. Accurate'
        <4> SUFFICES ASSUME row' = "pending"
                     PROVE  /\ Len(mp'[u].data) = req'.stored + req'.read
                            /\ req'.off = req'.stored + req'.carried
                            /\ req'.carried <= req'.read + Len(req'.src)
          BY <2>4, <3>1 DEF Accurate, Located
        <4>1. /\ Len(mp[u].data) = req.stored + req.read /\ req.off = req.stored + req.carried
              /\ req.carried <= req.read + Len(req.src)
          BY <1>0, <1>a DEF RequestOK, Accurate
        <4>2. Len(mp'[u].data) = req.stored + read
          BY <1>1, <2>6, <4>1 DEF read
        <4>3. req.carried <= read + Len(rest)
          <5>1. req.carried <= (req.read + PartSize) + (Len(req.src) - PartSize)
            BY <1>1, <1>2, <4>1, Shifted, Zenon
          <5> QED BY <1>2, <5>1 DEF read
        <4> QED BY <3>1, <4>1, <4>2, <4>3
      <3>7. Carrying'
        <4> SUFFICES ASSUME row' = "pending", object' = NoObject
                     PROVE  (Held(tail) \cup Chunk(req.off, req.read + Len(req.src) - req.carried)
                               \subseteq Held(mp[req.up].data) \cup Held(req.src))'
          BY <3>1 DEF Carrying, Before
        <4>3. Held(tail)' = Held(tail) /\ Held(mp[req.up].data)' = Held(mp'[u].data)
          BY <1>0, <3>1 DEF Held
        <4>4. Held(req.src)' = Held(rest)
          BY <3>1 DEF Held
        <4>1. Held(tail) \cup Chunk(req.off, req.read + Len(req.src) - req.carried)
                \subseteq Held(mp[u].data) \cup Held(req.src)
          BY <1>0, <1>a DEF RequestOK, Carrying
        <4>2. req'.read + Len(req'.src) - req'.carried = req.read + Len(req.src) - req.carried
          BY <1>1, <1>2, <3>1 DEF read
        <4>5. Chunk(req.off, req.read + Len(req.src) - req.carried)'
                = Chunk(req.off, req.read + Len(req.src) - req.carried)
          BY <3>1, <4>2 DEF Chunk
        <4> QED BY <2>12, <4>1, <4>3, <4>4, <4>5
      <3>5. RequestOK'
        BY <1>0, <1>a, <3>1, <3>4, <3>7 DEF RequestOK, Replacing
      <3>6. Content'
        <4> SUFFICES ASSUME faults' + crashes' = 0, row' # "gone" PROVE Content'
          BY DEF Content
        <4>1. row = "pending" /\ faults + crashes = 0
          BY <1>0, <1>a, <2>10, NotAlone
        <4>2. object = NoObject /\ Follows(mp[u].data, 0) /\ Follows(req.src, Len(mp[u].data))
          BY <1>0, <1>a, <2>5, <4>1 DEF Content
        <4>3. /\ mp[u].data \in Seq(Nat) /\ part \in Seq(Nat) /\ req.src \in Seq(Nat)
          BY <1>0, <1>a, <1>1, <1>2, <2>1, TypeFacts
        <4>4. Follows(part, Len(mp[u].data)) /\ Follows(rest, Len(mp[u].data) + PartSize)
          BY <1>1, <2>1, <4>2, <4>3, FollowsSplit DEF part, rest
        <4>5. Follows(mp[u].data \o part, 0)
          <5>1. Follows(part, 0 + Len(mp[u].data))
            BY <2>1, <4>4
          <5> QED BY <4>2, <4>3, <5>1, FollowsConcat
        <4>6. \A v \in InProgress' : Follows(mp'[v].data, 0) /\ Follows(rest, Len(mp'[v].data))
          BY <1>0, <1>a, <2>2, <2>4, <2>5, <4>4, <4>5, ZenonT(40) DEF OneUpload
        <4> QED BY <1>0, <1>a, <3>1, <4>2, <4>6 DEF Content, Before
      <3> QED BY <2>7, <2>8, <3>2, <3>3, <3>5, <3>6 DEF Inv
    <2> QED BY <1>3, <1>5, <2>9, <2>10, <1>4
  <1> QED BY <1>3, <1>4, <1>5

LEMMA PutTailKeeps ==
  ASSUME Inv, PutTail
  PROVE  Inv'
  <1>0. /\ TypeInv /\ TypeOK /\ OneUpload /\ Kept /\ RequestOK /\ Content /\ Clearing /\ ~alone
        /\ req \in Req /\ row # "complete" /\ req.pc = "copy" /\ req.up \in Uploads
        /\ UNCHANGED <<size, row, started, mp, object, acked, alone, crashes, del>>
    BY NotAlone DEF Inv, TypeInv, RequestOK, Located, PutTail, history
  <1>1. PICK u : u = req.up
    OBVIOUS
  <1> DEFINE read == req.read + Len(req.src)
  <1>2. /\ req.src \in Seq(1 .. size) /\ Len(req.src) < PartSize /\ Len(req.src) \in Nat /\ read \in Nat
        /\ req.read \in Nat /\ req.carried \in Nat /\ req.stored \in Nat
    BY <1>0, TypeFacts DEF PutTail, Req
  <1>3. \/ UNCHANGED tail /\ Return(read, FALSE) /\ faults' = faults + 1
        \/ tail' = req.src /\ Return(read, FALSE) /\ faults' = faults + 1
        \/ tail' = req.src /\ Return(read, TRUE) /\ UNCHANGED faults
    BY DEF PutTail, Call
  <1> HIDE DEF read
  <1>4. CASE UNCHANGED tail /\ Return(read, FALSE) /\ faults' = faults + 1
    <2>1. OneUpload' /\ Kept'
      BY <1>0, <1>4 DEF OneUpload, Kept, InProgress, Held
    <2> QED BY <1>0, <1>2, <1>4, <2>1, ReturnsError DEF TypeOK
  <1>5. CASE tail' = req.src
    <2>1. ASSUME row = "pending"
          PROVE  /\ u \in InProgress /\ Len(mp[u].data) = req.stored + req.read
                 /\ req.off = req.stored + req.carried /\ req.carried <= read
                 /\ Total(u)' = req.stored + read
      <3>1. /\ u \in InProgress /\ Len(mp[u].data) = req.stored + req.read
            /\ req.off = req.stored + req.carried /\ req.carried <= req.read + Len(req.src)
        BY <1>0, <1>1, <2>1 DEF RequestOK, Accurate, Located, InProgress
      <3>2. Total(u)' = Len(mp[u].data) + Len(req.src)
        BY <1>0, <1>5 DEF Total
      <3> QED BY <1>2, <3>1, <3>2 DEF read
    <2>2. InProgress' = InProgress /\ OneUpload'
      BY <1>0 DEF OneUpload, InProgress
    <2>3. Kept'
      <3> SUFFICES ASSUME row' = "pending", object' = NoObject PROVE Kept'
        BY DEF Kept
      <3>1. row = "pending" /\ object = NoObject
        BY <1>0
      <3>2. u \in InProgress /\ acked \subseteq Held(mp[u].data) \cup Held(tail)
        BY <1>0, <2>1, <3>1 DEF Kept
      <3>3. Held(tail) \subseteq Held(mp[u].data) \cup Held(req.src)
        BY <1>0, <1>1, <3>1 DEF RequestOK, Carrying
      <3>4. acked \subseteq Held(mp[u].data) \cup Held(req.src)
        BY <3>2, <3>3
      <3>5. \A v \in InProgress : v = u
        BY <1>0, <3>2 DEF OneUpload
      <3> QED BY <1>0, <1>5, <2>2, <3>2, <3>4, <3>5 DEF Kept, Held
    <2>4. CASE Return(read, FALSE) /\ faults' = faults + 1
      BY <1>0, <1>2, <1>5, <2>2, <2>3, <2>4, ReturnsError DEF TypeOK
    <2>5. CASE Return(read, TRUE) /\ UNCHANGED faults
      <3>1. /\ req' \in Req /\ req'.pc = "reply" /\ req'.ok = TRUE /\ req'.off = req.off /\ req'.up = u
            /\ req'.op = req.op /\ UNCHANGED known /\ (read >= req.carried => req'.rep = read - req.carried)
        BY <1>0, <1>1, <1>2, <2>5, ReturnFacts
      <3>2. TypeInv'
        BY <1>0, <1>1, <1>2, <1>5, <2>5, <3>1, RequestTyped DEF TypeOK, TypeInv, Before
      <3>3. Clearing'
        BY <1>0, ClearingKept
      <3>4. Accurate'
        <4> SUFFICES ASSUME row' = "pending"
                     PROVE  mp'[u] # NoUpload /\ req'.off + req'.rep = Total(u)'
          BY <3>1 DEF Accurate, Located, Total
        <4>1. row = "pending"
          BY <1>0
        <4>2. read >= req.carried
          BY <1>2, <2>1, <4>1
        <4>3. req'.off + req'.rep = req.stored + read
          BY <1>2, <2>1, <3>1, <4>1, <4>2
        <4> QED BY <1>0, <2>1, <4>1, <4>3 DEF InProgress
      <3>7. Carrying'
        <4> SUFFICES ASSUME row' = "pending", object' = NoObject
                     PROVE  Chunk(req.off, req'.rep) \subseteq Held(mp[u].data) \cup Held(req.src)
          BY <1>0, <1>5, <3>1 DEF Carrying, Before, Held, Chunk
        <4>1. req'.rep = req.read + Len(req.src) - req.carried
          BY <1>0, <1>2, <2>1, <3>1 DEF read
        <4> QED BY <1>0, <1>1, <4>1 DEF RequestOK, Carrying
      <3>5. RequestOK'
        BY <1>0, <3>1, <3>4, <3>7 DEF RequestOK, Replacing
      <3>6. Content'
        BY <1>0, <1>5, <2>2, <2>5, <3>1, NotAlone DEF Content, Before, Follows
      <3> QED BY <2>2, <2>3, <3>2, <3>3, <3>5, <3>6 DEF Inv
    <2> QED BY <1>3, <1>4, <2>4, <2>5
  <1> QED BY <1>3, <1>4, <1>5

(* An upload is aborted, or completed.                                     *)
LEMMA UploadEnds ==
  ASSUME TypeInv, OneUpload, NEW u \in Uploads, mp' = [mp EXCEPT ![u] = NoUpload]
  PROVE  /\ mp' \in [Uploads -> [n : Nat, data : Seq(1 .. size)] \cup {NoUpload}]
         /\ InProgress' = InProgress \ {u} /\ \A v \in InProgress' : mp'[v] = mp[v]
         /\ u \in InProgress => InProgress' = {}
  <1>1. mp' \in [Uploads -> [n : Nat, data : Seq(1 .. size)] \cup {NoUpload}]
    BY DEF TypeInv, TypeOK
  <1>2. mp'[u] = NoUpload /\ \A v \in Uploads : v # u => mp'[v] = mp[v]
    BY DEF TypeInv, TypeOK
  <1>3. InProgress' = InProgress \ {u}
    BY <1>2 DEF InProgress
  <1> QED BY <1>1, <1>2, <1>3 DEF OneUpload, InProgress

(* The request goes on with a step of finish.                              *)
LEMMA StepFacts ==
  ASSUME TypeInv, NEW pc \in ReqPC, Step(pc)
  PROVE  req' \in Req /\ req'.pc = pc /\ req'.up = req.up /\ req'.op = req.op /\ UNCHANGED known
  <1>1. req \in Req /\ req' = [req EXCEPT !.pc = pc] /\ UNCHANGED known
    BY DEF TypeInv, Step
  <1> QED BY <1>1 DEF Req

LEMMA AbortEmptyKeeps ==
  ASSUME Inv, AbortEmpty
  PROVE  Inv'
  <1>0. /\ TypeInv /\ TypeOK /\ OneUpload /\ Kept /\ RequestOK /\ Content /\ Clearing /\ ~alone
        /\ req \in Req /\ row # "complete" /\ req.pc = "abort" /\ req.up \in Uploads
        /\ UNCHANGED <<size, row, started, tail, object, acked, alone, crashes, del>>
    BY NotAlone DEF Inv, TypeInv, RequestOK, Located, AbortEmpty, history
  <1>1. PICK u \in Uploads : u = req.up
    BY <1>0
  <1>2. CASE UNCHANGED mp /\ Failed /\ (faults' = faults + 1 \/ UNCHANGED faults)
    BY <1>0, <1>2, FailsClean DEF store
  <1> SUFFICES ASSUME mp[u] # NoUpload, mp' = [mp EXCEPT ![u] = NoUpload],
                      \/ Step("empty") /\ UNCHANGED faults
                      \/ Failed /\ faults' = faults + 1
               PROVE  Inv'
    BY <1>1, <1>2 DEF AbortEmpty, Call
  <1>3. /\ mp' \in [Uploads -> [n : Nat, data : Seq(1 .. size)] \cup {NoUpload}]
        /\ InProgress' = {} /\ u \in InProgress
    BY <1>0, UploadEnds DEF InProgress
  <1>4. OneUpload'
    BY <1>3 DEF OneUpload
  <1>5. Kept'
    <2> SUFFICES ASSUME row' = "pending", object' = NoObject PROVE Kept'
      BY DEF Kept
    <2>1. Total(u) = 0 /\ acked \subseteq Held(mp[u].data) \cup Held(tail)
      BY <1>0, <1>1, <1>3 DEF RequestOK, Accurate, Kept
    <2>2. Len(mp[u].data) \in Nat /\ Len(tail) \in Nat /\ tail \in Seq(1 .. size)
      <3>1. \A s \in Seq(1 .. size) : Len(s) \in Nat
        BY Bytes
      <3> QED BY <1>0, <3>1, TypeFacts
    <2>3. Len(tail) = 0 /\ Len(mp[u].data) = 0
      BY <2>1, <2>2 DEF Total
    <2>4. tail = <<>> /\ Held(tail) = {} /\ Held(mp[u].data) = {}
      BY <2>2, <2>3 DEF Held
    <2> QED BY <1>0, <1>3, <2>1, <2>4 DEF Kept
  <1>6. CASE Failed /\ faults' = faults + 1
    BY <1>0, <1>3, <1>4, <1>5, <1>6, FailsAfter DEF TypeOK
  <1>7. CASE Step("empty") /\ UNCHANGED faults
    <2>1. req' \in Req /\ req'.pc = "empty" /\ req'.op = req.op /\ UNCHANGED known
      BY <1>0, <1>7, StepFacts DEF ReqPC
    <2>2. TypeInv'
      BY <1>0, <1>3, <1>7, <2>1, RequestTyped DEF TypeOK, TypeInv, Before, Located
    <2>3. Clearing'
      BY <1>0, ClearingKept
    <2>4. RequestOK'
      BY <1>0, <2>1 DEF RequestOK, Accurate, Replacing, Carrying, Located, Before
    <2>5. Content'
      BY <1>0, <1>3, <1>7, <2>1 DEF Content, Before
    <2> QED BY <1>4, <1>5, <2>2, <2>3, <2>4, <2>5 DEF Inv
  <1> QED BY <1>6, <1>7

LEMMA PutEmptyKeeps ==
  ASSUME Inv, PutEmpty
  PROVE  Inv'
  <1>0. /\ TypeInv /\ TypeOK /\ OneUpload /\ RequestOK /\ Content /\ Clearing /\ ~alone
        /\ row # "complete" /\ req.pc = "empty"
        /\ UNCHANGED <<size, row, started, mp, tail, acked, alone, crashes, del>>
    BY NotAlone DEF Inv, TypeInv, RequestOK, PutEmpty, history
  <1>1. CASE UNCHANGED object /\ Failed /\ faults' = faults + 1
    BY <1>0, <1>1, FailsClean DEF store
  <1> SUFFICES ASSUME object' = <<>>, \/ Step("row") /\ UNCHANGED faults
                                      \/ Failed /\ faults' = faults + 1
               PROVE  Inv'
    BY <1>1 DEF PutEmpty, Call
  <1>2. object' \in Seq(1 .. size) /\ object' # NoObject
    BY <1>0, TypeFacts, Bytes
  <1>3. OneUpload' /\ Kept'
    BY <1>0, <1>2 DEF OneUpload, InProgress, Kept
  <1>4. CASE Failed /\ faults' = faults + 1
    BY <1>0, <1>2, <1>3, <1>4, FailsAfter DEF TypeOK
  <1>5. CASE Step("row") /\ UNCHANGED faults
    <2>1. req' \in Req /\ req'.pc = "row" /\ UNCHANGED known
      BY <1>0, <1>5, StepFacts DEF ReqPC
    <2>2. TypeInv'
      BY <1>0, <1>2, <1>5, <2>1, RequestTyped DEF TypeOK, TypeInv, Before, Located
    <2>3. Clearing'
      BY <1>0, ClearingKept
    <2>4. RequestOK'
      BY <1>0, <1>2, <2>1 DEF RequestOK, Accurate, Replacing, Carrying, Located, Before
    <2>5. size = 0 => object' = File(size)
      <3>1. <<>> \in Seq(Nat) /\ Len(<<>>) = 0 /\ Follows(<<>>, 0)
        BY DEF Follows
      <3> QED BY <3>1, FollowsFile
    <2>6. Content'
      <3>1. File(size)' = File(size)
        BY <1>0 DEF File
      <3> QED BY <1>0, <1>2, <1>5, <2>1, <2>5, <3>1 DEF Content, Before
    <2> QED BY <1>3, <2>2, <2>3, <2>4, <2>6 DEF Inv
  <1> QED BY <1>4, <1>5

(* The tail is read before it becomes the last part.                       *)
LEMMA ReadLastKeeps ==
  ASSUME Inv, ReadLast
  PROVE  Inv'
  <1>0. /\ TypeInv /\ TypeOK /\ OneUpload /\ Kept /\ RequestOK /\ Content /\ Clearing /\ ~alone
        /\ req \in Req /\ row # "complete" /\ req.pc = "last" /\ req.up \in Uploads
        /\ tail \in Seq(1 .. size) /\ UNCHANGED <<store, known, acked, faults>>
    BY NotAlone DEF Inv, TypeInv, TypeOK, RequestOK, Located, ReadLast, history, blobs, store
  <1>1. req' = [req EXCEPT !.pc = "upload", !.src = tail]
    BY DEF ReadLast
  <1>2. /\ req' \in Req /\ req'.pc = "upload" /\ req'.up = req.up /\ req'.op = req.op
        /\ req'.src = tail
    BY <1>0, <1>1 DEF Req, ReqPC
  <1>3. TypeInv'
    BY <1>0, <1>2, RequestTyped DEF store, TypeOK, TypeInv, Before
  <1>4. OneUpload' /\ Kept' /\ Clearing'
    BY <1>0, ClearingKept DEF store, OneUpload, Kept, InProgress, Held
  <1>5. RequestOK'
    BY <1>0, <1>2 DEF RequestOK, Accurate, Replacing, Carrying, Located, Before, store
  <1>6. Content'
    BY <1>0, <1>2 DEF Content, store, InProgress, Follows, Total
  <1> QED BY <1>3, <1>4, <1>5, <1>6 DEF Inv

(* The last part: the upload holds all of the file.                        *)
LEMMA PutLastKeeps ==
  ASSUME Inv, PutLast
  PROVE  Inv'
  <1>0. /\ TypeInv /\ TypeOK /\ OneUpload /\ Kept /\ RequestOK /\ Content /\ Clearing /\ ~alone
        /\ req \in Req /\ row # "complete" /\ req.pc = "upload" /\ req.up \in Uploads /\ req.n \in Nat
        /\ UNCHANGED <<size, row, started, tail, object, acked, alone, crashes, del>>
    BY NotAlone DEF Inv, TypeInv, RequestOK, Located, PutLast, history, Req
  <1>1. PICK u \in Uploads : u = req.up
    BY <1>0
  <1>a. PICK t \in Seq(1 .. size) : t = req.src
    BY <1>0, TypeFacts
  <1>b. row = "pending" => t = tail
    BY <1>0, <1>a DEF RequestOK, Accurate
  <1>2. CASE UNCHANGED mp /\ Failed /\ (faults' = faults + 1 \/ UNCHANGED faults)
    BY <1>0, <1>2, FailsClean DEF store
  <1> SUFFICES ASSUME mp[u] # NoUpload,
                      mp' = [mp EXCEPT ![u] = [n |-> req.n + 1, data |-> @.data \o t]],
                      \/ Step("complete") /\ UNCHANGED faults
                      \/ Failed /\ faults' = faults + 1
               PROVE  Inv'
    BY <1>1, <1>a, <1>2 DEF PutLast, Call
  <1>3. /\ mp[u].data \in Seq(1 .. size) /\ Len(mp[u].data) \in Nat /\ Len(t) \in Nat
        /\ mp[u].data \in Seq(Nat) /\ t \in Seq(Nat)
    <2>1. \A s \in Seq(1 .. size) : Len(s) \in Nat
      BY Bytes
    <2> QED BY <1>0, <2>1, TypeFacts
  <1>4. mp[u].data \o t \in Seq(1 .. size) /\ Len(mp[u].data \o t) = Len(mp[u].data) + Len(t)
    <2>1. \A s, r \in Seq(1 .. size) : s \o r \in Seq(1 .. size) /\ Len(s \o r) = Len(s) + Len(r)
      BY Bytes
    <2> QED BY <1>3, <2>1, Zenon
  <1>5. [n |-> req.n + 1, data |-> mp[u].data \o t] \in [n : Nat, data : Seq(1 .. size)]
    BY <1>0, <1>4
  <1>6. /\ mp' \in [Uploads -> [n : Nat, data : Seq(1 .. size)] \cup {NoUpload}]
        /\ mp'[u].data = mp[u].data \o t /\ mp'[u] # NoUpload
        /\ \A v \in Uploads : v # u => mp'[v] = mp[v]
    BY <1>0, <1>5, TypeFacts DEF TypeOK
  <1>7. InProgress' = InProgress /\ u \in InProgress /\ \A v \in InProgress : v = u
    BY <1>0, <1>6 DEF InProgress, OneUpload
  <1>8. OneUpload'
    BY <1>0, <1>7 DEF OneUpload
  <1>9. Kept'
    <2> SUFFICES ASSUME row' = "pending", object' = NoObject PROVE Kept'
      BY DEF Kept
    <2>1. acked \subseteq Held(mp[u].data) \cup Held(tail)
      BY <1>0, <1>7 DEF Kept
    <2>2. Held(mp[u].data \o t) = Held(mp[u].data) \cup Held(t)
      BY <1>3, HeldConcat
    <2>3. acked \subseteq Held(mp'[u].data) \cup Held(tail)
      BY <1>6, <2>1, <2>2
    <2> QED BY <1>0, <1>7, <2>3 DEF Kept, Held
  <1>10. CASE Failed /\ faults' = faults + 1
    BY <1>0, <1>6, <1>8, <1>9, <1>10, FailsAfter DEF TypeOK
  <1>11. CASE Step("complete") /\ UNCHANGED faults
    <2>1. req' \in Req /\ req'.pc = "complete" /\ req'.up = u /\ UNCHANGED known
      BY <1>0, <1>1, <1>11, StepFacts DEF ReqPC
    <2>2. TypeInv'
      BY <1>0, <1>6, <1>11, <2>1, RequestTyped DEF TypeOK, TypeInv, Before
    <2>3. Clearing'
      BY <1>0, ClearingKept
    <2>4. RequestOK'
      BY <1>0, <1>6, <2>1 DEF RequestOK, Accurate, Replacing, Carrying, Before
    <2>5. Content'
      <3> SUFFICES ASSUME faults' + crashes' = 0, row' # "gone" PROVE Content'
        BY DEF Content
      <3>1. row = "pending" /\ faults + crashes = 0
        BY <1>0, <1>11, NotAlone
      <3>2. object = NoObject
        BY <1>0, <3>1 DEF Content
      <3>3. Follows(mp[u].data, 0) /\ Follows(t, 0 + Len(mp[u].data))
        BY <1>0, <1>b, <1>3, <1>7, <3>1, <3>2 DEF Content
      <3>4. Follows(mp[u].data \o t, 0)
        BY <1>3, <3>3, FollowsConcat
      <3>5. Len(mp[u].data \o t) = size
        BY <1>0, <1>b, <1>4, <1>7, <3>1 DEF Content, Total
      <3> QED BY <1>0, <1>6, <2>1, <3>2, <3>4, <3>5 DEF Content, Before
    <2> QED BY <1>8, <1>9, <2>2, <2>3, <2>4, <2>5 DEF Inv
  <1> QED BY <1>10, <1>11

(* The object takes the upload's place.                                    *)
LEMMA CompleteMultipartKeeps ==
  ASSUME Inv, CompleteMultipart
  PROVE  Inv'
  <1>0. /\ TypeInv /\ TypeOK /\ OneUpload /\ RequestOK /\ Content /\ Clearing /\ ~alone
        /\ row # "complete" /\ req.pc = "complete" /\ req.up \in Uploads
        /\ UNCHANGED <<size, row, started, tail, acked, alone, crashes, del>>
    BY NotAlone DEF Inv, TypeInv, RequestOK, Located, CompleteMultipart, history
  <1>1. PICK u \in Uploads : u = req.up
    BY <1>0
  <1>2. mp[u] = NoUpload => row # "pending"
    BY <1>0, <1>1 DEF RequestOK, Accurate, Located
  <1>3. CASE /\ UNCHANGED <<object, mp>> /\ Failed
             /\ faults' = faults + 1 \/ (mp[u] = NoUpload /\ UNCHANGED faults)
    BY <1>0, <1>2, <1>3, FailsClean DEF store
  <1> SUFFICES ASSUME mp[u] # NoUpload, object' = mp[u].data, mp' = [mp EXCEPT ![u] = NoUpload],
                      \/ Step("untail") /\ UNCHANGED faults
                      \/ Failed /\ faults' = faults + 1
               PROVE  Inv'
    BY <1>1, <1>3 DEF CompleteMultipart, Call
  <1>4. /\ mp' \in [Uploads -> [n : Nat, data : Seq(1 .. size)] \cup {NoUpload}]
        /\ InProgress' = {} /\ u \in InProgress
    BY <1>0, UploadEnds DEF InProgress
  <1>5. object' \in Seq(1 .. size) /\ object' # NoObject /\ object' \in Seq(Nat)
    BY <1>0, TypeFacts
  <1>6. OneUpload' /\ Kept'
    BY <1>4, <1>5 DEF OneUpload, Kept
  <1>7. CASE Failed /\ faults' = faults + 1
    BY <1>0, <1>4, <1>5, <1>6, <1>7, FailsAfter DEF TypeOK
  <1>8. CASE Step("untail") /\ UNCHANGED faults
    <2>1. req' \in Req /\ req'.pc = "untail" /\ UNCHANGED known
      BY <1>0, <1>8, StepFacts DEF ReqPC
    <2>2. TypeInv'
      BY <1>0, <1>4, <1>5, <1>8, <2>1, RequestTyped DEF TypeOK, TypeInv, Before, Located
    <2>3. Clearing'
      BY <1>0, ClearingKept
    <2>4. RequestOK'
      BY <1>0, <1>5, <2>1 DEF RequestOK, Accurate, Replacing, Carrying, Located, Before
    <2>5. Content'
      <3> SUFFICES ASSUME faults' + crashes' = 0, row' # "gone" PROVE Content'
        BY DEF Content
      <3>1. Follows(object', 0) /\ Len(object') = size
        BY <1>0, <1>1, <1>8 DEF Content
      <3>2. object' = File(size) /\ File(size)' = File(size)
        BY <1>0, <1>5, <3>1, FollowsFile DEF File
      <3> QED BY <1>4, <1>5, <2>1, <3>2 DEF Content, Before
    <2> QED BY <1>6, <2>2, <2>3, <2>4, <2>5 DEF Inv
  <1> QED BY <1>7, <1>8

(* The tail goes once the object is there.                                 *)
LEMMA RemoveTailKeeps ==
  ASSUME Inv, RemoveTail
  PROVE  Inv'
  <1>0. /\ TypeInv /\ TypeOK /\ OneUpload /\ RequestOK /\ Content /\ Clearing /\ ~alone
        /\ row # "complete" /\ req.pc = "untail"
        /\ UNCHANGED <<size, row, started, mp, object, acked, alone, crashes, del>>
    BY NotAlone DEF Inv, TypeInv, RequestOK, RemoveTail, history
  <1>1. CASE UNCHANGED tail /\ Failed /\ faults' = faults + 1
    BY <1>0, <1>1, FailsClean DEF store
  <1> SUFFICES ASSUME tail' = <<>>, \/ Step("row") /\ UNCHANGED faults
                                    \/ Failed /\ faults' = faults + 1
               PROVE  Inv'
    BY <1>1 DEF RemoveTail, Call
  <1>2. tail' \in Seq(1 .. size) /\ Len(tail') < PartSize
    BY <1>0, TypeFacts, Bytes
  <1>3. row = "pending" => object # NoObject
    BY <1>0 DEF RequestOK, Replacing, Carrying
  <1>4. OneUpload' /\ Kept'
    BY <1>0, <1>3 DEF OneUpload, InProgress, Kept
  <1>5. CASE Failed /\ faults' = faults + 1
    BY <1>0, <1>2, <1>4, <1>5, FailsAfter DEF TypeOK
  <1>6. CASE Step("row") /\ UNCHANGED faults
    <2>1. req' \in Req /\ req'.pc = "row" /\ UNCHANGED known
      BY <1>0, <1>6, StepFacts DEF ReqPC
    <2>2. TypeInv'
      BY <1>0, <1>2, <1>6, <2>1, RequestTyped DEF TypeOK, TypeInv, Before, Located
    <2>3. Clearing'
      BY <1>0, ClearingKept
    <2>4. RequestOK'
      BY <1>0, <2>1 DEF RequestOK, Accurate, Replacing, Carrying, Located, Before
    <2>5. Content'
      <3>1. row' # "gone" => object' # NoObject
        BY <1>0, <1>3, NotAlone
      <3>2. File(size)' = File(size)
        BY <1>0 DEF File
      <3> QED BY <1>0, <1>6, <2>1, <3>1, <3>2 DEF Content, Before
    <2> QED BY <1>4, <2>2, <2>3, <2>4, <2>5 DEF Inv
  <1> QED BY <1>5, <1>6

LEMMA CompleteRowKeeps ==
  ASSUME Inv, CompleteRow
  PROVE  Inv'
  <1>0. /\ TypeInv /\ TypeOK /\ OneUpload /\ RequestOK /\ Content /\ Clearing /\ ~alone
        /\ row # "complete" /\ req.pc = "row" /\ (row # "gone" => row = "pending")
        /\ UNCHANGED <<size, started, mp, tail, object, acked, alone, crashes, del>>
    BY NotAlone DEF Inv, TypeInv, RequestOK, CompleteRow, history, blobs
  <1>1. CASE UNCHANGED row /\ Failed /\ faults' = faults + 1
    BY <1>0, <1>1, FailsClean DEF store
  <1> SUFFICES ASSUME row' = IF row = "pending" THEN "complete" ELSE row,
                      \/ req' = Idle /\ UNCHANGED <<known, faults>>
                      \/ Failed /\ faults' = faults + 1
               PROVE  Inv'
    BY <1>1 DEF CompleteRow, Call
  <1>2. row' # "pending" /\ (UNCHANGED row \/ (row = "pending" /\ row' = "complete"))
    OBVIOUS
  <1>3. OneUpload' /\ Kept'
    BY <1>0, <1>2 DEF OneUpload, InProgress, Kept
  <1>4. CASE Failed /\ faults' = faults + 1
    BY <1>0, <1>2, <1>3, <1>4, FailsAfter DEF TypeOK
  <1>5. CASE req' = Idle /\ UNCHANGED <<known, faults>>
    <2>1. Idle \in Req /\ req'.pc = "idle" /\ req'.read = 0 /\ req'.op = "none" /\ req' = Idle
      BY <1>5, Bytes DEF Idle, Req, ReqPC
    <2>2. TypeInv'
      BY <1>0, <1>2, <1>5, <2>1, RequestTyped DEF TypeOK, TypeInv, Located
    <2>3. Clearing'
      BY <1>0, <1>2, ClearingKept
    <2>4. RequestOK'
      BY <1>2, <2>1 DEF RequestOK, Accurate, Replacing, Carrying
    <2>5. Content'
      <3> SUFFICES ASSUME faults' + crashes' = 0, row' # "gone" PROVE Content'
        BY DEF Content
      <3>1. row = "pending" /\ row' = "complete" /\ faults + crashes = 0
        BY <1>0, <1>5
      <3>2. InProgress' = InProgress /\ File(size)' = File(size)
        BY <1>0 DEF InProgress, File
      <3> QED BY <1>0, <2>1, <3>1, <3>2 DEF Content
    <2> QED BY <1>3, <2>2, <2>3, <2>4, <2>5 DEF Inv
  <1> QED BY <1>4, <1>5

-----------------------------------------------------------------------------
(* The deletion.                                                           *)

LEMMA DeleteRowKeeps ==
  ASSUME Inv, DeleteRow
  PROVE  Inv'
  <1>0. /\ TypeInv /\ TypeOK /\ OneUpload /\ RequestOK /\ Clearing
        /\ UNCHANGED <<size, started, mp, tail, object, acked, crashes, req, known, faults>>
    BY DEF Inv, TypeInv, DeleteRow, blobs
  <1>1. del' = [del EXCEPT !.pc = "object"] /\ row' = "gone" /\ alone' = (req.pc = "idle")
    BY DEF DeleteRow, DelStep
  <1>2. del' \in [pc : DelPC, left : SUBSET Uploads] /\ del'.pc = "object" /\ del'.left = del.left
    BY <1>0, <1>1 DEF TypeInv, DelPC
  <1>3. TypeInv'
    BY <1>0, <1>1, <1>2 DEF TypeInv, TypeOK, Req
  <1>4. OneUpload' /\ Kept' /\ Content'
    BY <1>0, <1>1 DEF OneUpload, InProgress, Kept, Content
  <1>5. RequestOK'
    BY <1>0, <1>1 DEF RequestOK, Accurate, Replacing, Carrying, InProgress
  <1>6. Clearing'
    BY <1>0, <1>1, <1>2 DEF Clearing
  <1> QED BY <1>3, <1>4, <1>5, <1>6 DEF Inv

(* A call of S3.Delete takes things out of the store, and the row is gone. *)
LEMMA Removes ==
  ASSUME Inv, del.pc # "idle", UNCHANGED <<history, row, req, known>>,
         mp' \in [Uploads -> [n : Nat, data : Seq(1 .. size)] \cup {NoUpload}],
         InProgress' \subseteq InProgress,
         tail' \in {tail, <<>>}, object' \in {object, NoObject},
         del' \in [pc : DelPC, left : SUBSET Uploads], del'.pc # "idle",
         faults' \in {faults, faults + 1},
         alone /\ del'.pc \in {"list", "abort", "done"} => object' = NoObject,
         alone /\ del'.pc = "abort" => InProgress' \subseteq del'.left,
         alone /\ del'.pc = "done" => InProgress' = {} /\ tail' = <<>>
  PROVE  Inv'
  <1>0. /\ TypeInv /\ TypeOK /\ OneUpload /\ RequestOK /\ Clearing /\ row = "gone"
        /\ UNCHANGED <<size, started, acked, alone, crashes, row, req, known>>
    BY DEF Inv, TypeInv, Clearing, history
  <1>1. tail' \in Seq(1 .. size) /\ Len(tail') < PartSize
    <2>1. PartSize \in Nat \ {0} /\ tail \in Seq(1 .. size) /\ Len(tail) < PartSize
      BY <1>0, TypeFacts DEF TypeOK
    <2>2. CASE tail' = <<>>
      <3>1. <<>> \in Seq(1 .. size) /\ Len(<<>>) < PartSize
        BY <2>1
      <3> QED BY <2>2, <3>1
    <2>3. CASE tail' = tail
      BY <2>1, <2>3
    <2> QED BY <2>2, <2>3
  <1>2. TypeOK'
    BY <1>0, <1>1 DEF TypeOK
  <1>3. TypeInv'
    BY <1>0, <1>2 DEF TypeInv, Req
  <1>4. OneUpload' /\ Kept' /\ Content'
    BY <1>0 DEF OneUpload, Kept, Content
  <1>5. RequestOK'
    BY <1>0 DEF RequestOK, Accurate, Replacing, Carrying
  <1>6. Clearing'
    BY <1>0 DEF Clearing
  <1> QED BY <1>3, <1>4, <1>5, <1>6 DEF Inv

LEMMA DeleteOutcomes ==
  /\ NoDel \in [pc : DelPC, left : SUBSET Uploads]
  /\ DeleteFailed => del' \in [pc : DelPC, left : SUBSET Uploads] /\ del'.pc = "failed"
  /\ Deleted => del' \in [pc : DelPC, left : SUBSET Uploads] /\ del'.pc = "done"
  BY DEF DeleteFailed, Deleted, NoDel, DelPC

LEMMA RemoveObjectKeeps ==
  ASSUME Inv, RemoveObject
  PROVE  Inv'
  <1>0. /\ TypeInv /\ TypeOK /\ Clearing /\ del.pc = "object" /\ UNCHANGED <<history, row, mp, tail, req, known>>
        /\ mp \in [Uploads -> [n : Nat, data : Seq(1 .. size)] \cup {NoUpload}]
    BY DEF Inv, TypeInv, TypeOK, RemoveObject
  <1>1. InProgress' = InProgress
    BY <1>0 DEF InProgress
  <1>2. CASE object' \in {object, NoObject} /\ DeleteFailed /\ faults' = faults + 1
    BY <1>0, <1>1, <1>2, DeleteOutcomes, Removes
  <1>3. CASE object' = NoObject /\ DelStep("list") /\ UNCHANGED faults
    <2>1. del' \in [pc : DelPC, left : SUBSET Uploads] /\ del'.pc = "list"
      BY <1>0, <1>3 DEF DelStep, TypeInv, DelPC
    <2> QED BY <1>0, <1>1, <1>3, <2>1, Removes
  <1> QED BY <1>2, <1>3 DEF RemoveObject, Call

LEMMA ListAbortsKeeps ==
  ASSUME Inv, ListAborts
  PROVE  Inv'
  <1>0. /\ TypeInv /\ TypeOK /\ Clearing /\ del.pc = "list"
        /\ UNCHANGED <<history, row, mp, tail, object, req, known, faults>>
        /\ mp \in [Uploads -> [n : Nat, data : Seq(1 .. size)] \cup {NoUpload}]
    BY DEF Inv, TypeInv, TypeOK, ListAborts, blobs
  <1>1. InProgress' = InProgress /\ InProgress \in SUBSET Uploads
    BY <1>0 DEF InProgress
  <1>2. del' = [pc |-> "abort", left |-> InProgress]
    BY DEF ListAborts
  <1>3. del' \in [pc : DelPC, left : SUBSET Uploads] /\ del'.pc = "abort" /\ del'.left = InProgress
    BY <1>1, <1>2 DEF DelPC
  <1>4. alone => object = NoObject
    BY <1>0 DEF Clearing
  <1> QED BY <1>0, <1>1, <1>3, <1>4, Removes

LEMMA AbortOneKeeps ==
  ASSUME Inv, NEW u \in Uploads, AbortOne(u)
  PROVE  Inv'
  <1>0. /\ TypeInv /\ TypeOK /\ OneUpload /\ Clearing /\ del.pc = "abort"
        /\ UNCHANGED <<history, row, tail, object, req, known>>
        /\ mp \in [Uploads -> [n : Nat, data : Seq(1 .. size)] \cup {NoUpload}]
    BY DEF Inv, TypeInv, TypeOK, AbortOne
  <1>1. CASE UNCHANGED mp /\ DeleteFailed /\ faults' = faults + 1
    <2>1. InProgress' = InProgress
      BY <1>1 DEF InProgress
    <2> QED BY <1>0, <1>1, <2>1, DeleteOutcomes, Removes
  <1>2. CASE mp' = [mp EXCEPT ![u] = NoUpload]
    <2>1. /\ mp' \in [Uploads -> [n : Nat, data : Seq(1 .. size)] \cup {NoUpload}]
          /\ InProgress' = InProgress \ {u}
      BY <1>0, <1>2, UploadEnds
    <2>2. CASE DeleteFailed /\ faults' = faults + 1
      BY <1>0, <2>1, <2>2, DeleteOutcomes, Removes
    <2>3. CASE del' = [del EXCEPT !.left = del.left \ {u}] /\ UNCHANGED faults
      <3>1. /\ del' \in [pc : DelPC, left : SUBSET Uploads] /\ del'.pc = "abort"
            /\ del'.left = del.left \ {u}
        BY <1>0, <2>3 DEF TypeInv
      <3>2. alone => object = NoObject /\ InProgress \subseteq del.left
        BY <1>0 DEF Clearing
      <3> QED BY <1>0, <2>1, <2>3, <3>1, <3>2, Removes
    <2> QED BY <1>1, <2>2, <2>3 DEF AbortOne, Call
  <1> QED BY <1>1, <1>2 DEF AbortOne, Call

LEMMA DiscardTailKeeps ==
  ASSUME Inv, DiscardTail
  PROVE  Inv'
  <1>0. /\ TypeInv /\ TypeOK /\ Clearing /\ del.pc = "abort" /\ del.left = {}
        /\ UNCHANGED <<history, row, mp, object, req, known>>
        /\ mp \in [Uploads -> [n : Nat, data : Seq(1 .. size)] \cup {NoUpload}]
    BY DEF Inv, TypeInv, TypeOK, DiscardTail
  <1>1. InProgress' = InProgress
    BY <1>0 DEF InProgress
  <1>2. CASE tail' \in {tail, <<>>} /\ DeleteFailed /\ faults' = faults + 1
    BY <1>0, <1>1, <1>2, DeleteOutcomes, Removes
  <1>3. CASE tail' = <<>> /\ Deleted /\ UNCHANGED faults
    <2>1. alone => object = NoObject /\ InProgress = {}
      BY <1>0 DEF Clearing
    <2> QED BY <1>0, <1>1, <1>3, <2>1, DeleteOutcomes, Removes
  <1> QED BY <1>2, <1>3 DEF DiscardTail, Call

-----------------------------------------------------------------------------
(* The rest.                                                               *)

LEMMA CrashKeeps ==
  ASSUME Inv, Crash
  PROVE  Inv'
  <1>0. /\ TypeInv /\ TypeOK /\ OneUpload /\ Kept /\ RequestOK /\ Clearing
        /\ UNCHANGED <<size, started, mp, tail, object, acked, alone, row, faults>>
        /\ req' = Idle /\ known' = Unknown /\ crashes' = crashes + 1
        /\ faults \in Nat /\ crashes \in Nat
    BY DEF Inv, TypeInv, Crash, blobs
  <1>1. /\ Idle \in Req /\ Idle.pc = "idle" /\ Idle.read = 0 /\ Idle.op = "none" /\ Idle.rep = 0 /\ Idle.src = <<>>
        /\ <<>> \in Seq(1 .. size)
    BY Bytes DEF Idle, Req, ReqPC
  <1>2. del' \in [pc : DelPC, left : SUBSET Uploads] /\ (del' = del \/ (del.pc # "idle" /\ del'.pc = "failed"))
    <2>1. [NoDel EXCEPT !.pc = "failed"] = [pc |-> "failed", left |-> {}]
      BY DEF NoDel
    <2> QED BY <1>0, <2>1 DEF Crash, TypeInv, DelPC
  <1>3. TypeOK'
    BY <1>0, <1>1, <1>2 DEF TypeOK
  <1>4. TypeInv'
    BY <1>0, <1>1, <1>2, <1>3 DEF TypeInv, Req, Located
  <1>5. OneUpload' /\ Kept'
    BY <1>0 DEF OneUpload, InProgress, Kept, Held
  <1>6. RequestOK'
    BY <1>0, <1>1 DEF RequestOK, Accurate, Replacing, Carrying, Located
  <1>7. Content'
    <2>1. faults' + crashes' # 0
      BY <1>0
    <2> QED BY <2>1 DEF Content
  <1>8. Clearing'
    <2>1. InProgress' = InProgress
      BY <1>0 DEF InProgress
    <2> QED BY <1>0, <1>1, <1>2, <2>1 DEF Clearing
  <1> QED BY <1>4, <1>5, <1>6, <1>7, <1>8 DEF Inv

LEMMA InitInv == Init => Inv
  <1> SUFFICES ASSUME Init PROVE Inv
    OBVIOUS
  <1>1. TypeInv
    BY InitType
  <1>2. /\ req.pc \in {"idle", "list"} /\ req.src = <<>> /\ Len(<<>>) = 0 /\ req.op # "finish"
        /\ row = "pending" /\ object = NoObject /\ tail = <<>> /\ acked = {} /\ del.pc = "idle" /\ ~alone
    BY DEF Init, Idle, NoDel
  <1>3. InProgress = {}
    BY DEF Init, InProgress
  <1>4. OneUpload /\ Kept /\ RequestOK /\ Clearing
    BY <1>2, <1>3 DEF OneUpload, Kept, RequestOK, Accurate, Replacing, Carrying, Located, Clearing,
       Follows
  <1>5. Content
    BY <1>2, <1>3 DEF Content, Follows
  <1> QED BY <1>1, <1>4, <1>5 DEF Inv

LEMMA StutterKeeps ==
  ASSUME Inv, UNCHANGED vars
  PROVE  Inv'
  <1>1. TypeInv'
    BY DEF Inv, vars, TypeInv, TypeOK, Req
  <1>2. InProgress' = InProgress /\ \A u \in InProgress : Total(u)' = Total(u)
    BY DEF vars, InProgress, Total
  <1>3. OneUpload' /\ Kept' /\ Clearing'
    BY <1>2 DEF Inv, vars, OneUpload, Kept, Clearing, Held
  <1>4. Carrying'
    <2>1. Carrying
      BY DEF Inv, RequestOK
    <2> QED BY <2>1 DEF Carrying, vars, Follows, Held, Chunk
  <1>5. Accurate' /\ Replacing'
    BY DEF Inv, RequestOK, Accurate, Replacing, Total, vars
  <1>6. RequestOK'
    BY <1>2, <1>4, <1>5 DEF Inv, RequestOK, vars
  <1>7. Content'
    BY <1>2 DEF Inv, vars, Content, Follows, File
  <1> QED BY <1>1, <1>3, <1>6, <1>7 DEF Inv

(* The invariant is kept by every step.                                    *)
LEMMA StepKeeps ==
  ASSUME Inv, [Next]_vars
  PROVE  Inv'
  <1>1. CASE Next
    <2>1. CASE Ask \/ \E k \in 0 .. size : Send(k)
      BY <2>1, AskKeeps, SendKeeps
    <2>2. CASE ListUploads \/ ListParts \/ StatTail \/ NewMultipart \/ ReadTail
      BY <2>2, ListUploadsKeeps, ListPartsKeeps, StatTailKeeps, NewMultipartKeeps, ReadTailKeeps
    <2>3. CASE PutPart \/ PutTail \/ Reply
      BY <2>3, PutPartKeeps, PutTailKeeps, ReplyKeeps
    <2>4. CASE AbortEmpty \/ PutEmpty \/ ReadLast \/ PutLast
      BY <2>4, AbortEmptyKeeps, PutEmptyKeeps, ReadLastKeeps, PutLastKeeps
    <2>5. CASE CompleteMultipart \/ RemoveTail \/ CompleteRow
      BY <2>5, CompleteMultipartKeeps, RemoveTailKeeps, CompleteRowKeeps
    <2>6. CASE DeleteRow \/ DeleteRuns
      BY <2>6, DeleteRowKeeps, RemoveObjectKeeps, ListAbortsKeeps, DiscardTailKeeps, AbortOneKeeps
         DEF DeleteRuns
    <2>7. CASE Crash
      BY <2>7, CrashKeeps
    <2> QED BY <1>1, <2>1, <2>2, <2>3, <2>4, <2>5, <2>6, <2>7 DEF Next, RequestRuns
  <1> QED BY <1>1, StutterKeeps

LEMMA Invariance == Spec => []Inv
  <1>1. Inv /\ [Next]_vars => Inv'
    BY StepKeeps
  <1> QED BY InitInv, <1>1, PTL DEF Spec

-----------------------------------------------------------------------------
(* What the invariant implies.                                             *)

(* What state finds is the one upload's bytes and the tail.                *)
LEMMA StoredFacts ==
  ASSUME Inv
  PROVE  /\ InProgress = {} => StoredData = tail
         /\ \A u \in InProgress : Len(StoredData) = Total(u)
  <1>0. TypeInv /\ OneUpload
    BY DEF Inv
  <1>1. InProgress = {} => StoredData = tail
    BY <1>0, NewestFacts DEF StoredData
  <1>2. ASSUME NEW u \in InProgress PROVE Len(StoredData) = Total(u)
    <2>1. Newest = u /\ u # 0 /\ u \in Uploads /\ mp[u] # NoUpload
      BY <1>0, <1>2, NewestFacts DEF InProgress, Uploads
    <2>2. StoredData = mp[u].data \o tail
      BY <2>1 DEF StoredData
    <2>3. mp[u].data \in Seq(1 .. size) /\ tail \in Seq(1 .. size)
      BY <1>0, <2>1, TypeFacts
    <2>4. Len(mp[u].data \o tail) = Len(mp[u].data) + Len(tail)
      <3>1. \A s, t \in Seq(1 .. size) : Len(s \o t) = Len(s) + Len(t)
        BY Bytes
      <3> QED BY <2>3, <3>1, Zenon
    <2> QED BY <2>2, <2>4 DEF Total
  <1> QED BY <1>1, <1>2

(* Every variable keeps its type; a tail never grows to the size of a part *)
(* (writeChunk uploads a part as soon as it has one).                      *)
THEOREM TypeCorrect == Spec => []TypeOK
  <1>1. Inv => TypeOK
    BY DEF Inv, TypeInv
  <1> QED BY Invariance, <1>1, PTL

(* Where no call failed and no process died, the object that finish leaves *)
(* is the file that was sent, however it was cut into chunks and parts.    *)
THEOREM UndisturbedUploadsWhole == Spec => []UndisturbedWhole
  <1>1. Inv => UndisturbedWhole
    BY DEF Inv, Content, UndisturbedWhole
  <1> QED BY Invariance, <1>1, PTL

(* A byte of a chunk that a client was told is stored stays among the      *)
(* parts and the tail until the object exists, whatever call fails, took   *)
(* effect unnoticed, or is cut short by a crash.                           *)
THEOREM AcknowledgedBytesKept == Spec => []AcknowledgedKept
  <1>1. ASSUME Inv PROVE AcknowledgedKept
    <2> SUFFICES ASSUME row = "pending", object = NoObject PROVE acked \subseteq Held(StoredData)
      BY DEF AcknowledgedKept
    <2>1. CASE InProgress = {}
      <3>1. acked = {}
        BY <1>1, <2>1 DEF Inv, Kept
      <3> QED BY <3>1
    <2>2. CASE InProgress # {}
      <3>1. PICK u \in InProgress : TRUE
        BY <2>2
      <3>2. acked \subseteq Held(mp[u].data) \cup Held(tail)
        BY <1>1 DEF Inv, Kept
      <3>3. u \in Uploads /\ u # 0 /\ mp[u] # NoUpload /\ Newest = u
        BY <1>1, NewestFacts DEF Inv, InProgress, Uploads
      <3>4. mp[u].data \in Seq(Nat) /\ tail \in Seq(Nat)
        BY <1>1, <3>3, TypeFacts DEF Inv
      <3>5. Held(mp[u].data \o tail) = Held(mp[u].data) \cup Held(tail)
        BY <3>4, HeldConcat
      <3>6. StoredData = mp[u].data \o tail
        BY <3>3 DEF StoredData
      <3> QED BY <3>2, <3>5, <3>6
    <2> QED BY <2>1, <2>2
  <1> QED BY Invariance, <1>1, PTL

(* The count writeChunk returns is where the stored bytes end, however     *)
(* often a process died before, unless a call failed.                      *)
THEOREM ReportsTrue == Spec => []ReportedUnlessFailed
  <1>1. ASSUME Inv PROVE ReportedUnlessFailed
    <2> SUFFICES ASSUME faults = 0, row = "pending", req.pc = "reply"
                 PROVE  req.off + req.rep = Len(StoredData)
      BY DEF ReportedUnlessFailed
    <2>1. req.up \in Uploads /\ mp[req.up] # NoUpload /\ req.off + req.rep = Total(req.up)
      BY <1>1 DEF Inv, TypeInv, RequestOK, Accurate, Located
    <2> QED BY <1>1, <2>1, StoredFacts DEF InProgress
  <1> QED BY Invariance, <1>1, PTL

(* S3.Delete that succeeded with no request under way has left neither     *)
(* object nor upload nor tail, an upload that a failure or a crash had     *)
(* leaked included.                                                        *)
THEOREM DeletionClears == Spec => []DeleteClears
  <1>1. Inv => DeleteClears
    BY DEF Inv, Clearing, DeleteClears
  <1> QED BY Invariance, <1>1, PTL
=============================================================================
