------------------------------- MODULE Compat -------------------------------
(***************************************************************************)
(* The endpoints of the third-party protocol (internal/compat), the two    *)
(* tables they share with the rest of the server (internal/store/compat.go *)
(* and the uploads table) and the reaper.  Uploads share no state, so one  *)
(* upload is followed from its header to its removal.                      *)
(*                                                                         *)
(*   up       the WebSocket that uploads it, handleUpload                  *)
(*   Clients  requests: exists and the share page, metadata, the download  *)
(*            token, the download, the password                            *)
(*   Deleters abandon, called by the socket's handler, and the reaper      *)
(*                                                                         *)
(* Nonces are numbered in the order they are drawn: sixteen random bytes   *)
(* are never drawn twice.  An authenticator is the pair of the key and the *)
(* nonce it was computed from.  Lengths are in blocks.  The table keeps    *)
(* seconds; the policy of UploadRow is in nanoseconds here, as in the      *)
(* code, and a second has Nanos of them.                                   *)
(***************************************************************************)
EXTENDS UploadRow, FiniteSets

CONSTANTS
  Clients, LinkKey, Passwords, \* the key in the link, the keys of passwords
  NoRow, NoCred, NoFile,
  Nanos,        \* nanoseconds of a second
  Width,        \* a time.Duration has 2^Width values
  TimeLimits,   \* lifetimes a client may ask for, in seconds
  Limits,       \* download limits a client may ask for
  Frames,       \* lengths of a binary frame
  MaxSize,      \* bound on the length of an upload
  MaxTime, MaxNonce, MaxSent, MaxFaults, MaxCrashes

ASSUME CompatAssumption ==
  /\ LinkKey \notin Passwords /\ Nanos \in Nat \ {0} /\ Width \in Nat \ {0}
  /\ TimeLimits \subseteq Int /\ Limits \subseteq Int /\ Frames \subseteq Nat
  /\ NoRow \notin Row /\ NoFile \notin Nat
  /\ {MaxSize, MaxTime, MaxNonce, MaxSent, MaxFaults, MaxCrashes} \subseteq Nat

(* The requests under way at any time can be counted.                      *)
ASSUME ClientsAssumption == IsFiniteSet(Clients)

(* What arithmetic says of powers, for provers that do not know it.        *)
ASSUME PowerAssumption == 2^Width \in Nat \ {0} /\ 2^(Width - 1) \in Nat

VARIABLES
  now, row,     \* the upload's row
  cred,         \* its row in compat_uploads
  wal,          \* the deleted row's at-rest key is in the write-ahead log
  partial, final, \* lengths of the two files
  up, del, q,   \* the socket, the deleters, the requests
  issued,       \* a download token was handed out
  offered,      \* nonces some client was told
  spent,        \* history: nonces a request was authenticated with
  pwset,        \* history: setting a password was answered 200
  sent,         \* history: blocks sent to clients
  left,         \* history: a client left before its download was recorded
  faults, crashes

vars == <<now, row, cred, wal, partial, final, up, del, q, issued, offered,
          spent, pwset, sent, left, faults, crashes>>

tables  == <<row, cred, wal>>
files   == <<partial, final>>
history == <<issued, offered, spent, pwset, sent, left>>
clock   == <<now, crashes>>

Deleters == {"abandon", "reaper"}
Keys     == {LinkKey} \cup Passwords
Kinds    == {"exists", "metadata", "token", "download", "password"}
Bearer   == [key |-> "bearer", nonce |-> 0]

Idle == [pc |-> "idle", kind |-> "none", auth |-> Bearer, nonce |-> 0, len |-> 0,
         n |-> 0, gone |-> FALSE, stale |-> FALSE, late |-> FALSE, authed |-> FALSE]

Init ==
  /\ now = 1 /\ row = NoRow /\ cred = NoCred /\ wal = FALSE
  /\ partial = NoFile /\ final = NoFile
  /\ up = [pc |-> "new", off |-> 0]
  /\ del = [d \in Deleters |-> "idle"]
  /\ q = [r \in Clients |-> Idle]
  /\ issued = FALSE /\ offered = {} /\ spent = {} /\ pwset = FALSE
  /\ sent = 0 /\ left = FALSE /\ faults = 0 /\ crashes = 0

Fault == faults < MaxFaults /\ faults' = faults + 1

-----------------------------------------------------------------------------
(* The upload.                                                             *)

(* time.Duration(seconds) * time.Second, in an int64.                      *)
Duration(seconds) ==
  ((seconds * Nanos + 2^(Width - 1)) % 2^Width) - 2^(Width - 1)

(* The deadline as the table keeps it: whole seconds.                      *)
Deadline(d) ==
  LET e == ResolveExpiry(d, now * Nanos) IN IF e = NoTime THEN NoTime ELSE e \div Nanos

(* The protocol's default is one download, not any number.                 *)
downloadLimit(requested) == IF requested > 0 THEN requested ELSE 1

(* Both rows are stored in one transaction.  The size is not known yet.    *)
Insert(d, max) ==
  /\ row' = [NewRow(0, d, max, now) EXCEPT !.expiresAt = Deadline(d)]
  /\ cred' = [key |-> LinkKey, nonce |-> 1, pw |-> FALSE]

(* The header is read and the policy asked.  A header that cannot be read, *)
(* that the policy refuses or that cannot be stored leaves nothing.  The   *)
(* model's clock outlasts an upload that is never finished.                *)
CreateCompat(seconds, limit) ==
  /\ up.pc = "new" /\ now * Nanos + IncompleteTTL <= MaxTime * Nanos
  /\ LET d == Duration(seconds)
         max == downloadLimit(limit) IN
     \/ /\ ~ExpiryRefused(d) /\ EnsureBounded(Deadline(d), max)
        /\ Insert(d, max)
        /\ up' = [up EXCEPT !.pc = "link"]
        /\ UNCHANGED faults
     \/ /\ ExpiryRefused(d) \/ ~EnsureBounded(Deadline(d), max)
        /\ up' = [up EXCEPT !.pc = "end"]
        /\ UNCHANGED <<row, cred, faults>>
     \/ Fault /\ up' = [up EXCEPT !.pc = "end"] /\ UNCHANGED <<row, cred>>
  /\ UNCHANGED <<clock, wal, files, del, q, history>>

(* Variant: what was received is left to the reaper.                       *)
GiveUpQuietly ==
  /\ up' = [up EXCEPT !.pc = "end"]
  /\ UNCHANGED del

(* The handler ends by removing the upload.                                *)
GiveUp ==
  /\ up' = [up EXCEPT !.pc = "end"]
  /\ del' = [del EXCEPT !["abandon"] = "row"]

(* The link leaves before a byte arrives, if the client is still there.    *)
SendLink ==
  /\ up.pc = "link"
  /\ \/ up' = [up EXCEPT !.pc = "receive"] /\ UNCHANGED del
     \/ GiveUp
  /\ UNCHANGED <<clock, tables, files, q, history, faults>>

(* A frame is appended where the stored bytes end.  The partial is created *)
(* if it is not there, before its length is compared with the offset: a    *)
(* name removed under the open descriptor is as good as removed after.     *)
(* A write that fails keeps k blocks of the frame.                         *)
ReceiveFrame(n) ==
  /\ up.pc = "receive" /\ up.off + n <= MaxSize
  /\ LET len == IF partial = NoFile THEN 0 ELSE partial IN
     \/ /\ len = up.off /\ partial' = len + n
        /\ up' = [up EXCEPT !.off = @ + n] /\ UNCHANGED <<del, faults>>
     \/ len # up.off /\ partial' = len /\ GiveUp /\ UNCHANGED faults
     \/ \E k \in 0 .. n : len = up.off /\ partial' = len + k /\ Fault /\ GiveUp
  /\ UNCHANGED <<clock, tables, final, q, history>>

(* The frame of one zero byte ends the stream.  A text frame or a broken   *)
(* connection ends it too.                                                 *)
EndOfFile ==
  /\ up.pc = "receive"
  /\ \/ up' = [up EXCEPT !.pc = "finish"] /\ UNCHANGED del
     \/ GiveUp
  /\ UNCHANGED <<clock, tables, files, q, history, faults>>

(* The partial becomes the blob; an upload without a frame has none.       *)
FinishBlob ==
  /\ up.pc = "finish"
  /\ \/ /\ partial # NoFile /\ final' = partial /\ partial' = NoFile
        /\ up' = [up EXCEPT !.pc = "complete"] /\ UNCHANGED <<del, faults>>
     \/ partial = NoFile /\ GiveUp /\ UNCHANGED <<files, faults>>
     \/ Fault /\ GiveUp /\ UNCHANGED files
  /\ UNCHANGED <<clock, tables, q, history>>

(* Variant: the size is left as it was created.                            *)
FinishSizeless ==
  /\ up.pc = "complete"
  /\ \/ /\ row # NoRow /\ row' = [row EXCEPT !.completedAt = now]
        /\ up' = [up EXCEPT !.pc = "end"] /\ UNCHANGED <<del, faults>>
     \/ row = NoRow /\ GiveUp /\ UNCHANGED <<row, faults>>
     \/ Fault /\ GiveUp /\ UNCHANGED row
  /\ UNCHANGED <<clock, cred, wal, files, q, history>>

(* Size and completion in one statement, on a row that is still pending.   *)
FinishCompat ==
  /\ up.pc = "complete"
  /\ \/ /\ row # NoRow /\ ~Complete(row)
        /\ row' = [row EXCEPT !.size = up.off, !.completedAt = now]
        /\ up' = [up EXCEPT !.pc = "end"] /\ UNCHANGED <<del, faults>>
     \/ ~(row # NoRow /\ ~Complete(row)) /\ GiveUp /\ UNCHANGED <<row, faults>>
     \/ Fault /\ GiveUp /\ UNCHANGED row
  /\ UNCHANGED <<clock, cred, wal, files, q, history>>

-----------------------------------------------------------------------------
(* Service.Delete, by abandon and by the reaper.  The compatibility row    *)
(* goes with the upload's row.  Only the reaper retires the log.           *)

ReapList ==
  /\ del["reaper"] = "idle" /\ row # NoRow
  /\ Dead(row, now, Abandoned(now * Nanos) \div Nanos)
  /\ del' = [del EXCEPT !["reaper"] = "row"]
  /\ UNCHANGED <<clock, tables, files, up, q, history, faults>>

DeleteRow(d) ==
  /\ del[d] = "row"
  /\ \/ /\ row' = NoRow /\ cred' = NoCred /\ wal' = (wal \/ row # NoRow)
        /\ del' = [del EXCEPT ![d] = "final"] /\ UNCHANGED faults
     \/ Fault /\ del' = [del EXCEPT ![d] = "idle"] /\ UNCHANGED tables
  /\ UNCHANGED <<clock, files, up, q, history>>

DeleteFinal(d) ==
  /\ del[d] = "final"
  /\ \/ final' = NoFile /\ del' = [del EXCEPT ![d] = "partial"] /\ UNCHANGED faults
     \/ Fault /\ del' = [del EXCEPT ![d] = "idle"] /\ UNCHANGED final
  /\ UNCHANGED <<clock, tables, partial, up, q, history>>

DeletePartial(d) ==
  /\ del[d] = "partial"
  /\ \/ /\ partial' = NoFile /\ UNCHANGED faults
        /\ del' = [del EXCEPT ![d] = IF d = "reaper" THEN "checkpoint" ELSE "idle"]
     \/ Fault /\ del' = [del EXCEPT ![d] = "idle"] /\ UNCHANGED partial
  /\ UNCHANGED <<clock, tables, final, up, q, history>>

Checkpoint ==
  /\ del["reaper"] = "checkpoint"
  /\ \/ wal' = FALSE /\ UNCHANGED faults
     \/ Fault /\ UNCHANGED wal
  /\ del' = [del EXCEPT !["reaper"] = "idle"]
  /\ UNCHANGED <<clock, row, cred, files, up, q, history>>

-----------------------------------------------------------------------------
(* Requests.                                                               *)

Step(r, pc)  == q' = [q EXCEPT ![r] = [@ EXCEPT !.pc = pc]]
End(r)       == q' = [q EXCEPT ![r] = Idle]
ByNonce(r)   == q[r].auth # Bearer
Reachable    == row # NoRow /\ Live(row, now)

(* What a client may present: the link's key or a password's with a nonce  *)
(* it was offered, or, to the download, the token.                         *)
Authenticators(kind) ==
  CASE kind = "exists" -> {Bearer}
    [] kind = "password" -> [key : Passwords, nonce : {0}]
    [] kind = "download" -> [key : Keys, nonce : offered]
                              \cup IF issued THEN {Bearer} ELSE {}
    [] OTHER -> [key : Keys, nonce : offered]

Begin(r, kind, auth) ==
  /\ q[r].pc = "idle" /\ up.pc # "new" /\ auth \in Authenticators(kind)
  /\ kind = "download" => sent <= MaxSent
  /\ q' = [q EXCEPT ![r] =
       [Idle EXCEPT !.pc = IF kind \in {"download", "password"} THEN "get" ELSE "compat",
                    !.kind = kind, !.auth = auth,
                    !.stale = auth.nonce \in spent,
                    !.late = pwset]]
  /\ UNCHANGED <<clock, tables, files, up, del, history, faults>>

(* The authenticator the row expects.                                      *)
Expected == [key |-> cred.key, nonce |-> cred.nonce]

(* The compatibility row is read and the authenticator compared with what  *)
(* it gives; a mismatch is told the nonce to sign.                         *)
ReadCompat(r) ==
  /\ q[r].pc = "compat"
  /\ \/ cred = NoCred /\ End(r) /\ UNCHANGED offered
     \/ /\ cred # NoCred /\ q[r].kind = "exists"
        /\ q' = [q EXCEPT ![r] = [@ EXCEPT !.pc = "get", !.nonce = cred.nonce]]
        /\ UNCHANGED offered
     \/ /\ cred # NoCred /\ q[r].kind # "exists"
        /\ q[r].auth = Expected
        /\ Step(r, "rotate") /\ UNCHANGED offered
     \/ /\ cred # NoCred /\ q[r].kind # "exists"
        /\ q[r].auth # Expected
        /\ End(r) /\ offered' = offered \cup {cred.nonce}
  /\ UNCHANGED <<clock, tables, files, up, del, issued, spent, pwset, sent, left, faults>>

(* The statement that replaces the nonce names the upload, and not the     *)
(* nonce that was read.                                                    *)
Fresh  == cred.nonce + 1
Rotate == cred' = [cred EXCEPT !.nonce = Fresh]

Authenticated(r) ==
  q' = [q EXCEPT ![r] = [@ EXCEPT !.pc = IF q[r].kind = "download" THEN "open" ELSE "get",
                                  !.authed = TRUE]]

(* Variant: the request is served although the nonce could not be replaced. *)
RotateCompatNonceLoosely(r) ==
  /\ q[r].pc = "rotate"
  /\ \/ cred = NoCred /\ End(r) /\ UNCHANGED <<cred, offered, spent, faults>>
     \/ /\ cred # NoCred /\ Fresh <= MaxNonce
        /\ Rotate
        /\ offered' = offered \cup {Fresh}
        /\ spent' = spent \cup {q[r].auth.nonce}
        /\ Authenticated(r) /\ UNCHANGED faults
     \/ /\ Fault /\ Authenticated(r) /\ spent' = spent \cup {q[r].auth.nonce}
        /\ UNCHANGED <<cred, offered>>
  /\ UNCHANGED <<clock, row, wal, files, up, del, issued, pwset, sent, left>>

(* Variant: the record that was read is written back whole.                *)
RotateCompatNonceWhole(r) ==
  /\ q[r].pc = "rotate"
  /\ \/ cred = NoCred /\ End(r) /\ UNCHANGED <<cred, offered, spent, faults>>
     \/ /\ cred # NoCred /\ Fresh <= MaxNonce
        /\ cred' = [cred EXCEPT !.nonce = Fresh, !.key = q[r].auth.key]
        /\ offered' = offered \cup {Fresh}
        /\ spent' = spent \cup {q[r].auth.nonce}
        /\ Authenticated(r) /\ UNCHANGED faults
     \/ Fault /\ End(r) /\ UNCHANGED <<cred, offered, spent>>
  /\ UNCHANGED <<clock, row, wal, files, up, del, issued, pwset, sent, left>>

(* The nonce is replaced before the request is served, whatever it is by   *)
(* now.                                                                    *)
RotateCompatNonce(r) ==
  /\ q[r].pc = "rotate"
  /\ \/ cred = NoCred /\ End(r) /\ UNCHANGED <<cred, offered, spent, faults>>
     \/ /\ cred # NoCred /\ Fresh <= MaxNonce
        /\ Rotate
        /\ offered' = offered \cup {Fresh}
        /\ spent' = spent \cup {q[r].auth.nonce}
        /\ Authenticated(r) /\ UNCHANGED faults
     \/ Fault /\ End(r) /\ UNCHANGED <<cred, offered, spent>>
  /\ UNCHANGED <<clock, row, wal, files, up, del, issued, pwset, sent, left>>

(* metadata.Get: an upload that is not live is not found, except that the  *)
(* answer to an exhausted one differs.                                     *)
Get(r) ==
  /\ q[r].pc = "get"
  /\ LET kind == q[r].kind IN
     \/ ~Reachable /\ End(r) /\ UNCHANGED <<offered, issued>>
     \/ /\ Reachable /\ kind = "exists" /\ End(r)
        /\ offered' = offered \cup {q[r].nonce} /\ UNCHANGED issued
     \/ Reachable /\ kind = "metadata" /\ End(r) /\ UNCHANGED <<offered, issued>>
     \/ Reachable /\ kind = "token" /\ End(r) /\ issued' = TRUE /\ UNCHANGED offered
     \/ Reachable /\ kind = "password" /\ Step(r, "password") /\ UNCHANGED <<offered, issued>>
     \/ Reachable /\ kind = "download"
        /\ Step(r, IF ByNonce(r) THEN "compat" ELSE "open") /\ UNCHANGED <<offered, issued>>
  /\ UNCHANGED <<clock, tables, files, up, del, spent, pwset, sent, left, faults>>

(* The key is replaced and the nonce left alone.                           *)
SetKey(k) == cred' = [cred EXCEPT !.key = k, !.pw = TRUE]

(* The owner's token was compared with the row read before.                *)
SetCompatPassword(r) ==
  /\ q[r].pc = "password"
  /\ \/ /\ cred # NoCred /\ SetKey(q[r].auth.key)
        /\ pwset' = TRUE /\ UNCHANGED faults
     \/ cred = NoCred /\ UNCHANGED <<cred, pwset, faults>>
     \/ Fault /\ UNCHANGED <<cred, pwset>>
  /\ End(r)
  /\ UNCHANGED <<clock, row, wal, files, up, del, issued, offered, spent, sent, left>>

OpenContent(r) ==
  /\ q[r].pc = "open"
  /\ IF final = NoFile THEN End(r)
     ELSE q' = [q EXCEPT ![r] = [@ EXCEPT !.pc = "serve", !.len = final]]
  /\ UNCHANGED <<clock, tables, files, up, del, history, faults>>

(* io.Copy to the client, who may leave in the middle or as soon as it has *)
(* everything: its request's context is cancelled then.                    *)
Serve(r, n, gone) ==
  /\ q[r].pc = "serve" /\ n <= q[r].len /\ (n < q[r].len => gone)
  /\ IF n = 0 THEN End(r)
     ELSE q' = [q EXCEPT ![r] = [@ EXCEPT !.pc = "record", !.n = n, !.gone = gone]]
  /\ sent' = sent + n
  /\ UNCHANGED <<clock, tables, files, up, del, issued, offered, spent, pwset, left, faults>>

(* Accounting under the request's own context, which the client may have   *)
(* cancelled; a row that is gone is not an error.                          *)
RecordServed(r) ==
  /\ q[r].pc = "record"
  /\ \/ row' = (IF row = NoRow THEN row ELSE Served(row, q[r].n)) /\ UNCHANGED <<left, faults>>
     \/ q[r].gone /\ left' = TRUE /\ UNCHANGED <<row, faults>>
     \/ Fault /\ UNCHANGED <<row, left>>
  /\ End(r)
  /\ UNCHANGED <<clock, cred, wal, files, up, del, issued, offered, spent, pwset, sent>>

-----------------------------------------------------------------------------
Tick == now < MaxTime /\ now' = now + 1
        /\ UNCHANGED <<tables, files, up, del, q, history, faults, crashes>>

Crash ==
  /\ crashes < MaxCrashes /\ crashes' = crashes + 1
  /\ up' = [up EXCEPT !.pc = "end"]
  /\ del' = [d \in Deleters |-> "idle"]
  /\ q' = [r \in Clients |-> Idle]
  /\ UNCHANGED <<now, tables, files, history, faults>>

Socket ==
  \/ \E t \in TimeLimits, l \in Limits : CreateCompat(t, l)
  \/ SendLink \/ (\E n \in Frames : ReceiveFrame(n)) \/ EndOfFile
  \/ FinishBlob \/ FinishCompat

Request(r) ==
  \/ ReadCompat(r) \/ RotateCompatNonce(r) \/ Get(r) \/ SetCompatPassword(r)
  \/ OpenContent(r) \/ RecordServed(r)
  \/ \E n \in 0 .. MaxSize, gone \in BOOLEAN : Serve(r, n, gone)

Remove(d) == DeleteRow(d) \/ DeleteFinal(d) \/ DeletePartial(d)

Reaper == ReapList \/ Remove("reaper") \/ Checkpoint

Next ==
  \/ Socket \/ Remove("abandon") \/ Reaper
  \/ \E r \in Clients, kind \in Kinds :
        \E auth \in Authenticators(kind) : Begin(r, kind, auth)
  \/ \E r \in Clients : Request(r)
  \/ Tick \/ Crash

Spec == Init /\ [][Next]_vars

(* Time passes, the reaper's ticker fires and a removal that has begun     *)
(* goes on.  Neither a client nor its socket is obliged to do anything.    *)
FairSpec == Spec /\ WF_vars(Tick) /\ WF_vars(Reaper) /\ WF_vars(Remove("abandon"))

-----------------------------------------------------------------------------
(* Properties.                                                             *)

UpPC  == {"new", "link", "receive", "finish", "complete", "end"}
DelPC == {"idle", "row", "final", "partial", "checkpoint"}
ReqPC == {"idle", "compat", "rotate", "get", "password", "open", "serve", "record"}

Cred == [key : Keys, nonce : Nat, pw : BOOLEAN]
Req  == [pc : ReqPC, kind : Kinds \cup {"none"}, auth : [key : Keys \cup {"bearer"}, nonce : Nat],
         nonce : Nat, len : Nat, n : Nat, gone : BOOLEAN,
         stale : BOOLEAN, late : BOOLEAN, authed : BOOLEAN]

(* Every variable keeps its type.                                          *)
TypeOK ==
  /\ now \in Nat \ {0} /\ row \in Row \cup {NoRow} /\ cred \in Cred \cup {NoCred}
  /\ wal \in BOOLEAN /\ partial \in Nat \cup {NoFile} /\ final \in Nat \cup {NoFile}
  /\ up \in [pc : UpPC, off : Nat] /\ del \in [Deleters -> DelPC]
  /\ q \in [Clients -> Req]
  /\ issued \in BOOLEAN /\ pwset \in BOOLEAN /\ left \in BOOLEAN
  /\ offered \subseteq Nat /\ spent \subseteq Nat
  /\ sent \in Nat /\ faults \in Nat /\ crashes \in Nat

(* A complete upload has its whole blob, whose length nobody declared: the *)
(* size recorded is what the frames added up to.                           *)
FinishedWhole == row # NoRow /\ Complete(row) => final = row.size

Undisturbed == faults = 0 /\ crashes = 0

(* Once the row is gone and nobody works on the upload, no file is left:   *)
(* not even when the reaper took the row from under a socket that was      *)
(* still sending and whose next frame made the partial again.              *)
NoLeftovers ==
  /\ row = NoRow /\ up.pc \in {"new", "end"} /\ Undisturbed
  /\ \A d \in Deleters : del[d] \in {"idle", "checkpoint"}
  => partial = NoFile /\ final = NoFile

(* "a captured Authorization header does not work twice": a request that   *)
(* begins after a nonce authenticated another is not let in with it.       *)
AuthenticatorOnce == \A r \in Clients : q[r].authed => ~q[r].stale

(* A request that begins after a password was set is not let in by the key *)
(* of the link, though rotations that read the old row were under way.     *)
PasswordTakesEffect ==
  \A r \in Clients : q[r].authed /\ q[r].late => q[r].auth.key # LinkKey

(* As long as every client stays for its answer, what was sent beyond the  *)
(* limit is bounded by one file for each request that overlaps.            *)
LimitHolds ==
  row # NoRow /\ Complete(row) /\ Undisturbed /\ ~left /\ final # 0 =>
     sent < (row.maxDownloads + Cardinality(Clients)) * final

(* A lifetime that wraps in the multiplication still cannot leave the      *)
(* bounds of the policy.                                                   *)
DeadlineWithinPolicy ==
  row # NoRow =>
     /\ row.expiresAt = NoTime => AllowInfiniteTTL
     /\ MaxTTL > 0 /\ row.expiresAt # NoTime /\ DefaultTTL <= MaxTTL =>
          (row.expiresAt - row.createdAt) * Nanos <= MaxTTL

(* An upload that is not finished does not stay so: its client finishes    *)
(* it, or abandon removes it, or the reaper does, after a crash too.       *)
Unfinished == row # NoRow /\ ~Complete(row)
UnfinishedEnds == Unfinished ~> ~Unfinished

(* What the comments say and the code does not keep.                       *)

(* "Whatever arrived still counts, so the accounting below runs either     *)
(* way."                                                                   *)
ServedCounted ==
  row # NoRow /\ Undisturbed /\ (\A r \in Clients : q[r].pc # "record") =>
     row.bytesServed = sent

(* "An excessive request is rejected rather than silently clamped": an     *)
(* upload is kept for as long as was asked.                                *)
LifetimeHonoured ==
  [][\A t \in TimeLimits, l \in Limits :
        CreateCompat(t, l) /\ t > 0 /\ row' # NoRow => row'.expiresAt = now + t]_vars

-----------------------------------------------------------------------------
(* The inductive invariants.                                               *)

(* The key of a password is all that a request may put in the row.         *)
PasswordRequests == \A r \in Clients :
  /\ q[r].pc = "password" => q[r].kind = "password"
  /\ q[r].kind = "password" => q[r].auth.key \in Passwords

TypeInv == TypeOK /\ PasswordRequests

(* Before the header arrived there is nothing.                             *)
Unopened == up.pc = "new" =>
  /\ row = NoRow /\ cred = NoCred /\ partial = NoFile /\ final = NoFile
  /\ spent = {} /\ ~pwset
  /\ \A r \in Clients : q[r] = Idle
  /\ \A d \in Deleters : del[d] = "idle"

(* Behind AuthenticatorOnce and PasswordTakesEffect: a nonce that let a    *)
(* request in is behind the row's, and the row's key stays a password's.   *)
SpentPast == cred # NoCred => \A n \in spent : n < cred.nonce

PasswordKept == pwset /\ cred # NoCred => cred.key \in Passwords

(* What was compared with the row is at most as new as the row.            *)
Compared(r) == q[r].pc = "rotate" =>
  /\ ~q[r].stale
  /\ q[r].late => q[r].auth.key # LinkKey
  /\ cred # NoCred => q[r].auth.nonce <= cred.nonce

RequestOK(r) ==
  /\ q[r].stale => q[r].auth.nonce \in spent
  /\ q[r].late => pwset
  /\ Compared(r)
  /\ q[r].authed => ~q[r].stale /\ (q[r].late => q[r].auth.key # LinkKey)

RequestInv == \A r \in Clients : RequestOK(r)

NonceInv == TypeInv /\ Unopened /\ SpentPast /\ PasswordKept /\ RequestInv

(* Behind FinishedWhole and NoLeftovers: while there is a row only the     *)
(* socket touches the files, and it touches them before it completes.      *)
InProgress == up.pc \in {"link", "receive", "finish", "complete"}

SocketOK ==
  /\ up.pc \in {"new", "link"} => up.off = 0 /\ partial = NoFile
  /\ up.pc \in {"receive", "finish"} /\ row # NoRow =>
       partial = up.off \/ (partial = NoFile /\ up.off = 0)
  /\ up.pc = "complete" /\ row # NoRow => final = up.off
  /\ InProgress /\ row # NoRow => ~Complete(row)

RowFirst == \A d \in Deleters : del[d] \in {"final", "partial"} => row = NoRow

(* Whoever took the row has yet to get to the files that are left.         *)
StillRemoving == row = NoRow /\ up.pc = "end" /\ Undisturbed =>
  /\ final # NoFile => \E d \in Deleters : del[d] \in {"row", "final"}
  /\ partial # NoFile => \E d \in Deleters : del[d] \in {"row", "final", "partial"}

FileInv ==
  /\ TypeInv /\ Unopened /\ SocketOK /\ RowFirst /\ FinishedWhole /\ StillRemoving

(* Behind LimitHolds.  A download is admitted by Get and holds its place   *)
(* until it is recorded.                                                   *)
Admitted(r) ==
  q[r].kind = "download" /\ q[r].pc \in {"compat", "rotate", "open", "serve", "record"}

ServedTerms ==
  /\ up.pc = "new" => sent = 0
  /\ row # NoRow /\ ~Complete(row) =>
       /\ sent = 0 /\ row.bytesServed = 0 /\ row.downloadCount = 0
       /\ \A r \in Clients : ~Admitted(r)
  /\ row # NoRow => row.maxDownloads >= 1
  /\ row # NoRow /\ Complete(row) /\ row.size > 0 => row.downloadCount = row.bytesServed \div row.size
  /\ \A r \in Clients :
       /\ q[r].pc \in {"open", "serve", "record"} => q[r].kind = "download"
       /\ q[r].pc = "serve" /\ row # NoRow => q[r].len = row.size
       /\ q[r].pc = "record" /\ row # NoRow => q[r].n <= row.size

(* What each request was sent and has not recorded, and what it may yet    *)
(* add to what is recorded.                                                *)
Unrecorded == [r \in Clients |-> IF q[r].pc = "record" THEN q[r].n ELSE 0]
Reserved   == [r \in Clients |-> IF Admitted(r) THEN row.size ELSE 0]

(* Over the requests f adds up to x: P holds the sums over the first ones  *)
(* in some order.                                                          *)
Number == Cardinality(Clients)
Order  == CHOOSE e \in [1 .. Number -> Clients] :
            \A r \in Clients : \E i \in 1 .. Number : e[i] = r /\ \A j \in 1 .. Number : e[j] = r => j = i

Total(f, x) == \E P \in [0 .. Number -> Int] :
  P[0] = 0 /\ P[Number] = x /\ \A i \in 1 .. Number : P[i] = P[i - 1] + f[Order[i]]

(* What was recorded and what is reserved stay below the limit.            *)
Room(f, served, max, size) ==
  \E x \in Int : Total(f, x) /\ served + x < (max + Number) * size

Account == row # NoRow /\ Complete(row) /\ Undisturbed /\ ~left =>
  /\ Total(Unrecorded, sent - row.bytesServed)
  /\ row.size > 0 => Room(Reserved, row.bytesServed, row.maxDownloads, row.size)

LimitInv == FileInv /\ ServedTerms /\ Account
=============================================================================
