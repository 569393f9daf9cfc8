----------------------------- MODULE UploadRow -----------------------------
(***************************************************************************)
(* The row of the uploads table (internal/store) as a value: when it is    *)
(* reachable, when the reaper may remove it, what accounting does to it,   *)
(* and how the retention policy (internal/upload/upload.go) turns a        *)
(* request into one.                                                       *)
(*                                                                         *)
(* Times are natural numbers.  NoTime stands for the zero time.Time, which *)
(* is NULL in the database: "never expires" in expiresAt, "still being     *)
(* written" in completedAt.  The ciphertext columns, the token hashes and  *)
(* the at-rest key are left out: nothing here depends on their value.      *)
(***************************************************************************)
EXTENDS Integers

CONSTANTS
  DefaultTTL,          \* policy: lifetime when none is requested, 0 = none
  MaxTTL,              \* policy: longest lifetime granted, 0 = unbounded
  AllowInfiniteTTL,    \* policy: may an upload never expire
  RequireLimit,        \* policy: refuse an upload with neither bound
  DefaultMaxDownloads, \* policy: download limit when none is requested
  IncompleteTTL        \* how long an upload may stay unfinished

ASSUME PolicyAssumption ==
  /\ DefaultTTL \in Nat /\ MaxTTL \in Nat
  /\ AllowInfiniteTTL \in BOOLEAN /\ RequireLimit \in BOOLEAN
  /\ DefaultMaxDownloads \in Nat
  /\ IncompleteTTL \in Nat \ {0}

NoTime == 0

Row == [size : Nat, createdAt : Nat \ {0}, expiresAt : Nat,
        maxDownloads : Nat, downloadCount : Nat, bytesServed : Nat,
        completedAt : Nat]

-----------------------------------------------------------------------------
(* Liveness, evaluated on every read.                                      *)

Expired(u, now) == u.expiresAt # NoTime /\ now >= u.expiresAt

Exhausted(u) == u.maxDownloads > 0 /\ u.downloadCount >= u.maxDownloads

Complete(u) == u.completedAt # NoTime

(* Variant: the allowance is left to the reaper.                           *)
LiveUncounted(u, now) == Complete(u) /\ ~Expired(u, now)

Live(u, now) == Complete(u) /\ ~Expired(u, now) /\ ~Exhausted(u)

(* Variant: an unfinished upload is dead whatever its age.                 *)
DeadUnfinished(u, now, abandoned) ==
  \/ Complete(u) /\ u.expiresAt # NoTime /\ u.expiresAt <= now
  \/ Complete(u) /\ u.maxDownloads > 0 /\ u.downloadCount >= u.maxDownloads
  \/ ~Complete(u)

(* Variant: an unfinished upload is left to whoever is writing it.         *)
DeadFinished(u, now, abandoned) ==
  /\ Complete(u)
  /\ (u.expiresAt # NoTime /\ u.expiresAt <= now) \/ Exhausted(u)

(* The reaper's WHERE clause.  An unfinished upload is not judged by its   *)
(* own deadline but by its age.                                            *)
Dead(u, now, abandoned) ==
  \/ Complete(u) /\ u.expiresAt # NoTime /\ u.expiresAt <= now
  \/ Complete(u) /\ u.maxDownloads > 0 /\ u.downloadCount >= u.maxDownloads
  \/ ~Complete(u) /\ u.createdAt <= abandoned

Abandoned(now) == now - IncompleteTTL

(* One UPDATE statement: both right-hand sides read the old row.           *)
Served(u, n) ==
  [u EXCEPT !.bytesServed = u.bytesServed + n,
            !.downloadCount = IF u.size > 0
                              THEN (u.bytesServed + n) \div u.size
                              ELSE u.downloadCount]

-----------------------------------------------------------------------------
(* Retention policy.  A requested lifetime is a natural number of seconds, *)
(* 0 when the client asked for none, or negative for "never".              *)

(* Variant: the longest lifetime is not enforced.                          *)
ExpiryUncapped(requested) ==
  \/ requested < 0 /\ ~AllowInfiniteTTL
  \/ requested = 0 /\ DefaultTTL = 0 /\ ~AllowInfiniteTTL

ExpiryRefused(requested) ==
  \/ requested < 0 /\ ~AllowInfiniteTTL
  \/ requested = 0 /\ DefaultTTL = 0 /\ ~AllowInfiniteTTL
  \/ requested > 0 /\ MaxTTL > 0 /\ requested > MaxTTL

ResolveExpiry(requested, now) ==
  IF requested < 0 \/ (requested = 0 /\ DefaultTTL = 0) THEN NoTime
  ELSE now + (IF requested = 0 THEN DefaultTTL ELSE requested)

EnsureBounded(expires, max) == RequireLimit => (expires # NoTime \/ max > 0)

(* What newRow builds; maxDownloads absent selects the policy's default.   *)
Absent == -1

NewRow(size, ttl, max, now) ==
  [size |-> size, createdAt |-> now, expiresAt |-> ResolveExpiry(ttl, now),
   maxDownloads |-> IF max = Absent THEN DefaultMaxDownloads ELSE max,
   downloadCount |-> 0, bytesServed |-> 0, completedAt |-> NoTime]

Accepted(size, ttl, max, now) ==
  /\ ~ExpiryRefused(ttl)
  /\ EnsureBounded(NewRow(size, ttl, max, now).expiresAt,
                   NewRow(size, ttl, max, now).maxDownloads)
=============================================================================
