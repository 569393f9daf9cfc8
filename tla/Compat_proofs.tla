---------------------------- MODULE Compat_proofs ----------------------------
(***************************************************************************)
(* The compatibility endpoints: an authenticator lets one request in and   *)
(* the requests that overlap it, a password takes effect, a finished       *)
(* upload is whole, an abandoned one leaves no file, a deadline is within  *)
(* the policy, and the download limit is overshot by no more than the      *)
(* requests that overlap.                                                  *)
(***************************************************************************)
EXTENDS Compat, FiniteSetTheorems, WellFoundedInduction, TLAPS

-----------------------------------------------------------------------------
(* Types.                                                                  *)

LEMMA DurationType ==
  ASSUME NEW t \in Int
  PROVE  Duration(t) \in Int
  <1>1. Nanos \in Nat /\ 2^Width \in Nat \ {0} /\ 2^(Width - 1) \in Nat
    BY CompatAssumption, PowerAssumption DEF CompatAssumption, PowerAssumption
  <1>2. ASSUME NEW a \in Int, NEW m \in Nat \ {0}, NEW h \in Nat PROVE ((a + h) % m) - h \in Int
    OBVIOUS
  <1>3. t * Nanos \in Int
    BY <1>1
  <1> QED BY <1>1, <1>2, <1>3 DEF Duration

(* The policy's deadline and the seconds the table keeps of it.            *)
LEMMA DeadlineFacts ==
  ASSUME TypeOK, NEW d \in Int, ~ExpiryRefused(d)
  PROVE  /\ Deadline(d) \in Nat
         /\ Deadline(d) = NoTime => AllowInfiniteTTL
         /\ MaxTTL > 0 /\ Deadline(d) # NoTime /\ DefaultTTL <= MaxTTL =>
              (Deadline(d) - now) * Nanos <= MaxTTL
  <1>0. now \in Nat \ {0} /\ Nanos \in Nat \ {0} /\ DefaultTTL \in Nat /\ MaxTTL \in Nat
    BY CompatAssumption, PolicyAssumption DEF CompatAssumption, PolicyAssumption, TypeOK
  <1> DEFINE never == d < 0 \/ (d = 0 /\ DefaultTTL = 0)
             ttl   == IF d = 0 THEN DefaultTTL ELSE d
  <1>1. CASE never
    <2>1. Deadline(d) = NoTime
      BY <1>1 DEF Deadline, ResolveExpiry
    <2>2. AllowInfiniteTTL
      BY <1>1, PolicyAssumption DEF ExpiryRefused, PolicyAssumption
    <2> QED BY <2>1, <2>2 DEF NoTime
  <1>2. CASE ~never
    <2>1. ttl \in Nat \ {0} /\ (MaxTTL > 0 /\ DefaultTTL <= MaxTTL => ttl <= MaxTTL)
      BY <1>0, <1>2 DEF ExpiryRefused
    <2>2. now * Nanos \in Nat /\ now * Nanos >= Nanos
      <3>1. \A a, b \in Nat \ {0} : a * b \in Nat /\ a * b >= b
        OBVIOUS
      <3> QED BY <1>0, <3>1
    <2> DEFINE e == now * Nanos + ttl
    <2>3. ResolveExpiry(d, now * Nanos) = e /\ e \in Nat \ {0} /\ e >= Nanos
      BY <1>0, <1>2, <2>1, <2>2 DEF ResolveExpiry
    <2>4. Deadline(d) = e \div Nanos
      BY <2>3 DEF Deadline, NoTime
    <2> HIDE DEF e, ttl, never
    <2>5. e \div Nanos \in Nat /\ e \div Nanos # 0 /\ (e \div Nanos) * Nanos <= e
      <3>1. \A a \in Nat, b \in Nat \ {0} :
              a >= b => a \div b \in Nat /\ a \div b # 0 /\ (a \div b) * b <= a
        OBVIOUS
      <3> QED BY <1>0, <2>3, <3>1
    <2>6. (Deadline(d) - now) * Nanos <= ttl
      <3>1. \A k, t, m \in Int : (k - t) * m = k * m - t * m /\ k * m \in Int /\ t * m \in Int
        OBVIOUS
      <3>2. (Deadline(d) - now) * Nanos = Deadline(d) * Nanos - now * Nanos
            /\ Deadline(d) * Nanos \in Int
        BY <1>0, <2>4, <2>5, <3>1
      <3> QED BY <2>1, <2>2, <2>4, <2>5, <3>2 DEF e
    <2>7. (Deadline(d) - now) * Nanos \in Int
      <3>1. \A k, t, m \in Int : (k - t) * m \in Int
        OBVIOUS
      <3> QED BY <1>0, <2>4, <2>5, <3>1
    <2> QED BY <1>0, <2>1, <2>4, <2>5, <2>6, <2>7 DEF NoTime
  <1> QED BY <1>1, <1>2

LEMMA ServedRow ==
  ASSUME NEW u \in Row, NEW n \in Nat
  PROVE  /\ Served(u, n) \in Row /\ Served(u, n).size = u.size
         /\ Served(u, n).completedAt = u.completedAt /\ Served(u, n).createdAt = u.createdAt
         /\ Served(u, n).expiresAt = u.expiresAt
  <1>1. u.bytesServed + n \in Nat /\ (u.size > 0 => (u.bytesServed + n) \div u.size \in Nat)
    <2>1. \A a \in Nat, b \in Nat \ {0} : a \div b \in Nat
      OBVIOUS
    <2> QED BY <2>1 DEF Row
  <1>2. (IF u.size > 0 THEN (u.bytesServed + n) \div u.size ELSE u.downloadCount) \in Nat
    BY <1>1 DEF Row
  <1> QED BY <1>1, <1>2 DEF Row, Served

LEMMA InitType == Init => TypeOK
  <1> SUFFICES ASSUME Init PROVE TypeOK
    OBVIOUS
  <1>1. Idle \in Req
    BY DEF Idle, Bearer, Req, ReqPC
  <1>2. wal \in BOOLEAN /\ issued \in BOOLEAN /\ pwset \in BOOLEAN /\ left \in BOOLEAN
    BY DEF Init
  <1>3. /\ now \in Nat \ {0} /\ up \in [pc : UpPC, off : Nat] /\ del \in [Deleters -> DelPC]
        /\ sent \in Nat /\ faults \in Nat /\ crashes \in Nat
    BY DEF Init, UpPC, DelPC
  <1> QED BY <1>1, <1>2, <1>3 DEF Init, TypeOK

(* A request in a new state.                                               *)
LEMMA ReqType ==
  ASSUME q \in [Clients -> Req], NEW r \in Clients
  PROVE  /\ Idle \in Req
         /\ End(r) => q' \in [Clients -> Req] /\ q'[r] = Idle
         /\ \A pc \in ReqPC : Step(r, pc) => q' \in [Clients -> Req] /\ q'[r] = [q[r] EXCEPT !.pc = pc]
  <1>1. Idle \in Req
    BY DEF Idle, Bearer, Req, ReqPC
  <1>2. ASSUME NEW pc \in ReqPC PROVE [q[r] EXCEPT !.pc = pc] \in Req
    BY <1>2 DEF Req
  <1> QED BY <1>1, <1>2 DEF End, Step

LEMMA SocketType ==
  ASSUME TypeOK, Socket
  PROVE  TypeOK'
  <1>1. ASSUME NEW t \in TimeLimits, NEW l \in Limits, CreateCompat(t, l) PROVE TypeOK'
    <2>1. UNCHANGED <<now, wal, partial, final, del, q, issued, offered, spent, pwset, sent, left, crashes>>
      BY <1>1 DEF CreateCompat, clock, files, history
    <2>2. faults' \in Nat /\ up' \in [pc : UpPC, off : Nat]
      BY <1>1 DEF CreateCompat, Fault, TypeOK, UpPC
    <2>3. ASSUME ~ExpiryRefused(Duration(t)), Insert(Duration(t), downloadLimit(l))
          PROVE  row' \in Row /\ cred' \in Cred
      <3>1. t \in Int /\ l \in Int
        BY CompatAssumption DEF CompatAssumption
      <3>2. Duration(t) \in Int /\ downloadLimit(l) \in Nat \ {0}
        BY <3>1, DurationType DEF downloadLimit
      <3>3. Deadline(Duration(t)) \in Nat
        BY <2>3, <3>2, DeadlineFacts
      <3>4. row' = [size |-> 0, createdAt |-> now, expiresAt |-> Deadline(Duration(t)),
                    maxDownloads |-> downloadLimit(l), downloadCount |-> 0, bytesServed |-> 0,
                    completedAt |-> NoTime]
        BY <2>3, <3>2 DEF Insert, NewRow, Absent
      <3>5. row' \in Row
        BY <3>2, <3>3, <3>4 DEF Row, NoTime, TypeOK
      <3> QED BY <2>3, <3>5 DEF Insert, Cred, Keys
    <2>4. row' \in Row \cup {NoRow} /\ cred' \in Cred \cup {NoCred}
      BY <1>1, <2>3 DEF CreateCompat, TypeOK
    <2> QED BY <2>1, <2>2, <2>4 DEF TypeOK
  <1>2. CASE SendLink
    BY <1>2 DEF SendLink, GiveUp, TypeOK, clock, tables, files, history, UpPC, DelPC
  <1>3. ASSUME NEW n \in Frames, ReceiveFrame(n) PROVE TypeOK'
    <2>1. n \in Nat
      BY CompatAssumption DEF CompatAssumption
    <2>2. partial' \in Nat /\ up' \in [pc : UpPC, off : Nat] /\ faults' \in Nat
      BY <1>3, <2>1 DEF ReceiveFrame, GiveUp, Fault, TypeOK, UpPC
    <2>3. del' \in [Deleters -> DelPC]
      BY <1>3 DEF ReceiveFrame, GiveUp, TypeOK, DelPC
    <2> QED BY <1>3, <2>2, <2>3 DEF ReceiveFrame, TypeOK, clock, tables, history
  <1>4. CASE EndOfFile
    BY <1>4 DEF EndOfFile, GiveUp, TypeOK, clock, tables, files, history, UpPC, DelPC
  <1>5. CASE FinishBlob
    BY <1>5 DEF FinishBlob, GiveUp, Fault, TypeOK, clock, tables, files, history, UpPC, DelPC
  <1>6. CASE FinishCompat
    <2>1. row' \in Row \cup {NoRow}
      BY <1>6 DEF FinishCompat, TypeOK, Row
    <2> QED BY <1>6, <2>1 DEF FinishCompat, GiveUp, Fault, TypeOK, clock, files, history, UpPC, DelPC
  <1> QED BY <1>1, <1>2, <1>3, <1>4, <1>5, <1>6 DEF Socket

LEMMA DeleterType ==
  ASSUME TypeOK, Remove("abandon") \/ Reaper
  PROVE  TypeOK'
  <1>0. wal' \in BOOLEAN
    BY Zenon DEF Reaper, ReapList, Checkpoint, Remove, DeleteRow, DeleteFinal, DeletePartial, tables,
       TypeOK
  <1>1. ASSUME NEW d \in Deleters, Remove(d) PROVE TypeOK'
    <2>1. del' \in [Deleters -> DelPC] /\ faults' \in Nat
      BY <1>1 DEF Remove, DeleteRow, DeleteFinal, DeletePartial, Fault, TypeOK, DelPC
    <2>2. /\ row' \in {row, NoRow} /\ cred' \in {cred, NoCred}
          /\ final' \in {final, NoFile} /\ partial' \in {partial, NoFile}
          /\ UNCHANGED <<clock, up, q, history>>
      BY <1>1 DEF Remove, DeleteRow, DeleteFinal, DeletePartial, tables, files
    <2> QED BY <1>0, <2>1, <2>2 DEF TypeOK, clock, history
  <1>2. CASE ReapList \/ Checkpoint
    <2>1. del' \in [Deleters -> DelPC] /\ faults' \in Nat
      BY <1>2 DEF ReapList, Checkpoint, Fault, TypeOK, DelPC
    <2>2. UNCHANGED <<clock, row, cred, files, up, q, history>>
      BY <1>2 DEF ReapList, Checkpoint, tables
    <2> QED BY <1>0, <2>1, <2>2 DEF TypeOK, clock, files, history
  <1> QED BY <1>1, <1>2 DEF Reaper, Deleters

LEMMA BeginType ==
  ASSUME TypeOK, NEW r \in Clients, NEW kind \in Kinds, NEW auth \in Authenticators(kind),
         Begin(r, kind, auth)
  PROVE  /\ TypeOK'
         /\ q'[r].pc \in {"get", "compat"} /\ q'[r].kind = kind /\ q'[r].auth = auth
         /\ q'[r].stale = (auth.nonce \in spent) /\ q'[r].late = pwset /\ q'[r].authed = FALSE
  <1>1. auth \in [key : Keys \cup {"bearer"}, nonce : Nat]
    BY DEF Authenticators, Kinds, Keys, Bearer, TypeOK
  <1>2. q'[r] = [pc |-> IF kind \in {"download", "password"} THEN "get" ELSE "compat",
                 kind |-> kind, auth |-> auth, nonce |-> 0, len |-> 0, n |-> 0, gone |-> FALSE,
                 stale |-> auth.nonce \in spent, late |-> pwset, authed |-> FALSE]
    BY DEF Begin, TypeOK, Idle
  <1>3. q'[r] \in Req
    BY <1>1, <1>2 DEF Req, ReqPC, TypeOK
  <1>4. q' \in [Clients -> Req]
    BY <1>3 DEF Begin, TypeOK
  <1>5. /\ q'[r].pc \in {"get", "compat"} /\ q'[r].kind = kind /\ q'[r].auth = auth
        /\ q'[r].stale = (auth.nonce \in spent) /\ q'[r].late = pwset /\ q'[r].authed = FALSE
    BY <1>2
  <1>6. TypeOK'
    BY <1>4 DEF Begin, TypeOK, clock, tables, files, history
  <1> QED BY <1>5, <1>6

LEMMA RequestType ==
  ASSUME TypeInv, NEW r \in Clients, Request(r)
  PROVE  TypeOK'
  <1>0. q \in [Clients -> Req] /\ q[r] \in Req /\ TypeOK /\ PasswordRequests
    BY DEF TypeOK, TypeInv
  <1>1. End(r) => q' \in [Clients -> Req]
    BY <1>0, ReqType
  <1>2. ASSUME NEW pc \in ReqPC, Step(r, pc) PROVE q' \in [Clients -> Req]
    BY <1>0, <1>2, ReqType
  <1>3. CASE ReadCompat(r)
    <2>1. cred # NoCred => cred.nonce \in Nat
      BY <1>0 DEF TypeOK, Cred
    <2>2. ASSUME q' = [q EXCEPT ![r] = [q[r] EXCEPT !.pc = "get", !.nonce = cred.nonce]], cred # NoCred
          PROVE  q' \in [Clients -> Req]
      <3>1. [q[r] EXCEPT !.pc = "get", !.nonce = cred.nonce] \in Req
        BY <1>0, <2>1, <2>2 DEF Req, ReqPC
      <3> QED BY <1>0, <2>2, <3>1
    <2>3. q' \in [Clients -> Req] /\ offered' \subseteq Nat
      BY <1>0, <1>1, <1>2, <1>3, <2>1, <2>2 DEF ReadCompat, ReqPC, TypeOK
    <2> QED BY <1>0, <1>3, <2>3 DEF ReadCompat, TypeOK, clock, tables, files
  <1>4. CASE RotateCompatNonce(r)
    <2>1. ASSUME Authenticated(r) PROVE q' \in [Clients -> Req]
      <3>1. [q[r] EXCEPT !.pc = IF q[r].kind = "download" THEN "open" ELSE "get", !.authed = TRUE] \in Req
        BY <1>0 DEF Req, ReqPC
      <3> QED BY <1>0, <2>1, <3>1 DEF Authenticated
    <2>2. q' \in [Clients -> Req]
      BY <1>1, <1>4, <2>1 DEF RotateCompatNonce
    <2>3. q[r].auth.nonce \in Nat
      BY <1>0 DEF Req
    <2>4. ASSUME cred # NoCred, Rotate PROVE cred' \in Cred /\ Fresh \in Nat
      BY <1>0, <2>4 DEF Rotate, Fresh, TypeOK, Cred
    <2>5. faults' \in Nat
      BY <1>0, <1>4 DEF RotateCompatNonce, Fault, TypeOK
    <2>6. cred' \in Cred \cup {NoCred} /\ offered' \subseteq Nat /\ spent' \subseteq Nat
      <3>1. CASE UNCHANGED <<cred, offered, spent>>
        BY <1>0, <3>1 DEF TypeOK
      <3>2. CASE /\ cred # NoCred /\ Rotate /\ offered' = offered \cup {Fresh}
                 /\ spent' = spent \cup {q[r].auth.nonce}
        BY <1>0, <2>3, <2>4, <3>2 DEF TypeOK
      <3> QED BY <1>4, <3>1, <3>2 DEF RotateCompatNonce
    <2> QED BY <1>0, <1>4, <2>2, <2>5, <2>6 DEF RotateCompatNonce, TypeOK, clock, files
  <1>5. CASE Get(r)
    <2>1. q' \in [Clients -> Req]
      BY <1>1, <1>2, <1>5 DEF Get, ReqPC
    <2>2. q[r].nonce \in Nat
      BY <1>0 DEF Req
    <2> QED BY <1>0, <1>5, <2>1, <2>2 DEF Get, TypeOK, clock, tables, files
  <1>6. CASE SetCompatPassword(r)
    <2>1. q[r].auth.key \in Keys
      BY <1>0, <1>6 DEF SetCompatPassword, PasswordRequests, Keys
    <2>2. ASSUME cred # NoCred, SetKey(q[r].auth.key) PROVE cred' \in Cred
      BY <1>0, <2>1, <2>2 DEF SetKey, TypeOK, Cred
    <2>3. cred' \in Cred \cup {NoCred}
      BY <1>0, <1>6, <2>2 DEF SetCompatPassword, TypeOK
    <2>4. pwset' \in BOOLEAN
      BY <1>0, <1>6, Zenon DEF SetCompatPassword, TypeOK
    <2>5. q' \in [Clients -> Req] /\ faults' \in Nat
      BY <1>0, <1>1, <1>6 DEF SetCompatPassword, Fault, TypeOK
    <2> QED BY <1>0, <1>6, <2>3, <2>4, <2>5 DEF SetCompatPassword, TypeOK, clock, files
  <1>7. CASE OpenContent(r)
    <2>1. ASSUME final # NoFile, q' = [q EXCEPT ![r] = [q[r] EXCEPT !.pc = "serve", !.len = final]]
          PROVE  q' \in [Clients -> Req]
      <3>1. [q[r] EXCEPT !.pc = "serve", !.len = final] \in Req
        BY <1>0, <2>1 DEF Req, ReqPC, TypeOK
      <3> QED BY <1>0, <2>1, <3>1
    <2>2. q' \in [Clients -> Req]
      BY <1>1, <1>7, <2>1 DEF OpenContent
    <2> QED BY <1>0, <1>7, <2>2 DEF OpenContent, TypeOK, clock, tables, files, history
  <1>8. ASSUME NEW n \in 0 .. MaxSize, NEW gone \in BOOLEAN, Serve(r, n, gone) PROVE TypeOK'
    <2>1. n \in Nat
      OBVIOUS
    <2>2. [q[r] EXCEPT !.pc = "record", !.n = n, !.gone = gone] \in Req
      BY <1>0, <2>1 DEF Req, ReqPC
    <2>3. q' \in [Clients -> Req]
      BY <1>0, <1>1, <1>8, <2>2 DEF Serve
    <2> QED BY <1>0, <1>8, <2>1, <2>3 DEF Serve, TypeOK, clock, tables, files
  <1>9. CASE RecordServed(r)
    <2>1. row # NoRow => Served(row, q[r].n) \in Row
      BY <1>0, ServedRow DEF TypeOK, Req
    <2>2. left' \in BOOLEAN
      BY <1>0, <1>9, Zenon DEF RecordServed, TypeOK
    <2>3. row' \in Row \cup {NoRow}
      BY <1>0, <1>9, <2>1 DEF RecordServed, TypeOK
    <2>4. q' \in [Clients -> Req] /\ faults' \in Nat
      BY <1>0, <1>1, <1>9 DEF RecordServed, Fault, TypeOK
    <2> QED BY <1>0, <1>9, <2>2, <2>3, <2>4 DEF RecordServed, TypeOK, clock, files
  <1> QED BY <1>3, <1>4, <1>5, <1>6, <1>7, <1>8, <1>9 DEF Request

(* What a step of a request does to the request.                           *)
LEMMA RequestMoves ==
  ASSUME TypeOK, NEW r \in Clients, Request(r)
  PROVE  \/ q'[r] = Idle
         \/ /\ q'[r].kind = q[r].kind /\ q'[r].auth = q[r].auth /\ q'[r].stale = q[r].stale
            /\ q'[r].late = q[r].late
            /\ q'[r].pc = "password" => q[r].kind = "password"
            /\ q'[r].pc = "rotate" => ReadCompat(r) /\ cred # NoCred /\ q[r].auth = Expected
            /\ q'[r].authed = q[r].authed \/ (RotateCompatNonce(r) /\ q'[r].authed = TRUE)
  <1>0. q \in [Clients -> Req] /\ q[r] \in Req
    BY DEF TypeOK
  <1> DEFINE same == /\ q'[r].kind = q[r].kind /\ q'[r].auth = q[r].auth /\ q'[r].stale = q[r].stale
                     /\ q'[r].late = q[r].late
  <1>1. End(r) => q'[r] = Idle
    BY <1>0 DEF End
  <1>2. ASSUME NEW pc \in ReqPC, Step(r, pc)
        PROVE  same /\ q'[r].pc = pc /\ q'[r].authed = q[r].authed
    <2>1. q'[r] = [q[r] EXCEPT !.pc = pc]
      BY <1>0, <1>2 DEF Step
    <2> QED BY <1>0, <2>1 DEF Req
  <1>3. CASE ReadCompat(r)
    <2>1. ASSUME q' = [q EXCEPT ![r] = [q[r] EXCEPT !.pc = "get", !.nonce = cred.nonce]]
          PROVE  same /\ q'[r].pc = "get" /\ q'[r].authed = q[r].authed
      <3>1. q'[r] = [q[r] EXCEPT !.pc = "get", !.nonce = cred.nonce]
        BY <1>0, <2>1
      <3> QED BY <1>0, <3>1 DEF Req
    <2> QED BY <1>1, <1>2, <1>3, <2>1 DEF ReadCompat, ReqPC
  <1>4. CASE RotateCompatNonce(r)
    <2>1. ASSUME Authenticated(r)
          PROVE  same /\ q'[r].pc \in {"open", "get"} /\ q'[r].authed = TRUE
      <3>1. q'[r] = [q[r] EXCEPT !.pc = IF q[r].kind = "download" THEN "open" ELSE "get", !.authed = TRUE]
        BY <1>0, <2>1 DEF Authenticated
      <3> QED BY <1>0, <3>1 DEF Req
    <2> QED BY <1>1, <1>4, <2>1 DEF RotateCompatNonce
  <1>5. CASE Get(r)
    <2>1. q'[r] = Idle \/ (\E pc \in {"compat", "open"} : Step(r, pc)) \/ (Step(r, "password") /\ q[r].kind = "password")
      BY <1>1, <1>5 DEF Get
    <2> QED BY <1>2, <2>1 DEF ReqPC
  <1>6. CASE SetCompatPassword(r) \/ RecordServed(r)
    BY <1>1, <1>6 DEF SetCompatPassword, RecordServed
  <1>7. CASE OpenContent(r)
    <2>1. ASSUME q' = [q EXCEPT ![r] = [q[r] EXCEPT !.pc = "serve", !.len = final]]
          PROVE  same /\ q'[r].pc = "serve" /\ q'[r].authed = q[r].authed
      <3>1. q'[r] = [q[r] EXCEPT !.pc = "serve", !.len = final]
        BY <1>0, <2>1
      <3> QED BY <1>0, <3>1 DEF Req
    <2> QED BY <1>1, <1>7, <2>1 DEF OpenContent
  <1>8. ASSUME NEW n \in 0 .. MaxSize, NEW gone \in BOOLEAN, Serve(r, n, gone), q'[r] # Idle
        PROVE  same /\ q'[r].pc = "record" /\ q'[r].authed = q[r].authed
    <2>1. q'[r] = [q[r] EXCEPT !.pc = "record", !.n = n, !.gone = gone]
      BY <1>0, <1>1, <1>8 DEF Serve
    <2> QED BY <1>0, <2>1 DEF Req
  <1> QED BY <1>3, <1>4, <1>5, <1>6, <1>7, <1>8 DEF Request

LEMMA TypeStep == TypeInv /\ [Next]_vars => TypeInv'
  <1> SUFFICES ASSUME TypeInv, [Next]_vars PROVE TypeInv'
    OBVIOUS
  <1>0. TypeOK /\ PasswordRequests
    BY DEF TypeInv
  <1>1. CASE Socket
    <2>1. UNCHANGED q
      BY <1>1 DEF Socket, CreateCompat, SendLink, ReceiveFrame, EndOfFile, FinishBlob, FinishCompat
    <2> QED BY <1>0, <1>1, <2>1, SocketType DEF TypeInv, PasswordRequests
  <1>2. CASE Remove("abandon") \/ Reaper
    <2>1. UNCHANGED q
      BY <1>2 DEF Reaper, ReapList, Checkpoint, Remove, DeleteRow, DeleteFinal, DeletePartial
    <2> QED BY <1>0, <1>2, <2>1, DeleterType DEF TypeInv, PasswordRequests
  <1>3. ASSUME NEW r \in Clients, NEW kind \in Kinds, NEW auth \in Authenticators(kind),
               Begin(r, kind, auth)
        PROVE  TypeInv'
    <2>1. TypeOK' /\ q'[r].pc \in {"get", "compat"} /\ q'[r].kind = kind /\ q'[r].auth = auth
      BY <1>0, <1>3, BeginType
    <2>2. kind = "password" => auth.key \in Passwords
      BY <1>3 DEF Authenticators
    <2>3. \A s \in Clients \ {r} : q'[s] = q[s]
      BY <1>0, <1>3 DEF Begin, TypeOK
    <2> QED BY <1>0, <2>1, <2>2, <2>3 DEF TypeInv, PasswordRequests
  <1>4. ASSUME NEW r \in Clients, Request(r) PROVE TypeInv'
    <2>1. TypeOK'
      BY <1>4, RequestType
    <2>2. \A s \in Clients \ {r} : q'[s] = q[s]
      BY <1>0, <1>4 DEF Request, ReadCompat, RotateCompatNonce, Get, SetCompatPassword, OpenContent,
         Serve, RecordServed, End, Step, Authenticated, TypeOK
    <2>3. q'[r] = Idle \/ (/\ q'[r].kind = q[r].kind /\ q'[r].auth = q[r].auth
                           /\ q'[r].pc = "password" => q[r].kind = "password")
      BY <1>0, <1>4, RequestMoves
    <2>4. Idle.pc = "idle" /\ Idle.kind = "none"
      BY DEF Idle
    <2> QED BY <1>0, <2>1, <2>2, <2>3, <2>4 DEF TypeInv, PasswordRequests
  <1>5. CASE Tick
    BY <1>0, <1>5 DEF Tick, TypeInv, TypeOK, PasswordRequests, tables, files, history
  <1>6. CASE Crash
    <2>1. Idle \in Req /\ Idle.pc = "idle" /\ Idle.kind = "none"
      BY DEF Idle, Bearer, Req, ReqPC
    <2>2. up' \in [pc : UpPC, off : Nat] /\ del' \in [Deleters -> DelPC] /\ q' \in [Clients -> Req]
          /\ crashes' \in Nat
      BY <1>0, <1>6, <2>1 DEF Crash, TypeOK, UpPC, DelPC
    <2>3. \A r \in Clients : q'[r] = Idle
      BY <1>6 DEF Crash
    <2> QED BY <1>0, <1>6, <2>1, <2>2, <2>3 DEF Crash, TypeInv, TypeOK, PasswordRequests, tables, files,
       history
  <1>7. CASE UNCHANGED vars
    BY <1>0, <1>7 DEF vars, TypeInv, TypeOK, PasswordRequests
  <1> QED BY <1>1, <1>2, <1>3, <1>4, <1>5, <1>6, <1>7 DEF Next

(* Every reachable state of the endpoints is well typed: no request puts   *)
(* anything but a password's key in the row.                               *)
THEOREM TypeCorrect == Spec => []TypeOK
  <1>1. Init => TypeInv
    BY InitType DEF Init, TypeInv, PasswordRequests, Idle
  <1>2. TypeInv => TypeOK
    BY DEF TypeInv
  <1> QED BY <1>1, <1>2, TypeStep, PTL DEF Spec

-----------------------------------------------------------------------------
(* Authenticators.                                                         *)

LEMMA UnopenedStep ==
  ASSUME TypeOK, Unopened, [Next]_vars
  PROVE  Unopened'
  <1> SUFFICES ASSUME up'.pc = "new"
               PROVE  UNCHANGED <<row, cred, partial, final, spent, pwset, q, del>> /\ up.pc = "new"
    BY DEF Unopened
  <1>1. ~Socket
    BY DEF Socket, CreateCompat, SendLink, ReceiveFrame, EndOfFile, FinishBlob, FinishCompat, GiveUp,
       TypeOK
  <1>2. ~Crash
    BY DEF Crash, TypeOK
  <1>3. UNCHANGED up
    BY <1>1, <1>2 DEF Next, vars, Reaper, ReapList, Checkpoint, Remove, DeleteRow, DeleteFinal,
       DeletePartial, Begin, Request, ReadCompat, RotateCompatNonce, Get, SetCompatPassword,
       OpenContent, Serve, RecordServed, Tick
  <1>4. /\ row = NoRow /\ \A d \in Deleters : del[d] = "idle"
        /\ \A r \in Clients : q[r].pc = "idle"
    BY <1>3 DEF Unopened, Idle
  <1>5. ~Remove("abandon") /\ ~Reaper
    BY <1>4 DEF Reaper, ReapList, Checkpoint, Remove, DeleteRow, DeleteFinal, DeletePartial, Deleters
  <1>6. ASSUME NEW r \in Clients PROVE ~Request(r)
    BY <1>4 DEF Request, ReadCompat, RotateCompatNonce, Get, SetCompatPassword, OpenContent, Serve,
       RecordServed
  <1>7. ASSUME NEW r \in Clients, NEW kind \in Kinds, NEW auth \in Authenticators(kind)
        PROVE  ~Begin(r, kind, auth)
    BY <1>3 DEF Begin
  <1> QED BY <1>1, <1>2, <1>3, <1>5, <1>6, <1>7 DEF Next, Tick, vars, tables, files, history

(* The statements that write the compatibility row.                        *)
LEMMA CredChange ==
  ASSUME TypeOK, [Next]_vars
  PROVE  \/ UNCHANGED <<cred, spent, pwset>>
         \/ cred' = NoCred /\ UNCHANGED <<spent, pwset>>
         \/ /\ up.pc = "new" /\ UNCHANGED <<spent, pwset>>
            /\ cred' = [key |-> LinkKey, nonce |-> 1, pw |-> FALSE]
         \/ \E r \in Clients :
              /\ q[r].pc = "rotate" /\ cred # NoCred /\ UNCHANGED pwset
              /\ cred' = [cred EXCEPT !.nonce = cred.nonce + 1]
              /\ spent' = spent \cup {q[r].auth.nonce}
         \/ \E r \in Clients :
              /\ q[r].pc = "password" /\ cred # NoCred /\ UNCHANGED spent
              /\ cred' = [cred EXCEPT !.key = q[r].auth.key, !.pw = TRUE]
  <1>1. CASE Socket
    BY <1>1 DEF Socket, CreateCompat, Insert, SendLink, ReceiveFrame, EndOfFile, FinishBlob,
       FinishCompat, tables, history
  <1>2. CASE Remove("abandon") \/ Reaper
    BY <1>2 DEF Reaper, ReapList, Checkpoint, Remove, DeleteRow, DeleteFinal, DeletePartial, tables,
       history
  <1>3. ASSUME NEW r \in Clients, NEW kind \in Kinds, NEW auth \in Authenticators(kind),
               Begin(r, kind, auth)
        PROVE  UNCHANGED <<cred, spent, pwset>>
    BY <1>3 DEF Begin, tables, history
  <1>4. ASSUME NEW r \in Clients, RotateCompatNonce(r)
        PROVE  \/ UNCHANGED <<cred, spent, pwset>>
               \/ /\ q[r].pc = "rotate" /\ cred # NoCred /\ UNCHANGED pwset
                  /\ cred' = [cred EXCEPT !.nonce = cred.nonce + 1]
                  /\ spent' = spent \cup {q[r].auth.nonce}
    BY <1>4 DEF RotateCompatNonce, Rotate, Fresh
  <1>5. ASSUME NEW r \in Clients, SetCompatPassword(r)
        PROVE  \/ UNCHANGED <<cred, spent, pwset>>
               \/ /\ q[r].pc = "password" /\ cred # NoCred /\ UNCHANGED spent
                  /\ cred' = [cred EXCEPT !.key = q[r].auth.key, !.pw = TRUE]
    BY <1>5 DEF SetCompatPassword, SetKey
  <1>6. ASSUME NEW r \in Clients, Request(r), ~RotateCompatNonce(r), ~SetCompatPassword(r)
        PROVE  UNCHANGED <<cred, spent, pwset>>
    BY <1>6 DEF Request, ReadCompat, Get, OpenContent, Serve, RecordServed, tables, history
  <1>7. CASE Tick \/ Crash \/ UNCHANGED vars
    BY <1>7 DEF Tick, Crash, vars, tables, history
  <1> QED BY <1>1, <1>2, <1>3, <1>4, <1>5, <1>6, <1>7 DEF Next

(* The row's nonce only grows, past every nonce that let a request in, and *)
(* its key stays a password's.                                             *)
LEMMA RowAhead ==
  ASSUME NonceInv, [Next]_vars
  PROVE  /\ SpentPast' /\ PasswordKept' /\ spent \subseteq spent' /\ (pwset => pwset')
         /\ cred' # NoCred => up.pc = "new" \/ (cred # NoCred /\ cred'.nonce >= cred.nonce)
  <1>0. TypeOK /\ PasswordRequests /\ Unopened /\ SpentPast /\ PasswordKept /\ RequestInv
    BY DEF NonceInv, TypeInv
  <1>1. cred # NoCred => cred \in Cred /\ cred.nonce \in Nat
    BY <1>0 DEF TypeOK, Cred
  <1>2. CASE UNCHANGED <<cred, spent, pwset>>
    BY <1>0, <1>1, <1>2 DEF SpentPast, PasswordKept
  <1>3. CASE cred' = NoCred /\ UNCHANGED <<spent, pwset>>
    BY <1>3 DEF SpentPast, PasswordKept
  <1>4. CASE /\ up.pc = "new" /\ UNCHANGED <<spent, pwset>>
             /\ cred' = [key |-> LinkKey, nonce |-> 1, pw |-> FALSE]
    BY <1>0, <1>4 DEF Unopened, SpentPast, PasswordKept
  <1>5. ASSUME NEW r \in Clients, q[r].pc = "rotate", cred # NoCred, UNCHANGED pwset,
               cred' = [cred EXCEPT !.nonce = cred.nonce + 1],
               spent' = spent \cup {q[r].auth.nonce}
        PROVE  SpentPast' /\ PasswordKept' /\ cred'.nonce >= cred.nonce
    <2>1. cred'.nonce = cred.nonce + 1 /\ cred'.key = cred.key
      BY <1>1, <1>5 DEF Cred
    <2>2. q[r].auth.nonce <= cred.nonce /\ q[r].auth.nonce \in Nat
      BY <1>0, <1>5 DEF RequestInv, RequestOK, Compared, TypeOK, Req
    <2>3. \A n \in spent : n \in Nat /\ n < cred.nonce
      BY <1>0, <1>5 DEF SpentPast, TypeOK
    <2>4. SpentPast'
      BY <1>1, <1>5, <2>1, <2>2, <2>3 DEF SpentPast
    <2>5. PasswordKept'
      BY <1>0, <1>5, <2>1 DEF PasswordKept
    <2> QED BY <1>1, <1>5, <2>1, <2>4, <2>5
  <1>6. ASSUME NEW r \in Clients, q[r].pc = "password", cred # NoCred, UNCHANGED spent,
               cred' = [cred EXCEPT !.key = q[r].auth.key, !.pw = TRUE]
        PROVE  SpentPast' /\ PasswordKept' /\ cred'.nonce >= cred.nonce
    <2>1. cred'.nonce = cred.nonce /\ cred'.key = q[r].auth.key
      BY <1>1, <1>6 DEF Cred
    <2>2. q[r].auth.key \in Passwords
      BY <1>0, <1>6 DEF PasswordRequests
    <2> QED BY <1>0, <1>1, <1>6, <2>1, <2>2 DEF SpentPast, PasswordKept
  <1>7. pwset => pwset'
    <2>1. ASSUME pwset PROVE pwset'
      BY <1>0, <2>1, Zenon DEF Next, Socket, CreateCompat, SendLink, ReceiveFrame, EndOfFile,
         FinishBlob, FinishCompat, Reaper, ReapList, Checkpoint, Remove, DeleteRow, DeleteFinal,
         DeletePartial, Begin, Request, ReadCompat, RotateCompatNonce, Get, SetCompatPassword,
         OpenContent, Serve, RecordServed, Tick, Crash, vars, history
    <2> QED BY <2>1
  <1> QED BY <1>0, <1>2, <1>3, <1>4, <1>5, <1>6, <1>7, CredChange

LEMMA IdleOK ==
  ASSUME NEW s \in Clients, q'[s] = Idle
  PROVE  RequestOK(s)'
  BY DEF Idle, RequestOK, Compared

(* A request that stands aside: the row does not fall behind what it       *)
(* compared, and what was spent or set stays so.                           *)
LEMMA RequestAside ==
  ASSUME NonceInv, [Next]_vars, NEW s \in Clients, q'[s] = q[s]
  PROVE  RequestOK(s)'
  <1>0. TypeOK /\ Unopened /\ RequestOK(s)
    BY DEF NonceInv, TypeInv, RequestInv
  <1>1. CASE up.pc = "new"
    BY <1>0, <1>1, IdleOK DEF Unopened
  <1>2. CASE up.pc # "new"
    <2>1. /\ spent \subseteq spent' /\ (pwset => pwset')
          /\ cred' # NoCred => cred # NoCred /\ cred'.nonce >= cred.nonce
      BY <1>2, RowAhead
    <2>2. ASSUME q[s].pc = "rotate", cred' # NoCred PROVE q[s].auth.nonce <= cred'.nonce
      <3>1. q[s].auth.nonce <= cred.nonce /\ cred'.nonce >= cred.nonce
        BY <1>0, <2>1, <2>2 DEF RequestOK, Compared
      <3>2. q[s].auth.nonce \in Nat /\ cred.nonce \in Nat
        BY <1>0, <2>1, <2>2 DEF TypeOK, Req, Cred
      <3>3. cred'.nonce \in Nat
        BY <2>2, TypeStep DEF NonceInv, TypeInv, TypeOK, Cred
      <3> QED BY <3>1, <3>2, <3>3
    <2>3. /\ q'[s].stale => q'[s].auth.nonce \in spent'
          /\ q'[s].late => pwset'
          /\ q'[s].authed => ~q'[s].stale /\ (q'[s].late => q'[s].auth.key # LinkKey)
      BY <1>0, <2>1, Zenon DEF RequestOK
    <2>4. Compared(s)'
      BY <1>0, <2>2 DEF RequestOK, Compared
    <2> QED BY <2>3, <2>4 DEF RequestOK
  <1> QED BY <1>1, <1>2

LEMMA RequestStep ==
  ASSUME NonceInv, NEW r \in Clients, Request(r), [Next]_vars
  PROVE  RequestOK(r)'
  <1>0. TypeOK /\ SpentPast /\ PasswordKept /\ RequestOK(r) /\ q[r] \in Req
    BY DEF NonceInv, TypeInv, RequestInv, TypeOK
  <1>1. CASE q'[r] = Idle
    BY <1>1, IdleOK
  <1>2. CASE /\ q'[r].kind = q[r].kind /\ q'[r].auth = q[r].auth /\ q'[r].stale = q[r].stale
             /\ q'[r].late = q[r].late
             /\ q'[r].pc = "rotate" => ReadCompat(r) /\ cred # NoCred /\ q[r].auth = Expected
             /\ q'[r].authed = q[r].authed \/ (RotateCompatNonce(r) /\ q'[r].authed = TRUE)
    <2>1. spent \subseteq spent' /\ (pwset => pwset')
      BY RowAhead
    <2>2. (q'[r].stale => q'[r].auth.nonce \in spent') /\ (q'[r].late => pwset')
      <3>1. (q[r].stale => q[r].auth.nonce \in spent) /\ (q[r].late => pwset)
        BY <1>0 DEF RequestOK
      <3> QED BY <1>2, <2>1, <3>1, Zenon
    <2>3. q'[r].authed => ~q'[r].stale /\ (q'[r].late => q'[r].auth.key # LinkKey)
      <3>1. ASSUME RotateCompatNonce(r) PROVE ~q[r].stale /\ (q[r].late => q[r].auth.key # LinkKey)
        BY <1>0, <3>1 DEF RotateCompatNonce, RequestOK, Compared
      <3>2. ASSUME q[r].authed PROVE ~q[r].stale /\ (q[r].late => q[r].auth.key # LinkKey)
        BY <1>0, <3>2 DEF RequestOK
      <3> QED BY <1>2, <3>1, <3>2, Zenon
    <2>4. ASSUME q'[r].pc = "rotate"
          PROVE  /\ ~q[r].stale /\ (q[r].late => q[r].auth.key # LinkKey)
                 /\ UNCHANGED cred /\ q[r].auth.nonce <= cred.nonce
      <3>1. ReadCompat(r) /\ cred # NoCred /\ q[r].auth = Expected /\ UNCHANGED cred
        BY <1>2, <2>4 DEF ReadCompat, tables
      <3>2. q[r].auth.nonce = cred.nonce /\ q[r].auth.key = cred.key /\ cred.nonce \in Nat
        BY <1>0, <3>1 DEF Expected, TypeOK, Cred
      <3>3. cred.nonce \notin spent
        BY <1>0, <3>1, <3>2 DEF SpentPast, TypeOK
      <3>4. pwset => cred.key # LinkKey
        BY <1>0, <3>1, CompatAssumption DEF PasswordKept, CompatAssumption
      <3>5. ~q[r].stale
        BY <1>0, <3>2, <3>3 DEF RequestOK
      <3>6. q[r].late => q[r].auth.key # LinkKey
        BY <1>0, <3>2, <3>4 DEF RequestOK
      <3> QED BY <3>1, <3>2, <3>5, <3>6
    <2>5. Compared(r)'
      BY <1>2, <2>4 DEF Compared
    <2> QED BY <2>2, <2>3, <2>5 DEF RequestOK
  <1> QED BY <1>0, <1>1, <1>2, RequestMoves

LEMMA NonceStep == NonceInv /\ [Next]_vars => NonceInv'
  <1> SUFFICES ASSUME NonceInv, [Next]_vars PROVE NonceInv'
    OBVIOUS
  <1>0. TypeOK /\ Unopened /\ TypeInv
    BY DEF NonceInv, TypeInv
  <1>1. TypeInv' /\ Unopened' /\ SpentPast' /\ PasswordKept'
    BY <1>0, TypeStep, UnopenedStep, RowAhead
  <1>2. ASSUME NEW s \in Clients PROVE RequestOK(s)'
    <2>1. CASE UNCHANGED q
      BY <2>1, RequestAside
    <2>2. CASE Crash
      BY <2>2, IdleOK DEF Crash
    <2>3. ASSUME NEW r \in Clients, Request(r) PROVE RequestOK(s)'
      <3>1. s # r => q'[s] = q[s]
        BY <1>0, <2>3 DEF Request, ReadCompat, RotateCompatNonce, Get, SetCompatPassword, OpenContent,
           Serve, RecordServed, End, Step, Authenticated, TypeOK
      <3> QED BY <2>3, <3>1, RequestStep, RequestAside
    <2>4. ASSUME NEW r \in Clients, NEW kind \in Kinds, NEW auth \in Authenticators(kind),
                 Begin(r, kind, auth)
          PROVE  RequestOK(s)'
      <3>1. CASE s # r
        <4>1. q'[s] = q[s]
          BY <1>0, <2>4, <3>1 DEF Begin, TypeOK
        <4> QED BY <4>1, RequestAside
      <3>2. CASE s = r
        <4>1. /\ q'[r].pc \in {"get", "compat"} /\ q'[r].auth = auth
              /\ q'[r].stale = (auth.nonce \in spent) /\ q'[r].late = pwset /\ q'[r].authed = FALSE
          BY <1>0, <2>4, BeginType
        <4>2. UNCHANGED <<spent, pwset>>
          BY <2>4 DEF Begin, history
        <4>3. Compared(r)'
          BY <4>1 DEF Compared
        <4>4. /\ q'[r].stale => q'[r].auth.nonce \in spent'
              /\ q'[r].late => pwset'
              /\ ~q'[r].authed
          BY <4>1, <4>2, Zenon
        <4> QED BY <3>2, <4>3, <4>4 DEF RequestOK
      <3> QED BY <3>1, <3>2
    <2>5. CASE Socket \/ Remove("abandon") \/ Reaper \/ Tick \/ UNCHANGED vars
      <3>1. UNCHANGED q
        BY <2>5 DEF Socket, CreateCompat, SendLink, ReceiveFrame, EndOfFile, FinishBlob, FinishCompat,
           Reaper, ReapList, Checkpoint, Remove, DeleteRow, DeleteFinal, DeletePartial, Tick, vars
      <3> QED BY <2>1, <3>1
    <2> QED BY <2>2, <2>3, <2>4, <2>5 DEF Next
  <1> QED BY <1>1, <1>2 DEF NonceInv, RequestInv

LEMMA NonceCorrect == Spec => []NonceInv
  <1>1. ASSUME Init PROVE NonceInv
    <2>1. TypeInv
      BY <1>1, InitType DEF Init, TypeInv, PasswordRequests, Idle
    <2>2. RequestInv
      BY <1>1 DEF Init, RequestInv, RequestOK, Compared, Idle
    <2> QED BY <1>1, <2>1, <2>2 DEF Init, NonceInv, Unopened, SpentPast, PasswordKept
  <1> QED BY <1>1, NonceStep, PTL DEF Spec

(* "A captured Authorization header does not work twice": whatever         *)
(* requests overlap, removals and crashes intervene, a request that begins *)
(* after its nonce let another in is not let in.                           *)
THEOREM AuthenticatorsOnce == Spec => []AuthenticatorOnce
  <1>1. NonceInv => AuthenticatorOnce
    BY DEF NonceInv, RequestInv, RequestOK, AuthenticatorOnce
  <1> QED BY <1>1, NonceCorrect, PTL

(* A password takes effect: a request that begins after it was set is not  *)
(* let in by the key of the link, whatever rotation read the row before.   *)
THEOREM PasswordsTakeEffect == Spec => []PasswordTakesEffect
  <1>1. NonceInv => PasswordTakesEffect
    BY DEF NonceInv, RequestInv, RequestOK, PasswordTakesEffect
  <1> QED BY <1>1, NonceCorrect, PTL

-----------------------------------------------------------------------------
(* The files.                                                              *)

(* A handler that gives up hands its files to abandon.                     *)
LEMMA GiveUpFacts ==
  ASSUME TypeOK, GiveUp
  PROVE  /\ up'.pc = "end" /\ up'.off = up.off /\ del'["abandon"] = "row"
         /\ del'["reaper"] = del["reaper"]
  BY DEF GiveUp, TypeOK, Deleters

LEMMA GiveUpKeeps ==
  ASSUME FileInv, GiveUp, UNCHANGED row, UNCHANGED final \/ (row # NoRow => ~Complete(row))
  PROVE  SocketOK' /\ RowFirst' /\ FinishedWhole' /\ StillRemoving'
  <1>0. TypeOK /\ RowFirst /\ FinishedWhole
    BY DEF FileInv, TypeInv
  <1>1. up'.pc = "end" /\ del'["abandon"] = "row" /\ del'["reaper"] = del["reaper"]
    BY <1>0, GiveUpFacts
  <1>2. SocketOK'
    BY <1>1 DEF SocketOK, InProgress
  <1>3. RowFirst'
    BY <1>0, <1>1 DEF RowFirst, Deleters
  <1>4. FinishedWhole'
    BY <1>0 DEF FinishedWhole
  <1>5. StillRemoving'
    BY <1>1 DEF StillRemoving, Deleters
  <1> QED BY <1>2, <1>3, <1>4, <1>5

(* A fault or a crash ends what NoLeftovers says of the run.               *)
LEMMA FaultDisturbs ==
  ASSUME TypeOK, Fault
  PROVE  ~Undisturbed'
  BY DEF Fault, TypeOK, Undisturbed

LEMMA SocketKeeps ==
  ASSUME FileInv, Socket
  PROVE  SocketOK' /\ RowFirst' /\ FinishedWhole' /\ StillRemoving'
  <1>0. /\ TypeOK /\ Unopened /\ SocketOK /\ RowFirst /\ FinishedWhole /\ StillRemoving
        /\ NoRow \notin Row /\ NoFile \notin Nat
    BY CompatAssumption DEF FileInv, TypeInv, CompatAssumption
  <1>1. ASSUME NEW t \in TimeLimits, NEW l \in Limits, CreateCompat(t, l)
        PROVE  SocketOK' /\ RowFirst' /\ FinishedWhole' /\ StillRemoving'
    <2>1. up.pc = "new" /\ UNCHANGED <<partial, final, del>>
      BY <1>1 DEF CreateCompat, files
    <2>2. row = NoRow /\ partial = NoFile /\ final = NoFile /\ \A d \in Deleters : del[d] = "idle"
      BY <1>0, <2>1 DEF Unopened
    <2>3. up.off = 0 /\ up'.off = up.off /\ up'.pc \in {"link", "end"}
      BY <1>0, <1>1, <2>1 DEF CreateCompat, SocketOK, TypeOK
    <2>4. row' # NoRow => ~Complete(row')
      <3>1. CASE UNCHANGED row
        BY <2>2, <3>1
      <3>2. CASE Insert(Duration(t), downloadLimit(l))
        <4>1. row'.completedAt = NoTime
          BY <3>2 DEF Insert, NewRow, Absent
        <4> QED BY <4>1 DEF Complete
      <3> QED BY <1>1, <3>1, <3>2 DEF CreateCompat
    <2> QED BY <2>1, <2>2, <2>3, <2>4 DEF SocketOK, RowFirst, FinishedWhole, StillRemoving, InProgress
  <1>2. CASE SendLink
    <2>1. CASE GiveUp
      BY <1>2, <2>1, GiveUpKeeps DEF SendLink, tables, files
    <2>2. CASE up' = [up EXCEPT !.pc = "receive"] /\ UNCHANGED del
      <3>1. up'.pc = "receive" /\ up'.off = up.off /\ up.pc = "link" /\ UNCHANGED <<row, partial, final>>
        BY <1>0, <1>2, <2>2 DEF SendLink, TypeOK, tables, files
      <3> QED BY <1>0, <2>2, <3>1 DEF SocketOK, RowFirst, FinishedWhole, StillRemoving, InProgress
    <2> QED BY <1>2, <2>1, <2>2 DEF SendLink
  <1>3. ASSUME NEW n \in Frames, ReceiveFrame(n)
        PROVE  SocketOK' /\ RowFirst' /\ FinishedWhole' /\ StillRemoving'
    <2>1. UNCHANGED <<row, final>> /\ up.pc = "receive"
      BY <1>3 DEF ReceiveFrame, tables
    <2>2. CASE GiveUp
      BY <2>1, <2>2, GiveUpKeeps
    <2>3. CASE /\ (IF partial = NoFile THEN 0 ELSE partial) = up.off
               /\ partial' = (IF partial = NoFile THEN 0 ELSE partial) + n
               /\ up' = [up EXCEPT !.off = @ + n] /\ UNCHANGED del
      <3>1. up'.pc = "receive" /\ up'.off = up.off + n /\ partial' = up.off + n
        BY <1>0, <2>1, <2>3 DEF TypeOK
      <3> QED BY <1>0, <2>1, <2>3, <3>1 DEF SocketOK, RowFirst, FinishedWhole, StillRemoving, InProgress
    <2> QED BY <1>3, <2>2, <2>3 DEF ReceiveFrame
  <1>4. CASE EndOfFile
    <2>1. CASE GiveUp
      BY <1>4, <2>1, GiveUpKeeps DEF EndOfFile, tables, files
    <2>2. CASE up' = [up EXCEPT !.pc = "finish"] /\ UNCHANGED del
      <3>1. up'.pc = "finish" /\ up'.off = up.off /\ up.pc = "receive" /\ UNCHANGED <<row, partial, final>>
        BY <1>0, <1>4, <2>2 DEF EndOfFile, TypeOK, tables, files
      <3> QED BY <1>0, <2>2, <3>1 DEF SocketOK, RowFirst, FinishedWhole, StillRemoving, InProgress
    <2> QED BY <1>4, <2>1, <2>2 DEF EndOfFile
  <1>5. CASE FinishBlob
    <2>1. UNCHANGED row /\ up.pc = "finish"
      BY <1>5 DEF FinishBlob, tables
    <2>2. row # NoRow => ~Complete(row)
      BY <1>0, <2>1 DEF SocketOK, InProgress
    <2>3. CASE GiveUp
      BY <2>1, <2>2, <2>3, GiveUpKeeps
    <2>4. CASE /\ partial # NoFile /\ final' = partial /\ partial' = NoFile
               /\ up' = [up EXCEPT !.pc = "complete"] /\ UNCHANGED del
      <3>1. up'.pc = "complete" /\ up'.off = up.off
        BY <1>0, <2>4 DEF TypeOK
      <3> QED BY <1>0, <2>1, <2>2, <2>4, <3>1 DEF SocketOK, RowFirst, FinishedWhole, StillRemoving, InProgress
    <2> QED BY <1>5, <2>3, <2>4 DEF FinishBlob
  <1>6. CASE FinishCompat
    <2>1. UNCHANGED <<partial, final>> /\ up.pc = "complete"
      BY <1>6 DEF FinishCompat, files
    <2>2. CASE GiveUp /\ UNCHANGED row
      BY <2>1, <2>2, GiveUpKeeps
    <2>3. CASE /\ row # NoRow /\ row' = [row EXCEPT !.size = up.off, !.completedAt = now]
               /\ up' = [up EXCEPT !.pc = "end"] /\ UNCHANGED del
      <3>1. up'.pc = "end" /\ row'.size = up.off /\ final = up.off
        BY <1>0, <2>1, <2>3 DEF TypeOK, SocketOK, Row
      <3>2. row' # NoRow
        BY <1>0, <2>3 DEF TypeOK, Row
      <3> QED BY <1>0, <2>1, <2>3, <3>1, <3>2 DEF SocketOK, RowFirst, FinishedWhole, StillRemoving, InProgress
    <2> QED BY <1>6, <2>2, <2>3 DEF FinishCompat
  <1> QED BY <1>1, <1>2, <1>3, <1>4, <1>5, <1>6 DEF Socket

LEMMA DeleterKeeps ==
  ASSUME FileInv, Remove("abandon") \/ Reaper
  PROVE  SocketOK' /\ RowFirst' /\ FinishedWhole' /\ StillRemoving'
  <1>0. TypeOK /\ SocketOK /\ RowFirst /\ FinishedWhole /\ StillRemoving
    BY DEF FileInv, TypeInv
  <1>1. ASSUME NEW d \in Deleters, DeleteRow(d)
        PROVE  SocketOK' /\ RowFirst' /\ FinishedWhole' /\ StillRemoving'
    <2>1. UNCHANGED <<up, partial, final>> /\ \A e \in Deleters \ {d} : del'[e] = del[e]
      BY <1>0, <1>1 DEF DeleteRow, files, TypeOK
    <2>2. CASE row' = NoRow /\ del' = [del EXCEPT ![d] = "final"]
      <3>1. del'[d] = "final"
        BY <1>0, <2>2 DEF TypeOK
      <3> QED BY <1>0, <2>1, <2>2, <3>1 DEF SocketOK, RowFirst, FinishedWhole, StillRemoving, InProgress
    <2>3. CASE Fault /\ del' = [del EXCEPT ![d] = "idle"] /\ UNCHANGED row
      <3>1. del'[d] = "idle" /\ ~Undisturbed'
        BY <1>0, <2>3, FaultDisturbs DEF TypeOK
      <3> QED BY <1>0, <2>1, <2>3, <3>1 DEF SocketOK, RowFirst, FinishedWhole, StillRemoving, InProgress
    <2> QED BY <1>1, <2>2, <2>3 DEF DeleteRow, tables
  <1>2. ASSUME NEW d \in Deleters, DeleteFinal(d)
        PROVE  SocketOK' /\ RowFirst' /\ FinishedWhole' /\ StillRemoving'
    <2>1. UNCHANGED <<up, row, partial>> /\ row = NoRow /\ \A e \in Deleters \ {d} : del'[e] = del[e]
      BY <1>0, <1>2 DEF DeleteFinal, tables, TypeOK, RowFirst
    <2>2. SocketOK' /\ RowFirst' /\ FinishedWhole'
      BY <1>0, <2>1 DEF SocketOK, RowFirst, FinishedWhole, InProgress
    <2>3. CASE final' = NoFile /\ del' = [del EXCEPT ![d] = "partial"]
      <3>1. del'[d] = "partial"
        BY <1>0, <2>3 DEF TypeOK
      <3> QED BY <2>2, <2>3, <3>1 DEF StillRemoving
    <2>4. CASE Fault
      BY <1>0, <2>2, <2>4, FaultDisturbs DEF StillRemoving
    <2> QED BY <1>2, <2>3, <2>4 DEF DeleteFinal
  <1>3. ASSUME NEW d \in Deleters, DeletePartial(d)
        PROVE  SocketOK' /\ RowFirst' /\ FinishedWhole' /\ StillRemoving'
    <2>1. /\ UNCHANGED <<up, row, final, crashes>> /\ row = NoRow /\ del[d] = "partial"
          /\ \A e \in Deleters \ {d} : del'[e] = del[e]
      BY <1>0, <1>3 DEF DeletePartial, tables, TypeOK, RowFirst, clock
    <2>2. partial' \in {partial, NoFile}
      BY <1>3 DEF DeletePartial
    <2>3. SocketOK' /\ RowFirst' /\ FinishedWhole'
      BY <1>0, <2>1, <2>2 DEF SocketOK, RowFirst, FinishedWhole, InProgress
    <2>4. CASE partial' = NoFile /\ UNCHANGED faults
      BY <1>0, <2>1, <2>3, <2>4 DEF StillRemoving, Undisturbed
    <2>5. CASE Fault
      BY <1>0, <2>3, <2>5, FaultDisturbs DEF StillRemoving
    <2> QED BY <1>3, <2>4, <2>5 DEF DeletePartial
  <1>4. CASE ReapList
    <2>1. UNCHANGED <<up, row, partial, final>> /\ row # NoRow /\ del'["reaper"] = "row"
          /\ del'["abandon"] = del["abandon"]
      BY <1>0, <1>4 DEF ReapList, tables, files, TypeOK, Deleters
    <2> QED BY <1>0, <2>1 DEF SocketOK, RowFirst, FinishedWhole, StillRemoving, InProgress, Deleters
  <1>5. CASE Checkpoint
    <2>1. /\ UNCHANGED <<up, row, partial, final, crashes>> /\ del["reaper"] = "checkpoint"
          /\ del'["reaper"] = "idle" /\ del'["abandon"] = del["abandon"]
      BY <1>0, <1>5 DEF Checkpoint, files, TypeOK, Deleters, clock
    <2>2. SocketOK' /\ RowFirst' /\ FinishedWhole'
      BY <1>0, <2>1 DEF SocketOK, RowFirst, FinishedWhole, InProgress, Deleters
    <2>3. CASE UNCHANGED faults
      BY <1>0, <2>1, <2>2, <2>3 DEF StillRemoving, Undisturbed, Deleters
    <2>4. CASE Fault
      BY <1>0, <2>2, <2>4, FaultDisturbs DEF StillRemoving
    <2> QED BY <1>5, <2>3, <2>4 DEF Checkpoint
  <1> QED BY <1>1, <1>2, <1>3, <1>4, <1>5 DEF Reaper, Remove, Deleters

(* No request touches a file; the accounting leaves size and completion.   *)
LEMMA RequestFrame ==
  ASSUME TypeOK, NEW r \in Clients, Request(r)
  PROVE  /\ UNCHANGED <<now, partial, final, up, del, crashes>>
         /\ UNCHANGED faults \/ Fault
         /\ (row' = NoRow) = (row = NoRow)
         /\ row # NoRow => /\ row'.size = row.size /\ row'.completedAt = row.completedAt
                           /\ row'.createdAt = row.createdAt /\ row'.expiresAt = row.expiresAt
  <1>1. UNCHANGED <<now, partial, final, up, del, crashes>> /\ (UNCHANGED faults \/ Fault)
    BY DEF Request, ReadCompat, RotateCompatNonce, Get, SetCompatPassword, OpenContent, Serve,
       RecordServed, files, history, clock
  <1>2. CASE UNCHANGED row
    BY <1>1, <1>2
  <1>3. CASE RecordServed(r)
    <2>1. CASE row # NoRow /\ row' = Served(row, q[r].n)
      <3>1. row \in Row /\ q[r].n \in Nat /\ NoRow \notin Row
        BY <2>1, CompatAssumption DEF TypeOK, Req, CompatAssumption
      <3> QED BY <1>1, <2>1, <3>1, ServedRow
    <2> QED BY <1>2, <1>3, <2>1 DEF RecordServed
  <1> QED BY <1>2, <1>3 DEF Request, ReadCompat, RotateCompatNonce, Get, SetCompatPassword,
     OpenContent, Serve, tables

LEMMA FileStep == FileInv /\ [Next]_vars => FileInv'
  <1> SUFFICES ASSUME FileInv, [Next]_vars PROVE FileInv'
    OBVIOUS
  <1>0. /\ TypeInv /\ TypeOK /\ Unopened /\ SocketOK /\ RowFirst /\ FinishedWhole
        /\ StillRemoving
    BY DEF FileInv, TypeInv
  <1>1. TypeInv' /\ Unopened'
    BY <1>0, TypeStep, UnopenedStep
  <1>2. CASE Socket
    BY <1>1, <1>2, SocketKeeps DEF FileInv
  <1>3. CASE Remove("abandon") \/ Reaper
    BY <1>1, <1>3, DeleterKeeps DEF FileInv
  <1>4. ASSUME NEW r \in Clients, Request(r) PROVE FileInv'
    <2>1. /\ UNCHANGED <<partial, final, up, del, crashes>> /\ (UNCHANGED faults \/ Fault)
          /\ (row' = NoRow) = (row = NoRow)
          /\ row # NoRow => row'.size = row.size /\ row'.completedAt = row.completedAt
      BY <1>0, <1>4, RequestFrame
    <2>2. SocketOK' /\ RowFirst' /\ FinishedWhole'
      BY <1>0, <2>1 DEF SocketOK, RowFirst, FinishedWhole, InProgress, Complete
    <2>3. Undisturbed' => Undisturbed
      BY <1>0, <2>1, FaultDisturbs DEF Undisturbed
    <2>4. StillRemoving'
      BY <1>0, <2>1, <2>3 DEF StillRemoving
    <2> QED BY <1>1, <2>2, <2>4 DEF FileInv
  <1>5. CASE Crash
    <2>1. /\ UNCHANGED <<row, partial, final>> /\ up'.pc = "end" /\ \A d \in Deleters : del'[d] = "idle"
          /\ ~Undisturbed'
      BY <1>0, <1>5 DEF Crash, TypeOK, Undisturbed, tables, files
    <2> QED BY <1>0, <1>1, <2>1 DEF FileInv, SocketOK, RowFirst, FinishedWhole, StillRemoving, InProgress
  <1>6. CASE Tick \/ (\E r \in Clients, kind \in Kinds : \E auth \in Authenticators(kind) :
                        Begin(r, kind, auth)) \/ UNCHANGED vars
    <2>1. UNCHANGED <<row, partial, final, up, del, crashes, faults>>
      BY <1>6 DEF Tick, Begin, vars, clock, tables, files
    <2> QED BY <1>0, <1>1, <2>1 DEF FileInv, SocketOK, RowFirst, FinishedWhole, StillRemoving,
       InProgress, Undisturbed
  <1> QED BY <1>2, <1>3, <1>4, <1>5, <1>6 DEF Next

LEMMA FileCorrect == Spec => []FileInv
  <1>1. ASSUME Init PROVE FileInv
    <2>1. TypeInv
      BY <1>1, InitType DEF Init, TypeInv, PasswordRequests, Idle
    <2> QED BY <1>1, <2>1 DEF Init, FileInv, Unopened, SocketOK, InProgress, RowFirst, FinishedWhole,
       StillRemoving
  <1> QED BY <1>1, FileStep, PTL DEF Spec

(* A complete upload has its whole blob, whatever the reaper, the requests *)
(* and a crash do meanwhile: nobody declared its length, and the size the  *)
(* row records is the length of the blob.                                  *)
THEOREM FinishedUploadsWhole == Spec => []FinishedWhole
  <1>1. FileInv => FinishedWhole
    BY DEF FileInv
  <1> QED BY <1>1, FileCorrect, PTL

(* As long as no call failed and nothing crashed, an upload whose row is   *)
(* gone leaves no file once its socket and its deleters are done, also     *)
(* when the reaper took the row from under a socket that was sending.      *)
THEOREM NothingLeftOver == Spec => []NoLeftovers
  <1>1. FileInv => NoLeftovers
    <2> SUFFICES ASSUME FileInv, row = NoRow, up.pc \in {"new", "end"}, Undisturbed,
                        \A d \in Deleters : del[d] \in {"idle", "checkpoint"}
                 PROVE  partial = NoFile /\ final = NoFile
      BY DEF NoLeftovers
    <2> QED BY DEF FileInv, Unopened, StillRemoving
  <1> QED BY <1>1, FileCorrect, PTL

-----------------------------------------------------------------------------
(* The deadline.                                                           *)

LEMMA DeadlineStep == TypeInv /\ DeadlineWithinPolicy /\ [Next]_vars => DeadlineWithinPolicy'
  <1> SUFFICES ASSUME TypeInv, DeadlineWithinPolicy, [Next]_vars, row' # NoRow
               PROVE  /\ row'.expiresAt = NoTime => AllowInfiniteTTL
                      /\ MaxTTL > 0 /\ row'.expiresAt # NoTime /\ DefaultTTL <= MaxTTL =>
                           (row'.expiresAt - row'.createdAt) * Nanos <= MaxTTL
    BY DEF DeadlineWithinPolicy
  <1>0. TypeOK
    BY DEF TypeInv
  <1>1. ASSUME NEW t \in TimeLimits, NEW l \in Limits, ~ExpiryRefused(Duration(t)),
               Insert(Duration(t), downloadLimit(l))
        PROVE  /\ row'.expiresAt = NoTime => AllowInfiniteTTL
               /\ MaxTTL > 0 /\ row'.expiresAt # NoTime /\ DefaultTTL <= MaxTTL =>
                    (row'.expiresAt - row'.createdAt) * Nanos <= MaxTTL
    <2>1. Duration(t) \in Int
      BY CompatAssumption, DurationType DEF CompatAssumption
    <2>2. row'.expiresAt = Deadline(Duration(t)) /\ row'.createdAt = now
      BY <1>1 DEF Insert, NewRow
    <2> QED BY <1>0, <1>1, <2>1, <2>2, DeadlineFacts
  <1>2. CASE row # NoRow /\ row'.expiresAt = row.expiresAt /\ row'.createdAt = row.createdAt
    BY <1>2 DEF DeadlineWithinPolicy
  <1>3. CASE Socket
    <2>1. ASSUME FinishCompat, row' # row
          PROVE  row # NoRow /\ row'.expiresAt = row.expiresAt /\ row'.createdAt = row.createdAt
      BY <1>0, <2>1 DEF FinishCompat, TypeOK, Row
    <2>2. \/ UNCHANGED row \/ FinishCompat
          \/ \E t \in TimeLimits, l \in Limits :
               ~ExpiryRefused(Duration(t)) /\ Insert(Duration(t), downloadLimit(l))
      BY <1>3 DEF Socket, CreateCompat, SendLink, ReceiveFrame, EndOfFile, FinishBlob, tables
    <2> QED BY <1>1, <1>2, <2>1, <2>2
  <1>4. CASE Remove("abandon") \/ Reaper
    BY <1>2, <1>4 DEF Reaper, ReapList, Checkpoint, Remove, DeleteRow, DeleteFinal, DeletePartial, tables
  <1>5. ASSUME NEW r \in Clients, Request(r) PROVE row # NoRow /\ row'.expiresAt = row.expiresAt /\ row'.createdAt = row.createdAt
    BY <1>0, <1>5, RequestFrame
  <1>6. CASE Tick \/ Crash \/ (\E r \in Clients, kind \in Kinds : \E auth \in Authenticators(kind) :
                        Begin(r, kind, auth)) \/ UNCHANGED vars
    BY <1>2, <1>6 DEF Tick, Crash, Begin, vars, tables
  <1> QED BY <1>2, <1>3, <1>4, <1>5, <1>6 DEF Next

(* Whatever lifetime a client asks for, and however far its product with   *)
(* the nanoseconds of a second wraps, the stored deadline is one that the  *)
(* policy allows.                                                          *)
THEOREM DeadlinesWithinPolicy == Spec => []DeadlineWithinPolicy
  <1>1. Init => TypeInv /\ DeadlineWithinPolicy
    BY InitType DEF Init, TypeInv, PasswordRequests, Idle, DeadlineWithinPolicy
  <1>2. TypeInv /\ DeadlineWithinPolicy /\ [Next]_vars => (TypeInv /\ DeadlineWithinPolicy)'
    BY TypeStep, DeadlineStep
  <1> QED BY <1>1, <1>2, PTL DEF Spec

-----------------------------------------------------------------------------
(* The limit.  Sums over the requests.                                     *)

(* Induction over the naturals, for a set that the provers can be given.   *)
LEMMA Induction ==
  ASSUME NEW S, 0 \in S, \A n \in Nat : n \in S => n + 1 \in S
  PROVE  \A n \in Nat : n \in S
  <1> DEFINE T == Nat \ S
             R == OpToRel(<, Nat)
  <1> SUFFICES ASSUME T # {} PROVE FALSE
    OBVIOUS
  <1>1. IsWellFoundedOn(R, Nat) /\ T \subseteq Nat
    BY NatLessThanWellFounded
  <1> HIDE DEF T, R
  <1>2. PICK x \in T : \A y \in T : ~(<<y, x>> \in R)
    BY <1>1, WFMin
  <1>3. \A y \in T : ~(y < x)
    BY <1>1, <1>2 DEF R, OpToRel
  <1>4. x \in Nat /\ x \notin S /\ x # 0
    BY DEF T
  <1>5. x - 1 \in Nat /\ x - 1 < x /\ (x - 1) + 1 = x
    BY <1>4
  <1>6. x - 1 \in T
    BY <1>4, <1>5 DEF T
  <1> QED BY <1>3, <1>5, <1>6

LEMMA Ordered ==
  /\ Number \in Nat /\ Order \in [1 .. Number -> Clients]
  /\ \A r \in Clients : \E i \in 1 .. Number : Order[i] = r /\ \A j \in 1 .. Number : Order[j] = r => j = i
  <1>1. Number \in Nat /\ ExistsBijection(1 .. Number, Clients)
    BY ClientsAssumption, FS_CardinalityType DEF ClientsAssumption, Number
  <1>2. PICK e \in Bijection(1 .. Number, Clients) : TRUE
    BY <1>1 DEF ExistsBijection
  <1>3. e \in [1 .. Number -> Clients]
    BY <1>2 DEF Bijection, Injection
  <1>4. ASSUME NEW r \in Clients
        PROVE  \E i \in 1 .. Number : e[i] = r /\ \A j \in 1 .. Number : e[j] = r => j = i
    BY <1>2, <1>3 DEF Bijection, Injection, Surjection, IsInjective
  <1> QED BY <1>1, <1>3, <1>4, ZenonT(40) DEF Order

LEMMA TotalChange ==
  ASSUME NEW f \in [Clients -> Int], NEW g \in [Clients -> Int], NEW r \in Clients,
         \A s \in Clients \ {r} : g[s] = f[s], NEW x \in Int, Total(f, x)
  PROVE  Total(g, x + (g[r] - f[r]))
  <1>1. PICK k \in 1 .. Number : Order[k] = r /\ \A j \in 1 .. Number : Order[j] = r => j = k
    BY Ordered
  <1>2. PICK d \in Int : d = g[r] - f[r]
    OBVIOUS
  <1>3. PICK P \in [0 .. Number -> Int] :
          P[0] = 0 /\ P[Number] = x /\ \A i \in 1 .. Number : P[i] = P[i - 1] + f[Order[i]]
    BY DEF Total
  <1> DEFINE R == [i \in 0 .. Number |-> IF i < k THEN P[i] ELSE P[i] + d]
  <1>4. R \in [0 .. Number -> Int] /\ R[0] = 0 /\ R[Number] = x + d
    <2>1. 0 \in 0 .. Number /\ Number \in 0 .. Number /\ 0 < k /\ ~(Number < k)
      BY Ordered
    <2>2. R[0] = P[0] /\ R[Number] = P[Number] + d
      BY <2>1
    <2>3. R \in [0 .. Number -> Int]
      OBVIOUS
    <2> QED BY <1>3, <2>2, <2>3
  <1>5. ASSUME NEW i \in 1 .. Number PROVE R[i] = R[i - 1] + g[Order[i]]
    <2>1. i - 1 \in 0 .. Number /\ i \in 0 .. Number /\ Order[i] \in Clients
      BY Ordered
    <2>2. P[i] = P[i - 1] + f[Order[i]] /\ P[i] \in Int /\ P[i - 1] \in Int
      BY <1>3, <2>1
    <2>3. f[Order[i]] \in Int /\ g[Order[i]] \in Int /\ f[r] \in Int /\ g[r] \in Int
      BY <2>1
    <2>4. CASE i = k
      <3>1. R[i] = P[i] + d /\ R[i - 1] = P[i - 1]
        BY <2>1, <2>4, Ordered
      <3> HIDE DEF R
      <3> QED BY <1>1, <1>2, <2>2, <2>3, <2>4, <3>1
    <2>5. CASE i # k
      <3>1. g[Order[i]] = f[Order[i]]
        BY <1>1, <2>1, <2>5
      <3>2. CASE i < k
        <4>1. R[i] = P[i] /\ R[i - 1] = P[i - 1]
          BY <2>1, <3>2, Ordered
        <4> QED BY <2>2, <3>1, <4>1
      <3>3. CASE i > k
        <4>1. R[i] = P[i] + d /\ R[i - 1] = P[i - 1] + d
          BY <2>1, <3>3, Ordered
        <4> HIDE DEF R
        <4> QED BY <2>2, <2>3, <3>1, <4>1
      <3> QED BY <2>5, <3>2, <3>3
    <2> QED BY <2>4, <2>5
  <1> HIDE DEF R
  <1> QED BY <1>2, <1>4, <1>5 DEF Total

LEMMA TotalBound ==
  ASSUME NEW f \in [Clients -> Int], NEW g \in [Clients -> Int], NEW x \in Int, NEW y \in Int,
         Total(f, x), Total(g, y), \A s \in Clients : f[s] <= g[s]
  PROVE  x <= y
  <1>1. PICK P \in [0 .. Number -> Int] :
          P[0] = 0 /\ P[Number] = x /\ \A i \in 1 .. Number : P[i] = P[i - 1] + f[Order[i]]
    BY DEF Total
  <1>2. PICK R \in [0 .. Number -> Int] :
          R[0] = 0 /\ R[Number] = y /\ \A i \in 1 .. Number : R[i] = R[i - 1] + g[Order[i]]
    BY DEF Total
  <1> DEFINE S == {i \in Nat : i <= Number => P[i] <= R[i]}
  <1>3. 0 \in S
    BY <1>1, <1>2
  <1>4. ASSUME NEW n \in Nat, n \in S PROVE n + 1 \in S
    <2> SUFFICES ASSUME n + 1 <= Number PROVE P[n + 1] <= R[n + 1]
      OBVIOUS
    <2>1. n + 1 \in 1 .. Number /\ (n + 1) - 1 = n /\ n \in 0 .. Number
      BY Ordered
    <2>2. PICK s \in Clients : s = Order[n + 1]
      BY <2>1, Ordered
    <2>3. P[n + 1] = P[n] + f[s] /\ R[n + 1] = R[n] + g[s]
      BY <1>1, <1>2, <2>1, <2>2
    <2>4. P[n] <= R[n] /\ f[s] <= g[s] /\ P[n] \in Int /\ R[n] \in Int /\ f[s] \in Int /\ g[s] \in Int
      BY <1>4, <2>1
    <2> QED BY <2>3, <2>4
  <1> HIDE DEF S
  <1>5. Number \in S
    BY <1>3, <1>4, Induction, Ordered
  <1> QED BY <1>1, <1>2, <1>5, Ordered DEF S

LEMMA TotalLimit ==
  ASSUME NEW f \in [Clients -> Int], NEW m \in Int, NEW x \in Int,
         Total(f, x), \A s \in Clients : f[s] <= m
  PROVE  x <= Number * m
  <1> DEFINE g == [s \in Clients |-> m]
             R == [i \in 0 .. Number |-> i * m]
  <1>1. \A i \in 0 .. Number : i * m \in Int
    BY Ordered
  <1>2. R \in [0 .. Number -> Int] /\ g \in [Clients -> Int] /\ R[Number] = Number * m /\ Number * m \in Int
    BY <1>1, Ordered
  <1>3. R[0] = 0
    BY Ordered
  <1>4. ASSUME NEW i \in 1 .. Number PROVE R[i] = R[i - 1] + g[Order[i]]
    <2>1. i \in 0 .. Number /\ i - 1 \in 0 .. Number /\ Order[i] \in Clients
      BY Ordered
    <2>2. i * m = (i - 1) * m + m
      BY <2>1
    <2>3. R[i] = i * m /\ R[i - 1] = (i - 1) * m /\ g[Order[i]] = m
      BY <2>1
    <2> QED BY <2>2, <2>3
  <1>5. \A s \in Clients : f[s] <= g[s]
    OBVIOUS
  <1> HIDE DEF g, R
  <1>6. Total(g, Number * m)
    BY <1>2, <1>3, <1>4 DEF Total
  <1> QED BY <1>2, <1>5, <1>6, TotalBound

(* Nothing adds up to nothing.                                             *)
LEMMA TotalZero ==
  ASSUME NEW f, \A s \in Clients : f[s] = 0
  PROVE  Total(f, 0)
  <1> DEFINE P == [i \in 0 .. Number |-> 0]
  <1>1. P \in [0 .. Number -> Int] /\ P[0] = 0 /\ P[Number] = 0
    BY Ordered
  <1>2. \A i \in 1 .. Number : P[i] = P[i - 1] + f[Order[i]]
    <2> TAKE i \in 1 .. Number
    <2>1. P[i] = 0 /\ P[i - 1] = 0 /\ f[Order[i]] = 0
      BY Ordered
    <2> QED BY <2>1
  <1> QED BY <1>1, <1>2 DEF Total

(* One request changes: what was sent, and what may yet be recorded.       *)
LEMMA SentChange ==
  ASSUME NEW f \in [Clients -> Int], NEW g \in [Clients -> Int], NEW r \in Clients,
         \A s \in Clients \ {r} : g[s] = f[s],
         NEW m \in Int, NEW n \in Int, NEW b \in Int, NEW c \in Int,
         m + b + f[r] = n + c + g[r], Total(f, n - b)
  PROVE  Total(g, m - c)
  <1>1. n - b \in Int /\ f[r] \in Int /\ g[r] \in Int
    OBVIOUS
  <1>2. Total(g, (n - b) + (g[r] - f[r]))
    BY <1>1, TotalChange
  <1>3. (n - b) + (g[r] - f[r]) = m - c
    BY <1>1
  <1> QED BY <1>2, <1>3

LEMMA RoomChange ==
  ASSUME NEW f \in [Clients -> Int], NEW g \in [Clients -> Int], NEW r \in Clients,
         \A s \in Clients \ {r} : g[s] = f[s], NEW size \in Nat, \A s \in Clients : g[s] <= size,
         NEW b \in Nat, NEW c \in Nat, NEW max \in Nat,
         c + g[r] <= b + f[r] \/ c < max * size,
         Room(f, b, max, size)
  PROVE  Room(g, c, max, size)
  <1>1. PICK x \in Int : Total(f, x) /\ b + x < (max + Number) * size
    BY DEF Room
  <1>2. f[r] \in Int /\ g[r] \in Int /\ Number \in Nat
    BY Ordered
  <1>3. PICK y \in Int : y = x + (g[r] - f[r]) /\ Total(g, y)
    BY <1>1, <1>2, TotalChange
  <1>4. PICK t \in Nat, p \in Nat, k \in Nat :
          t = (max + Number) * size /\ p = max * size /\ k = Number * size /\ t = p + k
    BY <1>2
  <1>5. CASE c + g[r] <= b + f[r]
    <2>1. c + y < t
      BY <1>1, <1>2, <1>3, <1>4, <1>5
    <2> QED BY <1>3, <1>4, <2>1 DEF Room
  <1>6. CASE c < max * size
    <2>1. y <= k
      BY <1>3, <1>4, TotalLimit
    <2>2. c + y < t
      BY <1>4, <1>6, <2>1
    <2> QED BY <1>3, <1>4, <2>2 DEF Room
  <1> QED BY <1>5, <1>6

-----------------------------------------------------------------------------
(* What was sent, what is recorded and what may yet be.                    *)

SumsTyped ==
  /\ Unrecorded \in [Clients -> Int]
  /\ row # NoRow => Reserved \in [Clients -> Int] /\ row \in Row /\ row.size \in Nat
                    /\ row.bytesServed \in Nat /\ row.maxDownloads \in Nat
  /\ \A r \in Clients : q[r] \in Req /\ q[r].n \in Nat
  /\ \A r \in Clients : Unrecorded[r] = IF q[r].pc = "record" THEN q[r].n ELSE 0
  /\ \A r \in Clients : Reserved[r] = IF Admitted(r) THEN row.size ELSE 0

LEMMA SumTypes == TypeOK => SumsTyped
  <1> SUFFICES ASSUME TypeOK PROVE SumsTyped
    OBVIOUS
  <1>1. \A r \in Clients : q[r] \in Req /\ q[r].n \in Nat
    BY DEF TypeOK, Req
  <1>2. row # NoRow => row \in Row /\ row.size \in Nat /\ row.bytesServed \in Nat /\ row.maxDownloads \in Nat
    BY DEF TypeOK, Row
  <1>3. Unrecorded \in [Clients -> Int]
    BY <1>1 DEF Unrecorded
  <1>4. row # NoRow => Reserved \in [Clients -> Int]
    BY <1>2 DEF Reserved
  <1>5. \A r \in Clients : Unrecorded[r] = IF q[r].pc = "record" THEN q[r].n ELSE 0
    BY DEF Unrecorded
  <1>6. \A r \in Clients : Reserved[r] = IF Admitted(r) THEN row.size ELSE 0
    BY DEF Reserved
  <1> QED BY <1>1, <1>2, <1>3, <1>4, <1>5, <1>6 DEF SumsTyped

LEMMA SumTypesNext == TypeOK' => SumsTyped'
  BY SumTypes, PTL

(* An upload that is not exhausted has served less than its allowance.     *)
LEMMA UnderAllowance ==
  ASSUME NEW b \in Nat, NEW s \in Nat, s > 0, NEW m \in Nat, b \div s < m
  PROVE  b < m * s
  <1>1. PICK k \in Nat, x \in Nat : k = b \div s /\ x < s /\ b = x + k * s
    <2>1. b \div s \in Nat /\ b % s \in Nat /\ b % s < s /\ b = (b % s) + (b \div s) * s
      BY SMT
    <2> QED BY <2>1, Zenon
  <1>2. PICK j \in Nat : m = (k + 1) + j
    <2>1. m - (k + 1) \in Nat /\ m = (k + 1) + (m - (k + 1))
      BY <1>1
    <2> QED BY <2>1
  <1>3. m * s = k * s + s + j * s /\ k * s \in Nat /\ j * s \in Nat
    BY <1>2
  <1> QED BY <1>1, <1>3

LEMMA AccountMoves ==
  ASSUME TypeOK, TypeOK', Account, NEW r \in Clients, \A s \in Clients \ {r} : q'[s] = q[s],
         (row' = NoRow) = (row = NoRow),
         row # NoRow => /\ row'.size = row.size /\ row'.completedAt = row.completedAt
                        /\ row'.maxDownloads = row.maxDownloads,
         Undisturbed' => Undisturbed, left => left',
         row # NoRow /\ Complete(row) /\ Undisturbed' /\ ~left' =>
           /\ sent' + row.bytesServed + Unrecorded[r] = sent + row'.bytesServed + Unrecorded'[r]
           /\ row.size > 0 =>
                \/ row'.bytesServed + Reserved'[r] <= row.bytesServed + Reserved[r]
                \/ row'.bytesServed < row.maxDownloads * row.size
  PROVE  Account'
  <1> SUFFICES ASSUME row' # NoRow, Complete(row'), Undisturbed', ~left'
               PROVE  /\ Total(Unrecorded', sent' - row'.bytesServed)
                      /\ row'.size > 0 =>
                           Room(Reserved', row'.bytesServed, row'.maxDownloads, row'.size)
    BY DEF Account
  <1>1. row # NoRow /\ Complete(row) /\ Undisturbed /\ ~left
    BY DEF Complete
  <1>2. SumsTyped /\ SumsTyped'
    BY SumTypes, SumTypesNext
  <1>3. PICK f \in [Clients -> Int], g \in [Clients -> Int] : f = Unrecorded /\ g = Unrecorded'
    BY <1>2 DEF SumsTyped
  <1>4. PICK u \in [Clients -> Int], v \in [Clients -> Int] : u = Reserved /\ v = Reserved'
    BY <1>1, <1>2 DEF SumsTyped
  <1>5. PICK size \in Nat, max \in Nat, b \in Nat, c \in Nat :
          /\ size = row.size /\ size = row'.size /\ max = row.maxDownloads /\ max = row'.maxDownloads
          /\ b = row.bytesServed /\ c = row'.bytesServed
    BY <1>1, <1>2 DEF SumsTyped
  <1>6. \A s \in Clients \ {r} : g[s] = f[s]
    <2> TAKE s \in Clients \ {r}
    <2>1. g[s] = IF q'[s].pc = "record" THEN q'[s].n ELSE 0
      BY <1>3 DEF Unrecorded
    <2>2. f[s] = IF q[s].pc = "record" THEN q[s].n ELSE 0
      BY <1>3 DEF Unrecorded
    <2> QED BY <2>1, <2>2
  <1>7. \A s \in Clients : v[s] = (IF Admitted(s)' THEN size ELSE 0) /\ u[s] = (IF Admitted(s) THEN size ELSE 0)
    BY <1>4, <1>5 DEF Reserved
  <1>8. \A s \in Clients \ {r} : v[s] = u[s]
    <2> TAKE s \in Clients \ {r}
    <2>1. Admitted(s)' <=> Admitted(s)
      BY DEF Admitted
    <2> QED BY <1>7, <2>1
  <1>9. \A s \in Clients : v[s] <= size
    BY <1>7
  <1>10. PICK m \in Int, n \in Int : m = sent' /\ n = sent
    BY DEF TypeOK
  <1>11. m + b + f[r] = n + c + g[r] /\ Total(f, n - b)
    <2>1. m + b + f[r] = n + c + g[r]
      BY <1>1, <1>3, <1>5, <1>10
    <2>2. Total(f, n - b)
      BY <1>1, <1>3, <1>5, <1>10 DEF Account
    <2> QED BY <2>1, <2>2
  <1>12. Total(g, m - c)
    <2>1. b \in Int /\ c \in Int
      OBVIOUS
    <2>2. m + b + f[r] = n + c + g[r]
      BY <1>11
    <2>3. Total(f, n - b)
      BY <1>11
    <2> QED BY <1>6, <2>1, <2>2, <2>3, SentChange, ZenonT(40)
  <1>13. ASSUME size > 0
         PROVE  Room(v, c, max, size)
    <2>1. Room(u, b, max, size)
      BY <1>1, <1>4, <1>5, <1>13 DEF Account
    <2>2. c + v[r] <= b + u[r] \/ c < max * size
      BY <1>1, <1>4, <1>5, <1>13
    <2> QED BY <1>8, <1>9, <2>1, <2>2, RoomChange
  <1> QED BY <1>3, <1>4, <1>5, <1>10, <1>12, <1>13

-----------------------------------------------------------------------------
(* The steps of a request, as the limit sees them.                         *)

SentFrom(r, n) ==
  /\ q[r].pc = "serve" /\ n <= q[r].len /\ q'[r].pc = "record" /\ q'[r].n = n
  /\ q'[r].kind = q[r].kind /\ sent' = sent + n /\ UNCHANGED <<row, left>>

Aside(r) ==
  /\ UNCHANGED <<row, sent, left>> /\ q[r].pc # "record" /\ q'[r].pc # "record"
  /\ q'[r].pc = "open" => q'[r].kind = "download"
  /\ q'[r].pc = "serve" => q[r].pc = "open" /\ q'[r].kind = q[r].kind /\ q'[r].len = final
  /\ Admitted(r)' => Admitted(r) \/ Reachable

LEMMA RequestEffect ==
  ASSUME TypeOK, NEW r \in Clients, Request(r)
  PROVE  RecordServed(r) \/ (\E n \in Nat : SentFrom(r, n)) \/ Aside(r)
  <1>0. q \in [Clients -> Req] /\ q[r] \in Req /\ MaxSize \in Nat /\ sent \in Nat
    BY CompatAssumption DEF TypeOK, CompatAssumption
  <1>1. ASSUME End(r), UNCHANGED <<row, sent, left>>, q[r].pc # "record" PROVE Aside(r)
    <2>1. q'[r].pc = "idle"
      BY <1>0, <1>1 DEF End, Idle
    <2> QED BY <1>1, <2>1 DEF Aside, Admitted
  <1>2. ASSUME NEW pc, Step(r, pc) PROVE q'[r].pc = pc /\ q'[r].kind = q[r].kind
    <2>1. q'[r] = [q[r] EXCEPT !.pc = pc]
      BY <1>0, <1>2 DEF Step
    <2> QED BY <1>0, <2>1 DEF Req
  <1>3. CASE ReadCompat(r)
    <2>1. q[r].pc = "compat" /\ UNCHANGED <<row, sent, left>>
      BY <1>3 DEF ReadCompat, tables
    <2>2. CASE q' = [q EXCEPT ![r] = [q[r] EXCEPT !.pc = "get", !.nonce = cred.nonce]]
      <3>1. q'[r] = [q[r] EXCEPT !.pc = "get", !.nonce = cred.nonce]
        BY <1>0, <2>2
      <3>2. q'[r].pc = "get"
        BY <1>0, <3>1 DEF Req
      <3> QED BY <2>1, <3>2 DEF Aside, Admitted
    <2>3. CASE Step(r, "rotate")
      <3>1. q'[r].pc = "rotate" /\ q'[r].kind = q[r].kind
        BY <1>2, <2>3
      <3> QED BY <2>1, <3>1 DEF Aside, Admitted
    <2> QED BY <1>1, <1>3, <2>1, <2>2, <2>3 DEF ReadCompat
  <1>4. CASE RotateCompatNonce(r)
    <2>1. q[r].pc = "rotate" /\ UNCHANGED <<row, sent, left>>
      BY <1>4 DEF RotateCompatNonce
    <2>2. CASE Authenticated(r)
      <3>1. q'[r] = [q[r] EXCEPT !.pc = IF q[r].kind = "download" THEN "open" ELSE "get", !.authed = TRUE]
        BY <1>0, <2>2 DEF Authenticated
      <3>2. q'[r].pc = (IF q[r].kind = "download" THEN "open" ELSE "get") /\ q'[r].kind = q[r].kind
        BY <1>0, <3>1 DEF Req
      <3> QED BY <2>1, <3>2 DEF Aside, Admitted
    <2> QED BY <1>1, <1>4, <2>1, <2>2 DEF RotateCompatNonce
  <1>5. CASE Get(r)
    <2>1. q[r].pc = "get" /\ UNCHANGED <<row, sent, left>>
      BY <1>5 DEF Get, tables
    <2>2. CASE Step(r, "password")
      <3>1. q'[r].pc = "password"
        BY <1>2, <2>2
      <3> QED BY <2>1, <3>1 DEF Aside, Admitted
    <2>3. ASSUME NEW pc \in {"compat", "open"}, Step(r, pc), Reachable, q[r].kind = "download" PROVE Aside(r)
      <3>1. q'[r].pc = pc /\ q'[r].kind = q[r].kind
        BY <1>2, <2>3
      <3> QED BY <2>1, <2>3, <3>1 DEF Aside, Admitted
    <2> QED BY <1>1, <1>5, <2>1, <2>2, <2>3 DEF Get
  <1>6. CASE SetCompatPassword(r)
    BY <1>1, <1>6 DEF SetCompatPassword
  <1>7. CASE OpenContent(r)
    <2>1. q[r].pc = "open" /\ UNCHANGED <<row, sent, left>>
      BY <1>7 DEF OpenContent, tables, history
    <2>2. CASE q' = [q EXCEPT ![r] = [q[r] EXCEPT !.pc = "serve", !.len = final]]
      <3>1. q'[r] = [q[r] EXCEPT !.pc = "serve", !.len = final]
        BY <1>0, <2>2
      <3>2. q'[r].pc = "serve" /\ q'[r].kind = q[r].kind /\ q'[r].len = final
        BY <1>0, <3>1 DEF Req
      <3> QED BY <2>1, <3>2 DEF Aside, Admitted
    <2> QED BY <1>1, <1>7, <2>1, <2>2 DEF OpenContent
  <1>8. ASSUME NEW n \in 0 .. MaxSize, NEW gone \in BOOLEAN, Serve(r, n, gone)
        PROVE  SentFrom(r, n) \/ Aside(r)
    <2>1. q[r].pc = "serve" /\ n <= q[r].len /\ sent' = sent + n /\ UNCHANGED <<row, left>>
      BY <1>8 DEF Serve, tables
    <2>2. CASE n = 0
      <3>1. End(r) /\ sent' = sent
        BY <1>0, <1>8, <2>1, <2>2 DEF Serve
      <3> QED BY <1>1, <2>1, <3>1
    <2>3. CASE n # 0
      <3>1. q'[r] = [q[r] EXCEPT !.pc = "record", !.n = n, !.gone = gone]
        BY <1>0, <1>8, <2>3 DEF Serve
      <3>2. q'[r].pc = "record" /\ q'[r].n = n /\ q'[r].kind = q[r].kind
        BY <1>0, <3>1 DEF Req
      <3> QED BY <2>1, <3>2 DEF SentFrom
    <2> QED BY <2>2, <2>3
  <1>9. \A n \in 0 .. MaxSize : n \in Nat
    BY <1>0
  <1> QED BY <1>3, <1>4, <1>5, <1>6, <1>7, <1>8, <1>9 DEF Request

(* The accounting of n blocks.                                             *)
LEMMA ServedCounts ==
  ASSUME NEW u \in Row, NEW n \in Nat
  PROVE  /\ Served(u, n).bytesServed = u.bytesServed + n /\ Served(u, n).maxDownloads = u.maxDownloads
         /\ u.size > 0 => Served(u, n).downloadCount = (u.bytesServed + n) \div u.size
  BY DEF Served, Row

LEMMA RequestTerms ==
  ASSUME FileInv, ServedTerms, NEW r \in Clients, Request(r)
  PROVE  ServedTerms'
  <1>0. /\ TypeOK /\ TypeInv /\ FinishedWhole /\ NoRow \notin Row
        /\ \A s \in Clients : q[s] \in Req /\ q[s].n \in Nat
    BY CompatAssumption DEF FileInv, TypeInv, CompatAssumption, TypeOK, Req
  <1>1. /\ UNCHANGED <<final, up>> /\ (row' = NoRow) = (row = NoRow)
        /\ row # NoRow => row'.size = row.size /\ row'.completedAt = row.completedAt
    BY <1>0, RequestFrame
  <1>2. \A s \in Clients \ {r} : q'[s] = q[s]
    BY <1>0 DEF Request, ReadCompat, RotateCompatNonce, Get, SetCompatPassword, OpenContent,
       Serve, RecordServed, End, Step, Authenticated, TypeOK
  <1>3. ASSUME NEW s \in Clients, s # r
        PROVE  /\ q'[s].pc \in {"open", "serve", "record"} => q'[s].kind = "download"
               /\ q'[s].pc = "serve" /\ row' # NoRow => q'[s].len = row'.size
               /\ q'[s].pc = "record" /\ row' # NoRow => q'[s].n <= row'.size
               /\ Admitted(s)' <=> Admitted(s)
    BY <1>1, <1>2, <1>3 DEF ServedTerms, Admitted
  <1>4. /\ q[r].pc \in {"open", "serve", "record"} => Admitted(r) /\ q[r].kind = "download"
        /\ row # NoRow /\ Admitted(r) => Complete(row)
    BY DEF ServedTerms, Admitted
  <1>5. up.pc # "new"
    <2>1. CASE up.pc = "new"
      <3>1. q[r].pc = "idle"
        BY <2>1 DEF FileInv, Unopened, Idle
      <3> QED BY <3>1 DEF Request, ReadCompat, RotateCompatNonce, Get, SetCompatPassword, OpenContent,
         Serve, RecordServed
    <2> QED BY <2>1
  <1>6. CASE RecordServed(r)
    <2>1. q[r].pc = "record" /\ q'[r].pc = "idle" /\ UNCHANGED sent
      BY <1>0, <1>6 DEF RecordServed, End, Idle, TypeOK
    <2>2. row # NoRow => Complete(row) /\ Complete(row')
      BY <1>1, <1>4, <2>1 DEF Complete
    <2>3. row # NoRow => /\ row'.maxDownloads >= 1
                         /\ row'.size > 0 => row'.downloadCount = row'.bytesServed \div row'.size
      <3>1. CASE UNCHANGED row
        BY <2>2, <3>1 DEF ServedTerms
      <3>2. CASE row # NoRow /\ row' = Served(row, q[r].n)
        <4>1. row \in Row /\ q[r].n \in Nat
          BY <1>0, <3>2 DEF TypeOK
        <4>2. /\ row'.bytesServed = row.bytesServed + q[r].n /\ row'.maxDownloads = row.maxDownloads
              /\ row.size > 0 => row'.downloadCount = (row.bytesServed + q[r].n) \div row.size
          BY <3>2, <4>1, ServedCounts
        <4> QED BY <1>1, <3>2, <4>2 DEF ServedTerms
      <3> QED BY <1>6, <3>1, <3>2 DEF RecordServed
    <2> QED BY <1>1, <1>3, <1>5, <2>1, <2>2, <2>3 DEF ServedTerms
  <1>7. ASSUME NEW n \in Nat, SentFrom(r, n) PROVE ServedTerms'
    <2>1. /\ q'[r].pc = "record" /\ q'[r].n = n /\ q'[r].kind = "download" /\ UNCHANGED row
          /\ row # NoRow => Complete(row) /\ n <= row.size
      BY <1>4, <1>7 DEF SentFrom, ServedTerms
    <2> QED BY <1>1, <1>3, <1>5, <2>1 DEF ServedTerms
  <1>8. CASE Aside(r)
    <2>1. /\ UNCHANGED <<row, sent>> /\ q'[r].pc # "record"
          /\ q'[r].pc \in {"open", "serve"} => q'[r].kind = "download"
      BY <1>4, <1>8 DEF Aside
    <2>2. q'[r].pc = "serve" /\ row # NoRow => q'[r].len = row.size
      BY <1>0, <1>4, <1>8 DEF Aside, FinishedWhole
    <2>3. row # NoRow /\ ~Complete(row) => ~Admitted(r)'
      BY <1>4, <1>8 DEF Aside, Reachable, Live
    <2> QED BY <1>1, <1>3, <1>5, <2>1, <2>2, <2>3 DEF ServedTerms
  <1> QED BY <1>0, <1>6, <1>7, <1>8, RequestEffect

LEMMA RequestAccount ==
  ASSUME FileInv, ServedTerms, Account, NEW r \in Clients, Request(r)
  PROVE  Account'
  <1>0. TypeOK /\ TypeInv /\ TypeOK' /\ NoRow \notin Row
    BY CompatAssumption, RequestType DEF FileInv, TypeInv, CompatAssumption
  <1>1. /\ (row' = NoRow) = (row = NoRow)
        /\ row # NoRow => row'.size = row.size /\ row'.completedAt = row.completedAt
    BY <1>0, RequestFrame
  <1>2. \A s \in Clients \ {r} : q'[s] = q[s]
    BY <1>0 DEF Request, ReadCompat, RotateCompatNonce, Get, SetCompatPassword, OpenContent,
       Serve, RecordServed, End, Step, Authenticated, TypeOK
  <1>3. SumsTyped /\ SumsTyped'
    BY <1>0, SumTypes, SumTypesNext
  <1>4. Undisturbed' => Undisturbed
    <2>1. UNCHANGED crashes /\ (UNCHANGED faults \/ Fault)
      BY <1>0, RequestFrame
    <2> QED BY <1>0, <2>1, FaultDisturbs DEF Undisturbed
  <1>5. CASE RecordServed(r)
    <2>1. q[r].pc = "record" /\ q'[r].pc = "idle" /\ UNCHANGED sent
      BY <1>0, <1>5 DEF RecordServed, End, Idle, TypeOK
    <2>2. /\ Unrecorded[r] = q[r].n /\ Unrecorded'[r] = 0 /\ Reserved'[r] = 0 /\ q[r].n \in Nat
          /\ Reserved[r] = row.size
      BY <1>3, <2>1 DEF SumsTyped, Admitted, ServedTerms
    <2>3. (left => left') /\ (row # NoRow => row'.maxDownloads = row.maxDownloads)
      BY <1>0, <1>3, <1>5, ServedCounts DEF RecordServed, SumsTyped
    <2>4. ASSUME row # NoRow, Undisturbed', ~left'
          PROVE  row'.bytesServed = row.bytesServed + q[r].n /\ q[r].n <= row.size /\ row.size \in Nat
                 /\ row.bytesServed \in Nat
      BY <1>0, <1>3, <1>5, <2>1, <2>4, FaultDisturbs, ServedCounts DEF RecordServed, SumsTyped, ServedTerms
    <2>5. ASSUME row # NoRow, Undisturbed', ~left'
          PROVE  /\ sent' + row.bytesServed + Unrecorded[r] = sent + row'.bytesServed + Unrecorded'[r]
                 /\ row'.bytesServed + Reserved'[r] <= row.bytesServed + Reserved[r]
      BY <1>0, <2>1, <2>2, <2>4, <2>5 DEF TypeOK
    <2> QED BY <1>0, <1>1, <1>2, <1>4, <2>3, <2>5, AccountMoves
  <1>6. ASSUME NEW n \in Nat, SentFrom(r, n) PROVE Account'
    <2>1. /\ q[r].pc = "serve" /\ q'[r].pc = "record" /\ q'[r].n = n /\ UNCHANGED <<row, left>>
          /\ q[r].kind = "download" /\ q'[r].kind = "download" /\ sent' = sent + n
      BY <1>6 DEF SentFrom, ServedTerms
    <2>2. /\ Unrecorded[r] = 0 /\ Unrecorded'[r] = n /\ Reserved'[r] = row.size
          /\ Reserved[r] = row.size
      BY <1>3, <2>1 DEF SumsTyped, Admitted
    <2>3. ASSUME row # NoRow
          PROVE  /\ sent' + row.bytesServed + Unrecorded[r] = sent + row'.bytesServed + Unrecorded'[r]
                 /\ row'.bytesServed + Reserved'[r] <= row.bytesServed + Reserved[r]
      BY <1>0, <1>3, <2>1, <2>2, <2>3 DEF TypeOK, SumsTyped
    <2> QED BY <1>0, <1>1, <1>2, <1>4, <2>1, <2>3, AccountMoves
  <1>7. CASE Aside(r)
    <2>1. /\ UNCHANGED <<row, sent, left>> /\ Unrecorded[r] = 0 /\ Unrecorded'[r] = 0
          /\ Reserved[r] = (IF Admitted(r) THEN row.size ELSE 0)
          /\ Reserved'[r] = (IF Admitted(r)' THEN row.size ELSE 0)
      BY <1>3, <1>7 DEF SumsTyped, Aside
    <2>2. ASSUME row # NoRow, Complete(row)
          PROVE  /\ sent' + row.bytesServed + Unrecorded[r] = sent + row'.bytesServed + Unrecorded'[r]
                 /\ row.size > 0 =>
                      \/ row'.bytesServed + Reserved'[r] <= row.bytesServed + Reserved[r]
                      \/ row'.bytesServed < row.maxDownloads * row.size
      <3>1. row.size \in Nat /\ row.bytesServed \in Nat /\ row.maxDownloads \in Nat
        BY <1>3, <2>2 DEF SumsTyped
      <3>2. CASE Admitted(r)' => Admitted(r)
        BY <1>0, <2>1, <3>1, <3>2 DEF TypeOK
      <3>3. CASE Reachable
        <4>1. ASSUME row.size > 0 PROVE row.bytesServed < row.maxDownloads * row.size
          <5>1. row.downloadCount < row.maxDownloads
            BY <1>0, <2>2, <3>1, <3>3 DEF Reachable, Live, Exhausted, ServedTerms, TypeOK, Row
          <5>2. row.bytesServed \div row.size < row.maxDownloads
            BY <2>2, <4>1, <5>1 DEF ServedTerms
          <5> QED BY <3>1, <4>1, <5>2, UnderAllowance
        <4> QED BY <1>0, <2>1, <3>1, <4>1 DEF TypeOK
      <3> QED BY <1>7, <3>2, <3>3 DEF Aside
    <2> QED BY <1>0, <1>1, <1>2, <1>4, <2>1, <2>2, AccountMoves
  <1> QED BY <1>0, <1>5, <1>6, <1>7, RequestEffect

-----------------------------------------------------------------------------
(* The other steps, and the limit.                                         *)

(* The sums are of the requests, which only their own steps change.        *)
LEMMA LimitStays ==
  ASSUME TypeOK, ServedTerms, Account, UNCHANGED <<q, sent, left>>,
         row' = NoRow \/ UNCHANGED row, up.pc # "new" => up'.pc # "new",
         Undisturbed' => Undisturbed
  PROVE  ServedTerms' /\ Account'
  <1>1. CASE row' = NoRow
    BY <1>1 DEF ServedTerms, Account
  <1>2. CASE UNCHANGED row
    <2>1. \A r \in Clients : Admitted(r)' <=> Admitted(r)
      BY DEF Admitted
    <2>2. ServedTerms'
      BY <1>2, <2>1 DEF ServedTerms
    <2>3. Unrecorded' = Unrecorded /\ Reserved' = Reserved
      BY <1>2 DEF Unrecorded, Reserved, Admitted
    <2> QED BY <1>2, <2>2, <2>3 DEF Account
  <1> QED BY <1>1, <1>2

LEMMA SocketLimit ==
  ASSUME FileInv, ServedTerms, Account, Socket
  PROVE  ServedTerms' /\ Account'
  <1>0. TypeOK /\ Unopened /\ SocketOK /\ NoRow \notin Row /\ TypeOK'
    BY CompatAssumption, SocketType DEF FileInv, TypeInv, CompatAssumption
  <1>1. /\ UNCHANGED <<q, sent, left, now, crashes>> /\ (UNCHANGED faults \/ Fault) /\ up'.pc # "new"
    BY <1>0 DEF Socket, CreateCompat, SendLink, ReceiveFrame, EndOfFile, FinishBlob, FinishCompat,
       GiveUp, TypeOK, clock, history
  <1>2. Undisturbed' => Undisturbed
    BY <1>0, <1>1, FaultDisturbs DEF Undisturbed
  <1>3. CASE UNCHANGED row
    BY <1>0, <1>1, <1>2, <1>3, LimitStays
  <1>4. ASSUME NEW t \in TimeLimits, NEW l \in Limits, CreateCompat(t, l),
               Insert(Duration(t), downloadLimit(l))
        PROVE  ServedTerms' /\ Account'
    <2>1. up.pc = "new" /\ \A r \in Clients : q[r] = Idle
      BY <1>0, <1>4 DEF CreateCompat, Unopened
    <2>2. sent = 0 /\ \A r \in Clients : q'[r].pc = "idle"
      BY <1>1, <2>1 DEF ServedTerms, Idle
    <2>3. l \in Int /\ downloadLimit(l) \in Nat \ {0}
      BY CompatAssumption DEF CompatAssumption, downloadLimit
    <2>4. /\ row'.completedAt = NoTime /\ row'.bytesServed = 0 /\ row'.downloadCount = 0
          /\ row'.maxDownloads = downloadLimit(l)
      BY <1>4, <2>3 DEF Insert, NewRow, Absent
    <2>5. ~Complete(row') /\ row'.maxDownloads >= 1
      BY <2>3, <2>4 DEF Complete
    <2> QED BY <1>1, <2>2, <2>4, <2>5 DEF ServedTerms, Account, Admitted
  <1>5. ASSUME FinishCompat, row # NoRow, ~Complete(row),
               row' = [row EXCEPT !.size = up.off, !.completedAt = now]
        PROVE  ServedTerms' /\ Account'
    <2>1. /\ row \in Row /\ row' # NoRow /\ up.off \in Nat /\ now # 0
          /\ row'.size = up.off /\ row'.completedAt = now
          /\ row'.bytesServed = row.bytesServed /\ row'.downloadCount = row.downloadCount
          /\ row'.maxDownloads = row.maxDownloads
      BY <1>0, <1>5 DEF TypeOK, Row
    <2>2. sent = 0 /\ row.bytesServed = 0 /\ row.downloadCount = 0 /\ row.maxDownloads >= 1
          /\ row.maxDownloads \in Nat
      BY <1>5, <2>1 DEF ServedTerms, Row
    <2>3. ASSUME NEW r \in Clients PROVE q'[r].pc \notin {"open", "serve", "record"} /\ ~Admitted(r)'
      BY <1>1, <1>5 DEF ServedTerms, Admitted
    <2>4. Complete(row')
      BY <2>1 DEF Complete, NoTime
    <2>5. ServedTerms'
      <3>1. row'.size > 0 => row'.downloadCount = row'.bytesServed \div row'.size
        <4>1. \A k \in Nat : k > 0 => 0 \div k = 0
          OBVIOUS
        <4> QED BY <2>1, <2>2, <4>1
      <3> QED BY <1>1, <2>1, <2>2, <2>3, <2>4, <3>1 DEF ServedTerms
    <2>6. (\A r \in Clients : Unrecorded'[r] = 0) /\ (\A r \in Clients : Reserved'[r] = 0)
      BY <2>3 DEF Unrecorded, Reserved
    <2>7. Total(Unrecorded', 0) /\ Total(Reserved', 0)
      BY <2>6, TotalZero
    <2>8. sent' - row'.bytesServed = 0
      BY <1>1, <2>1, <2>2
    <2>9. ASSUME row'.size > 0
          PROVE  Room(Reserved', row'.bytesServed, row'.maxDownloads, row'.size)
      <3>1. \A m, k, s \in Nat : m >= 1 /\ s > 0 => 0 < (m + k) * s
        OBVIOUS
      <3>2. 0 < (row'.maxDownloads + Number) * row'.size
        BY <2>1, <2>2, <2>9, <3>1, Ordered
      <3>3. row'.bytesServed + 0 = 0 /\ 0 \in Int
        BY <2>1, <2>2
      <3> QED BY <2>7, <3>2, <3>3 DEF Room
    <2> QED BY <2>5, <2>7, <2>8, <2>9 DEF Account
  <1>6. \/ UNCHANGED row
        \/ /\ FinishCompat /\ row # NoRow /\ ~Complete(row)
           /\ row' = [row EXCEPT !.size = up.off, !.completedAt = now]
        \/ \E t \in TimeLimits, l \in Limits :
             CreateCompat(t, l) /\ Insert(Duration(t), downloadLimit(l))
    BY DEF Socket, CreateCompat, SendLink, ReceiveFrame, EndOfFile, FinishBlob, FinishCompat, tables
  <1> QED BY <1>3, <1>4, <1>5, <1>6

LEMMA BeginLimit ==
  ASSUME FileInv, ServedTerms, Account, NEW r \in Clients, NEW kind \in Kinds,
         NEW auth \in Authenticators(kind), Begin(r, kind, auth)
  PROVE  ServedTerms' /\ Account'
  <1>0. TypeOK /\ TypeOK' /\ q'[r].pc \in {"get", "compat"} /\ q'[r].kind = kind
    BY BeginType DEF FileInv, TypeInv
  <1>1. /\ q[r].pc = "idle" /\ UNCHANGED <<row, sent, left, up, faults, crashes>>
        /\ \A s \in Clients \ {r} : q'[s] = q[s]
    BY <1>0 DEF Begin, TypeOK, clock, tables, history
  <1>2. ~Admitted(r) /\ ~Admitted(r)' /\ q'[r].pc \notin {"open", "serve", "record"}
    <2>1. kind = "download" => q'[r].pc = "get"
      BY <1>0 DEF Begin, Idle, TypeOK
    <2> QED BY <1>0, <1>1, <2>1 DEF Admitted
  <1>3. ServedTerms'
    <2>1. \A s \in Clients \ {r} : Admitted(s)' <=> Admitted(s)
      BY <1>1 DEF Admitted
    <2> QED BY <1>1, <1>2, <2>1 DEF ServedTerms
  <1>4. SumsTyped /\ SumsTyped'
    BY <1>0, SumTypes, SumTypesNext
  <1>5. Unrecorded[r] = 0 /\ Unrecorded'[r] = 0 /\ Reserved[r] = 0 /\ Reserved'[r] = 0
    BY <1>1, <1>2, <1>4 DEF SumsTyped
  <1>6. ASSUME row # NoRow
        PROVE  /\ sent' + row.bytesServed + Unrecorded[r] = sent + row'.bytesServed + Unrecorded'[r]
               /\ row'.bytesServed + Reserved'[r] <= row.bytesServed + Reserved[r]
    BY <1>0, <1>1, <1>4, <1>5, <1>6 DEF TypeOK, SumsTyped
  <1>7. Undisturbed' => Undisturbed
    BY <1>1 DEF Undisturbed
  <1> QED BY <1>0, <1>1, <1>3, <1>6, <1>7, AccountMoves

LEMMA LimitStep == LimitInv /\ [Next]_vars => LimitInv'
  <1> SUFFICES ASSUME LimitInv, [Next]_vars PROVE LimitInv'
    OBVIOUS
  <1>0. FileInv /\ ServedTerms /\ Account /\ TypeOK /\ Unopened /\ FileInv'
    BY FileStep DEF LimitInv, FileInv, TypeInv
  <1>1. CASE Socket
    BY <1>0, <1>1, SocketLimit DEF LimitInv
  <1>2. CASE Remove("abandon") \/ Reaper
    <2>1. UNCHANGED <<q, sent, left, up, crashes>> /\ (UNCHANGED faults \/ Fault)
          /\ (row' = NoRow \/ UNCHANGED row)
      BY <1>2 DEF Reaper, ReapList, Checkpoint, Remove, DeleteRow, DeleteFinal, DeletePartial, tables,
         history, clock
    <2>2. Undisturbed' => Undisturbed
      BY <1>0, <2>1, FaultDisturbs DEF Undisturbed
    <2> QED BY <1>0, <2>1, <2>2, LimitStays DEF LimitInv
  <1>3. ASSUME NEW r \in Clients, NEW kind \in Kinds, NEW auth \in Authenticators(kind),
               Begin(r, kind, auth)
        PROVE  LimitInv'
    BY <1>0, <1>3, BeginLimit DEF LimitInv
  <1>4. ASSUME NEW r \in Clients, Request(r) PROVE LimitInv'
    BY <1>0, <1>4, RequestTerms, RequestAccount DEF LimitInv
  <1>5. CASE Tick \/ UNCHANGED vars
    <2>1. UNCHANGED <<q, sent, left, up, crashes, faults, row>>
      BY <1>5 DEF Tick, vars, tables, history
    <2> QED BY <1>0, <2>1, LimitStays DEF LimitInv, Undisturbed
  <1>6. CASE Crash
    <2>1. UNCHANGED <<row, sent>> /\ up'.pc = "end" /\ ~Undisturbed'
      BY <1>0, <1>6 DEF Crash, TypeOK, Undisturbed, tables, history
    <2>2. \A r \in Clients : q'[r].pc = "idle"
      BY <1>6 DEF Crash, Idle
    <2>3. ServedTerms' /\ Account'
      BY <1>0, <2>1, <2>2 DEF ServedTerms, Account, Admitted
    <2> QED BY <1>0, <2>3 DEF LimitInv
  <1> QED BY <1>1, <1>2, <1>3, <1>4, <1>5, <1>6 DEF Next

(* As long as every client stays for its answer and nothing fails, what    *)
(* was sent stays below the limit and one file for each request that may   *)
(* overlap: a download is admitted on a count that leaves out what is      *)
(* being sent, and there are no more such downloads than requests.         *)
THEOREM LimitKept == Spec => []LimitHolds
  <1>1. Init => LimitInv
    <2> SUFFICES ASSUME Init PROVE LimitInv
      OBVIOUS
    <2>1. TypeInv
      BY InitType DEF Init, TypeInv, PasswordRequests, Idle
    <2>2. FileInv
      BY <2>1 DEF Init, FileInv, Unopened, SocketOK, InProgress, RowFirst, FinishedWhole, StillRemoving
    <2>3. ServedTerms /\ Account
      BY DEF Init, Idle, ServedTerms, Account
    <2> QED BY <2>2, <2>3 DEF LimitInv
  <1>2. LimitInv => LimitHolds
    <2> SUFFICES ASSUME LimitInv, row # NoRow, Complete(row), Undisturbed, ~left, final # 0
                 PROVE  sent < (row.maxDownloads + Cardinality(Clients)) * final
      BY DEF LimitHolds
    <2>0. TypeOK /\ ServedTerms /\ Account /\ final = row.size
      BY DEF LimitInv, FileInv, TypeInv, FinishedWhole
    <2>1. SumsTyped /\ Number \in Nat
      BY <2>0, SumTypes, Ordered
    <2>2. PICK size \in Nat, max \in Nat, b \in Nat, m \in Nat :
            size = row.size /\ max = row.maxDownloads /\ b = row.bytesServed /\ m = sent
      BY <2>0, <2>1 DEF SumsTyped, TypeOK
    <2>3. PICK f \in [Clients -> Int], g \in [Clients -> Int] : f = Unrecorded /\ g = Reserved
      BY <2>1 DEF SumsTyped
    <2>4. Total(f, m - b) /\ Room(g, b, max, size)
      BY <2>0, <2>2, <2>3 DEF Account
    <2>5. PICK x \in Int : Total(g, x) /\ b + x < (max + Number) * size
      BY <2>4 DEF Room
    <2>6. \A r \in Clients : f[r] <= g[r]
      <3> TAKE r \in Clients
      <3>1. q[r].n \in Nat /\ (q[r].pc = "record" => Admitted(r) /\ q[r].n <= size)
        BY <2>0, <2>1, <2>2 DEF SumsTyped, ServedTerms, Admitted
      <3>2. f[r] = (IF q[r].pc = "record" THEN q[r].n ELSE 0) /\ g[r] = (IF Admitted(r) THEN size ELSE 0)
        BY <2>1, <2>2, <2>3 DEF SumsTyped
      <3> QED BY <3>1, <3>2
    <2>7. m - b \in Int
      OBVIOUS
    <2>8. m - b <= x
      BY <2>4, <2>5, <2>6, <2>7, TotalBound
    <2>9. (max + Number) * size \in Int
      BY <2>1
    <2>10. m < (max + Number) * size
      BY <2>5, <2>8, <2>9
    <2> QED BY <2>0, <2>2, <2>10 DEF Number
  <1> QED BY <1>1, <1>2, LimitStep, PTL DEF Spec
=============================================================================
