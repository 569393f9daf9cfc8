--------------------------- MODULE ServerProcess ---------------------------
(***************************************************************************)
(* The life of one server process: run() of cmd/sendan/main.go, the        *)
(* goroutine that serves, the goroutine that reaps, the requests in        *)
(* flight, and the signal that ends them.                                  *)
(*                                                                         *)
(* run() registers deferred calls as it goes; they run last in, first out  *)
(* when it returns, whatever made it return.  "stop" cancels the signal    *)
(* context, "close" closes the metadata store, "wait" waits for the        *)
(* reaper.                                                                 *)
(***************************************************************************)
EXTENDS Naturals, Sequences

CONSTANTS MaxInflight \* bound on the connections being served

ASSUME ProcessAssumption == MaxInflight \in Nat

VARIABLES
  compat, master, \* SENDAN_SEND_COMPAT, SENDAN_MASTER_KEY
  pc,       \* where run() is
  ctx,      \* the signal context is done
  defers,   \* deferred calls, the next to run first
  store,    \* the metadata store
  reaper,   \* the reaper's goroutine
  server,   \* the serving goroutine
  inflight, \* ordinary requests being handled
  sockets,  \* connections a handler has hijacked
  errc,     \* the channel the serving goroutine answers on
  err       \* what run() returns

connections == <<inflight, sockets>>

vars ==
  <<compat, master, pc, ctx, defers, store, reaper, server, inflight, sockets, errc, err>>

settings == <<compat, master>>

(* The deferred calls after each of the three that run() registers.        *)
Nothing   == <<>>
UpToStop  == <<"stop">>
UpToClose == <<"close", "stop">>
UpToWait  == <<"wait", "close", "stop">>

Init ==
  /\ compat \in BOOLEAN /\ master \in BOOLEAN
  /\ pc = "load" /\ ctx = FALSE /\ defers = Nothing
  /\ store = "none" /\ reaper = "none" /\ server = "none"
  /\ inflight = 0 /\ sockets = 0 /\ errc = "empty" /\ err = "none"

(* run() returns e: its deferred calls are next.                           *)
Return(e) == pc' = "defers" /\ err' = e
Goto(l)   == pc' = l /\ UNCHANGED err

-----------------------------------------------------------------------------
(* Startup.                                                                *)

(* config.Load, then signal.NotifyContext and its deferred stop.           *)
Load ==
  /\ pc = "load"
  /\ \/ Goto("store") /\ defers' = UpToStop
     \/ Return("config") /\ UNCHANGED defers
  /\ UNCHANGED <<settings, ctx, store, reaper, server, connections, errc>>

OpenStore ==
  /\ pc = "store"
  /\ \/ Goto("blobs") /\ store' = "open" /\ defers' = UpToClose
     \/ Return("database") /\ UNCHANGED <<store, defers>>
  /\ UNCHANGED <<settings, ctx, reaper, server, connections, errc>>

(* The master key was checked by config.Load: wrapping the store cannot    *)
(* fail, so only the blob store can.                                       *)
OpenBlobs ==
  /\ pc = "blobs"
  /\ Goto("reaper") \/ Return("storage")
  /\ UNCHANGED <<settings, ctx, defers, store, reaper, server, connections, errc>>

(* Variant: nothing waits for the reaper.                                  *)
StartReaperUnwaited ==
  /\ pc = "reaper" /\ Goto("compat")
  /\ reaper' = "waiting"
  /\ UNCHANGED <<settings, ctx, defers, store, server, connections, errc>>

StartReaper ==
  /\ pc = "reaper" /\ Goto("compat")
  /\ reaper' = "waiting"
  /\ defers' = UpToWait
  /\ UNCHANGED <<settings, ctx, store, server, connections, errc>>

(* Both databases implement CompatStore; the wrapper a master key puts     *)
(* around them embeds the Store interface and does not.                    *)
ImplementsCompatStore == ~master

RegisterCompat ==
  /\ pc = "compat"
  /\ IF compat /\ ~ImplementsCompatStore THEN Return("compat") ELSE Goto("listen")
  /\ UNCHANGED <<settings, ctx, defers, store, reaper, server, connections, errc>>

Listen ==
  /\ pc = "listen" /\ Goto("select")
  /\ server' = "starting"
  /\ UNCHANGED <<settings, ctx, defers, store, reaper, connections, errc>>

-----------------------------------------------------------------------------
(* Shutdown.                                                               *)

(* The first of the two to be ready; either when both are.                 *)
Select ==
  /\ pc = "select"
  /\ \/ errc # "empty" /\ Return(errc) /\ errc' = "empty"
     \/ ctx /\ Goto("shutdown") /\ UNCHANGED errc
  /\ UNCHANGED <<settings, ctx, defers, store, reaper, server, connections>>

(* srv.Shutdown closes the listener ...                                    *)
Shutdown ==
  /\ pc = "shutdown" /\ Goto("grace")
  /\ server' = IF server \in {"starting", "serving"} THEN "closed" ELSE server
  /\ UNCHANGED <<settings, ctx, defers, store, reaper, connections, errc>>

(* Variant: the listener is closed and nobody is waited for.               *)
GraceSkipped ==
  /\ pc = "grace"
  /\ Goto("drain")
  /\ UNCHANGED <<settings, ctx, defers, store, reaper, server, connections, errc>>

(* ... and returns when no ordinary request is in flight or the grace is   *)
(* over.  net/http neither closes nor waits for a connection that a        *)
(* handler has hijacked.                                                   *)
Grace ==
  /\ pc = "grace"
  /\ \/ inflight = 0 /\ Goto("drain")
     \/ Return("shutdown")
  /\ UNCHANGED <<settings, ctx, defers, store, reaper, server, connections, errc>>

(* return <-errc                                                           *)
Drain ==
  /\ pc = "drain" /\ errc # "empty"
  /\ Return(errc) /\ errc' = "empty"
  /\ UNCHANGED <<settings, ctx, defers, store, reaper, server, connections>>

(* The process is gone, and everything that ran in it.                     *)
Exit ==
  /\ pc' = "exited" /\ inflight' = 0 /\ sockets' = 0
  /\ reaper' = "none" /\ server' = "none" /\ store' = "none"

RunDefer ==
  /\ pc = "defers" /\ defers # Nothing
  /\ Head(defers) = "wait" => reaper = "done"
  /\ store' = IF Head(defers) = "close" THEN "closed" ELSE store
  /\ ctx' = (ctx \/ Head(defers) = "stop")
  /\ defers' = Tail(defers)
  /\ UNCHANGED <<settings, pc, reaper, server, connections, errc, err>>

(* main prints the error, if there is one, and exits.                      *)
Finish ==
  /\ pc = "defers" /\ defers = Nothing
  /\ Exit
  /\ UNCHANGED <<settings, ctx, defers, errc, err>>

RunStep ==
  \/ Load \/ OpenStore \/ OpenBlobs \/ StartReaper \/ RegisterCompat \/ Listen
  \/ Select \/ Shutdown \/ Grace \/ Drain \/ RunDefer \/ Finish

-----------------------------------------------------------------------------
(* The reaper's goroutine: RunReaper.                                      *)

ReaperTick ==
  /\ reaper = "waiting" /\ reaper' = "sweeping"
  /\ UNCHANGED <<settings, pc, ctx, defers, store, server, connections, errc, err>>

(* The backlog is cleared, or a pass fails: a done context fails it.       *)
ReaperSwept ==
  /\ reaper = "sweeping" /\ reaper' = "waiting"
  /\ UNCHANGED <<settings, pc, ctx, defers, store, server, connections, errc, err>>

ReaperStop ==
  /\ reaper = "waiting" /\ ctx /\ reaper' = "done"
  /\ UNCHANGED <<settings, pc, ctx, defers, store, server, connections, errc, err>>

(* The serving goroutine.                                                  *)

ServerUp ==
  /\ server = "starting" /\ server' = "serving"
  /\ UNCHANGED <<settings, pc, ctx, defers, store, reaper, connections, errc, err>>

(* The address cannot be bound, or accepting fails later.                  *)
ServerFails ==
  /\ server \in {"starting", "serving"} /\ server' = "returned"
  /\ errc' = "serve"
  /\ UNCHANGED <<settings, pc, ctx, defers, store, reaper, connections, err>>

(* Variant: ErrServerClosed is no error, so nothing is sent.               *)
ServerReturnsSilently ==
  /\ server = "closed" /\ server' = "returned"
  /\ UNCHANGED <<settings, pc, ctx, defers, store, reaper, connections, errc, err>>

(* ErrServerClosed.                                                        *)
ServerReturns ==
  /\ server = "closed" /\ server' = "returned"
  /\ errc' = "nil"
  /\ UNCHANGED <<settings, pc, ctx, defers, store, reaper, connections, err>>

RequestBegins ==
  /\ server = "serving" /\ inflight + sockets < MaxInflight
  /\ inflight' = inflight + 1
  /\ UNCHANGED <<settings, pc, ctx, defers, store, reaper, server, sockets, errc, err>>

RequestEnds ==
  /\ inflight > 0
  /\ inflight' = inflight - 1
  /\ UNCHANGED <<settings, pc, ctx, defers, store, reaper, server, sockets, errc, err>>

(* handleUpload of the compatibility handler: websocket.Accept takes the   *)
(* connection from the server and the upload runs on it ...                *)
SocketAccepted ==
  /\ compat /\ inflight > 0
  /\ inflight' = inflight - 1 /\ sockets' = sockets + 1
  /\ UNCHANGED <<settings, pc, ctx, defers, store, reaper, server, errc, err>>

(* ... to its end.                                                         *)
SocketEnds ==
  /\ sockets > 0
  /\ sockets' = sockets - 1
  /\ UNCHANGED <<settings, pc, ctx, defers, store, reaper, server, inflight, errc, err>>

(* SIGINT or SIGTERM: caught between NotifyContext and stop, and fatal     *)
(* outside of it.  A second one that is caught changes nothing.            *)
Signal ==
  /\ pc # "exited"
  /\ \/ /\ \E k \in DOMAIN defers : defers[k] = "stop"
        /\ ~ctx /\ ctx' = TRUE
        /\ UNCHANGED <<pc, reaper, server, store, connections>>
     \/ /\ \A k \in DOMAIN defers : defers[k] # "stop"
        /\ Exit /\ UNCHANGED ctx
  /\ UNCHANGED <<settings, defers, errc, err>>

ReaperStep == ReaperTick \/ ReaperSwept \/ ReaperStop
ServerStep == ServerUp \/ ServerFails \/ ServerReturns
ClientStep == RequestBegins \/ RequestEnds \/ SocketAccepted \/ SocketEnds

Next ==
  \/ RunStep \/ ReaperStep \/ ServerStep \/ ClientStep \/ Signal

Spec == Init /\ [][Next]_vars

(* The goroutines are scheduled.  select picks among ready cases at        *)
(* random, so a done context is not passed over for ever.  Nothing obliges *)
(* anyone to send a signal, or a client to finish.                         *)
FairSpec ==
  /\ Spec
  /\ WF_vars(RunStep) /\ WF_vars(ServerReturns)
  /\ WF_vars(ReaperSwept) /\ SF_vars(ReaperStop)

-----------------------------------------------------------------------------
Errors == {"config", "database", "storage", "compat", "serve", "shutdown"}

(* Every variable keeps its type.                                          *)
TypeOK ==
  /\ compat \in BOOLEAN /\ master \in BOOLEAN /\ ctx \in BOOLEAN
  /\ pc \in {"load", "store", "blobs", "reaper", "compat", "listen", "select",
             "shutdown", "grace", "drain", "defers", "exited"}
  /\ defers \in {Nothing, UpToStop, UpToClose, UpToWait}
  /\ store \in {"none", "open", "closed"}
  /\ reaper \in {"none", "waiting", "sweeping", "done"}
  /\ server \in {"none", "starting", "serving", "closed", "returned"}
  /\ inflight \in Nat /\ sockets \in Nat
  /\ errc \in {"empty", "nil", "serve"}
  /\ err \in Errors \cup {"none", "nil"}

(* The reaper never runs without a store, on any path out of run(): the    *)
(* store is closed by a deferred call and the reaper may be in the middle  *)
(* of a pass.                                                              *)
StoreOutlivesReaper == reaper \in {"waiting", "sweeping"} => store = "open"

(* An ordinary request (a PATCH, a download) loses the store under it only *)
(* when the grace ran out or the listener failed, however the deferred     *)
(* calls, the drain of errc and the requests interleave.                   *)
HandlersKeepStore == inflight > 0 => store = "open" \/ err \in {"shutdown", "serve"}

(* What run() says of every transfer: "In-flight transfers are given time  *)
(* to finish."  A compatibility upload is one, on a hijacked connection.   *)
TransfersKeepStore ==
  inflight + sockets > 0 => store = "open" \/ err \in {"shutdown", "serve"}

(* A process that was told to stop stops, wherever startup had got to,     *)
(* whatever the reaper is doing and however long a client takes.           *)
SignalExits == ctx ~> (pc = "exited")

(* A process that fails ends and reports it: "so they go to stderr         *)
(* directly rather than being lost".                                       *)
FailureExits == (pc = "defers" /\ err \in Errors) ~> (pc = "exited")

-----------------------------------------------------------------------------
(* What run() has set up at each point of its code, which the deferred     *)
(* calls then take down in reverse.                                        *)
Stage ==
  /\ pc \in {"load", "exited"} => reaper = "none" /\ inflight = 0 /\ sockets = 0
  /\ pc = "load" => defers = Nothing
  /\ pc = "store" => defers = UpToStop
  /\ pc \in {"blobs", "reaper"} => defers = UpToClose
  /\ pc \in {"compat", "listen", "select", "shutdown", "grace", "drain"} =>
        defers = UpToWait
  /\ pc # "exited" /\ defers \in {UpToClose, UpToWait} =>
        store = "open"
  /\ reaper \in {"waiting", "sweeping"} => defers = UpToWait
  /\ pc \in {"load", "store", "blobs", "reaper", "compat", "listen"} =>
        server = "none" /\ errc = "empty"
  /\ server = "none" => inflight = 0 /\ sockets = 0
  /\ server \in {"starting", "serving"} => pc \in {"select", "shutdown"}
  /\ pc \in {"select", "shutdown"} => server \in {"starting", "serving", "returned"}
  /\ pc \in {"grace", "drain"} => server \in {"closed", "returned"}
  /\ pc = "drain" => inflight = 0
  /\ errc # "empty" => server \in {"returned", "none"}
  /\ errc = "nil" \/ server = "closed" => pc \in {"grace", "drain", "defers", "exited"}
  /\ pc \notin {"defers", "exited"} => err = "none"
  /\ pc = "defers" => err # "none"
  /\ err \in {"config", "database", "storage", "compat"} => server = "none"
  /\ err = "nil" => inflight = 0

ProcessInv == TypeOK /\ Stage /\ StoreOutlivesReaper /\ HandlersKeepStore
=============================================================================
