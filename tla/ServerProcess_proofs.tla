------------------------ MODULE ServerProcess_proofs ------------------------
(***************************************************************************)
(* The store outlives the reaper and the ordinary requests in flight, on   *)
(* every path through run() and for any number of requests and of hijacked *)
(* connections.                                                            *)
(***************************************************************************)
EXTENDS ServerProcess, TLAPS

(* The stacks of deferred calls are four different ones, ...               *)
LEMMA Stacks ==
  /\ Nothing # UpToStop /\ Nothing # UpToClose /\ Nothing # UpToWait
  /\ UpToStop # UpToClose /\ UpToStop # UpToWait /\ UpToClose # UpToWait
<1>1. /\ Len(Nothing) = 0 /\ Len(UpToStop) = 1
      /\ Len(UpToClose) = 2 /\ Len(UpToWait) = 3
  BY DEF Nothing, UpToStop, UpToClose, UpToWait
<1>2. Nothing # UpToStop /\ Nothing # UpToClose /\ Nothing # UpToWait
  BY <1>1
<1>3. UpToStop # UpToClose /\ UpToStop # UpToWait /\ UpToClose # UpToWait
  BY <1>1, SMTT(30)
<1> QED
  BY <1>2, <1>3

(* ... each the one before it with a call on top.                          *)
LEMMA Pops ==
  /\ Head(UpToStop) = "stop" /\ Head(UpToClose) = "close" /\ Head(UpToWait) = "wait"
  /\ Tail(UpToStop) = Nothing /\ Tail(UpToClose) = UpToStop /\ Tail(UpToWait) = UpToClose
<1>1. Head(UpToStop) = "stop" /\ Head(UpToClose) = "close" /\ Head(UpToWait) = "wait"
  BY DEF UpToStop, UpToClose, UpToWait
<1>2. Tail(UpToStop) = Nothing /\ Tail(UpToClose) = UpToStop /\ Tail(UpToWait) = UpToClose
  BY DEF Nothing, UpToStop, UpToClose, UpToWait
<1> QED
  BY <1>1, <1>2

(* While one is deferred a signal is caught.                               *)
LEMMA StopDeferred ==
  ASSUME NEW s \in {UpToStop, UpToClose, UpToWait}
  PROVE  \E k \in DOMAIN s : s[k] = "stop"
<1>1. 3 \in DOMAIN UpToWait /\ UpToWait[3] = "stop"
  BY DEF UpToWait
<1>2. 2 \in DOMAIN UpToClose /\ UpToClose[2] = "stop"
  BY DEF UpToClose
<1>3. 1 \in DOMAIN UpToStop /\ UpToStop[1] = "stop"
  BY DEF UpToStop
<1> QED
  BY <1>1, <1>2, <1>3

(* Before anything is set up nothing needs the store.                      *)
LEMMA InvInit == Init => ProcessInv
<1>1. Init => TypeOK
  <2>1. 0 \in Nat
    OBVIOUS
  <2> QED
    BY <2>1, Zenon DEF Init, TypeOK
<1>2. Init => Stage
  BY Stacks DEF Init, Stage
<1>3. Init => StoreOutlivesReaper /\ HandlersKeepStore
  BY DEF Init, StoreOutlivesReaper, HandlersKeepStore
<1> QED
  BY <1>1, <1>2, <1>3 DEF ProcessInv

(* One step of run() keeps the invariant: a deferred call finds what was   *)
(* registered before it still in place.                                    *)
LEMMA RunKeeps == ProcessInv /\ RunStep => ProcessInv'
<1>1. SUFFICES ASSUME ProcessInv, RunStep PROVE ProcessInv'
  OBVIOUS
<1> USE <1>1, Stacks DEF ProcessInv, TypeOK, Stage, StoreOutlivesReaper, HandlersKeepStore, Errors,
                 settings, connections, Return, Goto
<1>2. CASE Load
  BY <1>2 DEF Load
<1>3. CASE OpenStore
  BY <1>3 DEF OpenStore
<1>4. CASE OpenBlobs
  BY <1>4 DEF OpenBlobs
<1>5. CASE StartReaper
  BY <1>5 DEF StartReaper
<1>6. CASE RegisterCompat
  BY <1>6 DEF RegisterCompat
<1>7. CASE Listen
  BY <1>7 DEF Listen
<1>8. CASE Select
  BY <1>8 DEF Select
<1>9. CASE Shutdown
  <2>1. pc = "shutdown" /\ pc' = "grace" /\ err = "none" /\ err' = "none"
    BY <1>9 DEF Shutdown
  <2>2. UNCHANGED <<settings, ctx, defers, store, reaper, connections, errc>>
    BY <1>9 DEF Shutdown
  <2>3. server' \in {"closed", "returned"} /\ (errc # "empty" => server' = "returned")
    BY <1>9 DEF Shutdown
  <2> QED
    BY <2>1, <2>2, <2>3
<1>10. CASE Grace
  BY <1>10 DEF Grace
<1>11. CASE Drain
  BY <1>11 DEF Drain
<1>12. CASE RunDefer
  <2>1. pc = "defers" /\ UNCHANGED <<compat, master, pc, reaper, server, inflight, sockets, errc, err>>
    BY <1>12 DEF RunDefer
  <2>2. ctx' \in BOOLEAN
    BY <1>12 DEF RunDefer
  <2>3. CASE defers = UpToWait
    <3>1. defers' = UpToClose /\ store' = "open" /\ reaper = "done"
      BY <1>12, <2>3, Pops DEF RunDefer
    <3> QED
      BY <2>1, <2>2, <3>1
  <2>4. CASE defers = UpToClose
    <3>1. defers' = UpToStop /\ store' = "closed"
      BY <1>12, <2>4, Pops DEF RunDefer
    <3> QED
      BY <2>1, <2>2, <2>4, <3>1
  <2>5. CASE defers = UpToStop
    <3>1. defers' = Nothing /\ store' = store
      BY <1>12, <2>5, Pops DEF RunDefer
    <3> QED
      BY <2>1, <2>2, <2>5, <3>1
  <2> QED
    BY <1>12, <2>3, <2>4, <2>5 DEF RunDefer
<1>13. CASE Finish
  BY <1>13 DEF Finish, Exit
<1> QED
  BY <1>1, <1>2, <1>3, <1>4, <1>5, <1>6, <1>7, <1>8, <1>9, <1>10, <1>11, <1>12, <1>13 DEF RunStep

(* So does a step of anything that runs beside it.                         *)
LEMMA OthersKeep ==
  ProcessInv /\ (ReaperStep \/ ServerStep \/ ClientStep \/ Signal) => ProcessInv'
<1>1. SUFFICES ASSUME ProcessInv,
                      ReaperStep \/ ServerStep \/ ClientStep \/ Signal
               PROVE  ProcessInv'
  OBVIOUS
<1> USE <1>1, Stacks DEF ProcessInv, TypeOK, Stage, StoreOutlivesReaper, HandlersKeepStore, Errors, settings,
                 connections
<1>2. CASE ReaperStep
  BY <1>2 DEF ReaperStep, ReaperTick, ReaperSwept, ReaperStop
<1>3. CASE ServerStep
  BY <1>3 DEF ServerStep, ServerUp, ServerFails, ServerReturns
<1>4. CASE RequestBegins \/ RequestEnds
  BY <1>4 DEF RequestBegins, RequestEnds
<1>5. CASE SocketAccepted \/ SocketEnds
  BY <1>5 DEF SocketAccepted, SocketEnds
<1>6. CASE Signal
  <2>1. pc # "exited" /\ UNCHANGED <<compat, master, defers, errc, err>>
    BY <1>6 DEF Signal
  <2>2. CASE defers = Nothing
    <3>1. \A k \in DOMAIN defers : defers[k] # "stop"
      BY <2>2 DEF Nothing
    <3>2. Exit /\ ctx' = ctx
      BY <1>6, <3>1 DEF Signal
    <3> QED
      BY <2>1, <2>2, <3>2 DEF Exit
  <2>3. CASE defers # Nothing
    <3>1. \E k \in DOMAIN defers : defers[k] = "stop"
      BY <2>3, StopDeferred
    <3>2. ctx' = TRUE /\ UNCHANGED <<pc, reaper, server, store, connections>>
      BY <1>6, <3>1 DEF Signal
    <3> QED
      BY <2>1, <3>2
  <2> QED
    BY <2>2, <2>3
<1> QED
  BY <1>1, <1>2, <1>3, <1>4, <1>5, <1>6 DEF ClientStep

LEMMA InvAlways == Spec => []ProcessInv
<1>1. ProcessInv /\ [Next]_vars => ProcessInv'
  <2>1. CASE Next
    BY <2>1, RunKeeps, OthersKeep DEF Next
  <2>2. CASE UNCHANGED vars
    BY <2>2 DEF vars, ProcessInv, TypeOK, Stage, StoreOutlivesReaper, HandlersKeepStore
  <2> QED
    BY <2>1, <2>2
<1> QED
  BY <1>1, InvInit, PTL DEF Spec

(* The reaper never works on a closed store, however run() comes to        *)
(* return: the wait deferred at main.go runs before the close.             *)
THEOREM ReaperHasStore == Spec => []StoreOutlivesReaper
<1>1. ProcessInv => StoreOutlivesReaper
  BY DEF ProcessInv
<1> QED
  BY <1>1, InvAlways, PTL

(* An ordinary request keeps the store until the grace runs out or the     *)
(* listener has failed, for any number of requests and of hijacked         *)
(* connections beside them.                                                *)
THEOREM RequestsHaveStore == Spec => []HandlersKeepStore
<1>1. ProcessInv => HandlersKeepStore
  BY DEF ProcessInv
<1> QED
  BY <1>1, InvAlways, PTL
=============================================================================
