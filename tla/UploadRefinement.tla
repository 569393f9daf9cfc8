-------------------------- MODULE UploadRefinement --------------------------
(***************************************************************************)
(* UploadLifecycle implements UploadPromise: the row decides whether an    *)
(* upload is there, and the file under its final name is the body.         *)
(***************************************************************************)
EXTENDS UploadLifecycle, Sequences

AbsState(id) ==
  CASE id \notin used -> "absent"
    [] Pending(id)    -> "receiving"
    [] Published(id)  -> "available"
    [] OTHER          -> "gone"

AbsSize(id) == IF Exists(id) THEN rows[id].size ELSE 0

Content(i) == [p \in 1 .. disk[i].len |-> disk[i].blk[p - 1]]

AbsBody(id) == IF Published(id) THEN Content(final[id]) ELSE NoFile

NotReading == [id |-> NoId, begun |-> FALSE, body |-> NoFile]

(* Once let in, a reader has the body as soon as it has the descriptor;    *)
(* until then it has what the final name still refers to.                  *)
AbsReading(d) ==
  LET r == dl[d] IN
  CASE r.pc \in {"serve", "record"} ->
         [id |-> r.id, begun |-> TRUE, body |-> Content(r.fd)]
    [] r.pc \in {"allow", "forget", "open"} /\ final[r.id] # NoFile ->
         [id |-> r.id, begun |-> FALSE, body |-> Content(final[r.id])]
    [] OTHER -> NotReading

Promise == INSTANCE UploadPromise WITH
  state     <- [id \in Ids |-> AbsState(id)],
  size      <- [id \in Ids |-> AbsSize(id)],
  body      <- [id \in Ids |-> AbsBody(id)],
  reading   <- [d \in Readers |-> AbsReading(d)],
  withdrawn <- revoked,
  NoBody    <- NoFile,
  NoReader  <- NotReading

(* The requests, the reaper, the failures and the crashes of one instance, *)
(* on a table and files that no lock spans, keep what UploadPromise says   *)
(* of an upload, provided a client sends one write request at a time.      *)
KeepsPromise == Promise!Spec
=============================================================================
