--------------------------- MODULE UploadPromise ---------------------------
(***************************************************************************)
(* What the server promises of an upload, without the table, the files and *)
(* the requests that keep it: an identifier is used once, a body appears   *)
(* whole or not at all, it never changes while it is offered, whoever was  *)
(* let in reads that body or nothing, and what its owner was told is gone  *)
(* stays gone.  UploadRefinement shows that UploadLifecycle implements it. *)
(***************************************************************************)
EXTENDS Naturals, Sequences

CONSTANTS Ids, Readers, NoBody, NoReader

VARIABLES
  state,     \* of every identifier
  size,      \* declared when the upload was created
  body,      \* of an available upload
  reading,   \* what a reader was let in to
  withdrawn  \* uploads whose owner was told that they are gone

vars == <<state, size, body, reading, withdrawn>>

Init ==
  /\ state = [id \in Ids |-> "absent"]
  /\ size = [id \in Ids |-> 0]
  /\ body = [id \in Ids |-> NoBody]
  /\ reading = [d \in Readers |-> NoReader]
  /\ withdrawn = {}

(* The owner declares a size; a step of its own chooses it.                *)
Create(id) ==
  /\ state[id] = "absent"
  /\ state' = [state EXCEPT ![id] = "receiving"]
  /\ size' = [size EXCEPT ![id] = size'[id]]
  /\ UNCHANGED <<body, reading, withdrawn>>

(* The body appears in one step, with the length that was declared.        *)
Publish(id) ==
  /\ state[id] = "receiving"
  /\ state' = [state EXCEPT ![id] = "available"]
  /\ body' = [body EXCEPT ![id] = body'[id]]
  /\ Len(body'[id]) = size[id]
  /\ UNCHANGED <<size, reading, withdrawn>>

(* Revoked, expired, exhausted or never finished.                          *)
Remove(id) ==
  /\ state[id] \in {"receiving", "available"}
  /\ state' = [state EXCEPT ![id] = "gone"]
  /\ size' = [size EXCEPT ![id] = 0]
  /\ body' = [body EXCEPT ![id] = NoBody]
  /\ UNCHANGED <<reading, withdrawn>>

(* Nobody who was let in and has not begun to read will: only then is the  *)
(* owner told.                                                             *)
Confirm(id) ==
  /\ state[id] = "gone"
  /\ \A d \in Readers : reading[d] # NoReader => reading[d].id # id \/ reading[d].begun
  /\ withdrawn' = withdrawn \cup {id}
  /\ UNCHANGED <<state, size, body, reading>>

Admit(d, id) ==
  /\ reading[d] = NoReader /\ state[id] = "available"
  /\ reading' = [reading EXCEPT ![d] = [id |-> id, begun |-> FALSE, body |-> body[id]]]
  /\ UNCHANGED <<state, size, body, withdrawn>>

Begin(d) ==
  /\ reading[d] # NoReader
  /\ reading' = [reading EXCEPT ![d].begun = TRUE]
  /\ UNCHANGED <<state, size, body, withdrawn>>

(* Readers end, or are turned away because the upload is gone.             *)
Leave(S) ==
  /\ reading' = [d \in Readers |-> IF d \in S THEN NoReader ELSE reading[d]]
  /\ UNCHANGED <<state, size, body, withdrawn>>

Next ==
  \/ \E id \in Ids : Create(id) \/ Publish(id) \/ Remove(id) \/ Confirm(id)
  \/ \E d \in Readers, id \in Ids : Admit(d, id)
  \/ \E d \in Readers : Begin(d)
  \/ \E S \in SUBSET Readers : Leave(S)

Spec == Init /\ [][Next]_vars
=============================================================================
