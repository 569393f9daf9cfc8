------------------------- MODULE MCUploadLifecycle -------------------------
(* Instances of UploadLifecycle for TLC. *)
EXTENDS UploadRefinement, TLC

(* One inode for every name and every descriptor: OpenPartial never waits. *)
MCInodes == 1 .. (2 * Cardinality(Ids) + Cardinality(Writers) + Cardinality(Readers))

(* Requested lifetimes: never, and one time unit.                          *)
MCTTLs == {-2, 1}

(* Requests of one kind are interchangeable, and so are uploads.           *)
MCSymmetry == Permutations(Ids) \cup Permutations(Writers) \cup Permutations(Readers)
=============================================================================
