---------------------------- MODULE MCRateLimit ----------------------------
(* Instances of RateLimit for TLC. *)
EXTENDS RateLimit, TLC

(* Requests are interchangeable, and so are keys.                          *)
MCSymmetry == Permutations(Callers) \cup Permutations(Keys)
=============================================================================
