------------------------------ MODULE MCCompat ------------------------------
(* Compat for TLC: lifetimes of either sign and the symmetry of clients.   *)
EXTENDS Compat, TLC

(* -1 is "never"; with two nanoseconds to the second and sixteen durations *)
(* 3 is longer than the policy allows, 4 wraps to the most negative one    *)
(* and 9 to one that is allowed.                                           *)
MCTimeLimits == {-1, 0, 1, 3, 4, 9}
MCLimits     == {-2, 2}

Symmetry == Permutations(Clients)
=============================================================================
