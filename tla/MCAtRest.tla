------------------------------ MODULE MCAtRest ------------------------------
EXTENDS AtRest

(* One key starts below a carry into the first octet and the other just    *)
(* below the wrap of the whole counter.                                    *)
MCIV(k) == IF k = "k1" THEN <<0, 1>> ELSE <<1, 1>>
=============================================================================
