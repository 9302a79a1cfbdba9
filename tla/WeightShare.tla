--------------------------- MODULE WeightShare ---------------------------
(***************************************************************************)
(* How weights share out hash values among interfaces, or among the        *)
(* entries of a lookup, numbered in the order in which WcmpWeights::choose *)
(* meets them (src/wcmp/model/wcmp-weights.cc).  Module WeightedChoose     *)
(* shows that the loops of choose() compute this.                          *)
(***************************************************************************)
EXTENDS Integers, FiniteSetsExt

TotalWeight(ifs, w) == MapThenSumSet(LAMBDA i : w[i], ifs)

UpTo(ifs, w, i) == TotalWeight({j \in ifs : j <= i}, w)

(* The first whose running total exceeds the hash modulo the total weight. *)
Pick(ifs, w, hash) ==
    LET residue == hash % TotalWeight(ifs, w) IN
    CHOOSE i \in ifs :
        /\ residue < UpTo(ifs, w, i)
        /\ \A j \in ifs : residue < UpTo(ifs, w, j) => i <= j

===========================================================================
