------------------------- MODULE MCOpenClawClient --------------------------
(* Small instances of OpenClawClient for TLC: two requests, so that what   *)
(* is left of one can meet the other.                                      *)
EXTENDS OpenClawClient, TLC

RealOnly == {"real"}
RealOrBlank == {"real", "blank"}

Symmetry == Permutations(Requests)
=============================================================================
