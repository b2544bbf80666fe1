------------------------------ MODULE MCCafeUI ------------------------------
(***************************************************************************)
(* Instances of CafeUI for TLC.                                            *)
(***************************************************************************)
EXTENDS CafeUI

CONSTANTS p1, p2

TwoPosts == {p1, p2}

BothServices == {Catalog, Orders}
MCPicks == 1 .. MaxPicks

AllFaults == {"consul", Catalog, Orders, "net", "reload"}
PodFaults == {Catalog, Orders}
OrderFaults == {Orders, "net"}

PostSymmetry == Permutations(Posts)
=============================================================================
