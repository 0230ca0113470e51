------------------------- MODULE MCBindingWriteback -------------------------
(* A main link m and an additional profile's link p; the hosts are alike.  *)
EXTENDS BindingWriteback, TLC

CONSTANTS m, p, h1, h2

HostSymmetry == Permutations(Hosts)
=============================================================================
