---------------------------- MODULE MCAtomicFile ----------------------------
(* Three writes and two reads; calls of a kind are alike.                  *)
EXTENDS AtomicFile, TLC

CONSTANTS w1, w2, w3, r1, r2

CallSymmetry == Permutations({w1, w2, w3}) \union Permutations({r1, r2})
=============================================================================
