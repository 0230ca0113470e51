---------------------------- MODULE MCUiSettings ----------------------------
(* The runtime secret is a reference from the start, the idp secret blank: *)
(* an administrator types one, in clear or as a reference.                 *)
EXTENDS UiSettings, TLC

CONSTANTS first, second, wrong, i1, i2, typed, p1, p2

MCDefaults == [s \in Sections |->
    [plain |-> first, secret |-> IF s # "runtime" THEN Blank ELSE Ref(i1)]]

MCEnvironments == {"rules" :> second}

MCSymmetry == Permutations(Pages)

=============================================================================
