---------------------------- MODULE MCUiAccounts ----------------------------
EXTENDS UiAccounts, TLC

CONSTANTS admin, operator, r1, r2, s1, s2, new

MCAccount(pw, must) == [pw |-> pw, must |-> must]

\* No file yet, a file without the administrator, a complete one.
MCFirstFiles ==
    {[exists |-> FALSE, store |-> <<>>],
     [exists |-> TRUE, store |-> operator :> MCAccount(Bootstrap(0), FALSE)],
     [exists |-> TRUE, store |-> (admin :> MCAccount(Bootstrap(0), FALSE))
                                 @@ (operator :> MCAccount(Bootstrap(0), FALSE))]}

MCSymmetry == Permutations(Slots) \union Permutations(SessionIds)

=============================================================================
