----------------------------- MODULE MCAccounts -----------------------------
(***************************************************************************)
(* Small instances of Accounts for TLC.                                    *)
(***************************************************************************)
EXTENDS Accounts, TLC

CONSTANTS n1, n2, r1, r2

\* Usernames and requests are interchangeable.
MCSymmetry == Permutations({n1, n2}) \cup Permutations({r1, r2})

=============================================================================
