---------------------------- MODULE MCAccounts ----------------------------
(* Small instances of Accounts for TLC. *)
EXTENDS Accounts, TLC

CONSTANTS ann, ben, i1, i2, s1, s2, r1, r2

AccountSymmetry ==
    Permutations(Invitations) \cup Permutations(Secrets)
        \cup Permutations(Requests)
=============================================================================
