------------------------------ MODULE MCAccounts ------------------------------
(* Instances of Accounts for TLC. *)
EXTENDS Accounts, TLC

MCTokenTtl == [email_verification |-> 1, password_reset |-> 1]
MCSymmetry == Permutations(Users) \cup Permutations(Requests) \cup Permutations(Passwords) \cup Permutations(Addresses)
=============================================================================
