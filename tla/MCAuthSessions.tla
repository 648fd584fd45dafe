--------------------------- MODULE MCAuthSessions ---------------------------
(* Instances of AuthSessions for TLC. *)
EXTENDS AuthSessions, TLC

(* Hashes and requests are interchangeable. *)
Symmetry == Permutations(Tokens) \cup Permutations(Procs)
=============================================================================
