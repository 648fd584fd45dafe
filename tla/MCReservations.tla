--------------------------- MODULE MCReservations ---------------------------
(* Instances of Reservations for TLC. *)
EXTENDS Reservations, TLC

(* Ids and requests are interchangeable; stylists are ordered, so they are   *)
(* not. Used only where no liveness is checked.                              *)
Symmetry == Permutations(Ids) \cup Permutations(Procs)

(* All the kinds of request, for Ops. *)
Every == Kinds
=============================================================================
