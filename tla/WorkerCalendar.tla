--------------------------- MODULE WorkerCalendar ---------------------------
(***************************************************************************)
(* What the bookings of the salon promise, without requests, statuses or   *)
(* cron jobs: an agenda of visits, where no stylist is ever in two visits  *)
(* at once, a visit whose stylist the client chose stays with that         *)
(* stylist, and a change is either one visit written or some visits freed. *)
(*                                                                         *)
(* Reservations.tla implements it: its refinement mapping is the set of    *)
(* rows of `reservations` whose status is not 'cancelada'.                 *)
(***************************************************************************)
EXTENDS Integers

VARIABLE
    agenda      \* set of visits [id, worker, from, to, pinned]

Meet(x, y) == x.from < y.to /\ y.from < x.to

(* Two different visits of one stylist never share an instant. *)
NoDoubleBooking ==
    \A x, y \in agenda :
        x.id # y.id /\ x.worker = y.worker => ~Meet(x, y)

Init == agenda = {}

(* Visit e is written: booked, moved, or booked again after being freed. *)
Write(e) ==
    /\ \A x \in agenda : x.id # e.id /\ x.worker = e.worker => ~Meet(x, e)
    /\ \A x \in agenda :
          x.id = e.id /\ x.pinned => e.pinned /\ e.worker = x.worker
    /\ agenda' = {x \in agenda : x.id # e.id} \cup {e}

(* Some visits stop occupying the agenda: cancelled, expired or purged. *)
Release == agenda' \subseteq agenda

Next == (\E e \in agenda' : Write(e)) \/ Release

Spec == Init /\ [][Next]_agenda
=============================================================================
