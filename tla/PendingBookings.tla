--------------------------- MODULE PendingBookings ---------------------------
(***************************************************************************)
(* The table assistant_pending_bookings: a reservation the assistant       *)
(* proposed on WhatsApp and that exists only as a row here until the       *)
(* client taps "Confirmar". Rows are numbered in the order of their        *)
(* insertion; the statements below are the repository's four methods, each *)
(* one atomic SQL statement.                                               *)
(***************************************************************************)
EXTENDS Integers, Sequences

CONSTANTS
    Phones,         \* normalised numbers that can hold a proposal
    MaxBookings,    \* proposals ever saved (bound)
    Ttl,            \* PENDING_BOOKING_TTL_MINUTES
    Margin,         \* age past expiry at which the purge deletes a proposal
    Earlier,        \* numbers with an open proposal when the process starts
    EarlierLeft,    \* the life those proposals may have left
    MaxTime         \* last instant of the clock (bound)

ASSUME PendingAssumption ==
    /\ MaxBookings \in Nat /\ Ttl \in Nat \ {0} /\ Margin \in Nat
    /\ MaxTime \in Nat
    /\ EarlierLeft \subseteq 0 .. Ttl
    /\ Earlier \in Seq(Phones) /\ Len(Earlier) <= MaxBookings
    /\ \A i, j \in 1 .. Len(Earlier) : Earlier[i] = Earlier[j] => i = j

VARIABLES
    now,            \* the clock
    pending         \* the table, by proposal number

Bookings == 1 .. MaxBookings

Outcomes == {"confirmada", "descartada", "reemplazada"}

(* used_at and outcome are set together: "open" is used_at IS NULL.          *)
Proposal == [state : {"unborn", "open", "purged"} \cup Outcomes,
             phone : Phones, expires : Nat]

Stored(b) == pending[b].state \notin {"unborn", "purged"}

(* Unused and unexpired: what a tap on "Confirmar" can still turn into a     *)
(* reservation.                                                              *)
Live(b) == pending[b].state = "open" /\ pending[b].expires > now

(* The number the next INSERT gets. *)
IsNext(b) == /\ pending[b].state = "unborn"
             /\ \A c \in Bookings : c < b => pending[c].state # "unborn"

-----------------------------------------------------------------------------
(* MUTANTS of SupersedeActiveFor and CanConsume. *)
SupersedeNothing(phone) == pending' = pending
ConsumeTwice(b, phone) ==
    Stored(b) /\ pending[b].phone = phone /\ pending[b].expires > now

SupersedeActiveFor(phone) ==
    pending' = [b \in Bookings |->
                   IF pending[b].state = "open" /\ pending[b].phone = phone
                   THEN [pending[b] EXCEPT !.state = "reemplazada"]
                   ELSE pending[b]]

Insert(b, phone) ==
    /\ IsNext(b)
    /\ pending' = [pending EXCEPT ![b] =
                      [state |-> "open", phone |-> phone, expires |-> now + Ttl]]

(* WHERE id, phone, used_at IS NULL, expires_at > now of the single UPDATE. *)
CanConsume(b, phone) == pending[b].phone = phone /\ Live(b)

Consume(b, phone, outcome) ==
    /\ CanConsume(b, phone)
    /\ pending' = [pending EXCEPT ![b].state = outcome]

(* The daily cron. *)
PurgeExpired ==
    pending' = [b \in Bookings |->
                   IF Stored(b) /\ pending[b].expires < now - Margin
                   THEN [pending[b] EXCEPT !.state = "purged"]
                   ELSE pending[b]]

-----------------------------------------------------------------------------

(* The open proposals at the start were saved at any time before.            *)
PendingInit ==
    /\ now = 0
    /\ \E left \in EarlierLeft :
         pending = [b \in Bookings |->
                      IF b <= Len(Earlier)
                      THEN [state |-> "open", phone |-> Earlier[b], expires |-> left]
                      ELSE [state |-> "unborn", phone |-> CHOOSE p \in Phones : TRUE,
                            expires |-> 0]]

PendingTypeOK == now \in 0 .. MaxTime /\ pending \in [Bookings -> Proposal]

(* A number has one live proposal at most: a tap on an older button finds    *)
(* its proposal used ("Una sola propuesta viva por numero").                 *)
OneLiveProposal ==
    \A b, c \in Bookings :
        Live(b) /\ Live(c) /\ pending[b].phone = pending[c].phone => b = c
=============================================================================
