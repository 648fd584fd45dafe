--------------------------- MODULE WhatsAppChannel ---------------------------
(***************************************************************************)
(* The inbound WhatsApp channel, from Meta's webhook to the agenda: the    *)
(* controller and its queue (SenderQueue), HandleInboundMessageUseCase, the *)
(* assistant's turn as far as its proposal tools go, and the button        *)
(* "Confirmar" over the table of proposals (PendingBookings).              *)
(*                                                                         *)
(* A delivery l is a process; what it read in memory is arg[l] (the id in  *)
(* the tapped button) and offer[l] (the last proposal of its turn). The    *)
(* content of a message is chosen when the handler reads it. A payload may *)
(* name any row there is: the handler treats no id as a credential. The    *)
(* use cases on a reservation are single steps here; what happens between  *)
(* their read and their write is in Reservations.                          *)
(***************************************************************************)
EXTENDS PendingBookings, SenderQueue, Sequences

CONSTANTS
    Owner,          \* SALON_OWNER_WHATSAPP
    MaxVisits,      \* reservations there may ever be (bound)
    Elsewhere       \* contact of the reservations that exist at the start

Visits == 1 .. MaxVisits
NoVisit == 0
NoBooking == 0

ASSUME ChannelAssumption ==
    /\ Owner \in Senders /\ Senders \subseteq Phones
    /\ MaxVisits \in Nat
    /\ Elsewhere \in Seq(Phones) /\ Len(Elsewhere) <= MaxVisits

VARIABLES
    arg,            \* the booking or reservation a button names
    offer,          \* the last proposal saved in a running turn
    visit,          \* the table reservations: [phone, state, booking]
    sent            \* the details the last step sent out: [to, booking, visits]

localVars == <<arg, offer>>
vars == <<now, pending, queueVars, localVars, visit, sent>>

Active == {"pendiente", "confirmada"}
Visit == [phone : Phones, state : Active \cup {"unborn", "cancelada"},
          booking : Bookings \cup {NoBooking}]

VisitButtons == {"reservation", "cancel", "reschedule", "reschedule_day",
                 "cancel_ok", "confirm", "reschedule_at"}
BookingButtons == {"book_ok", "book_no"}
Steps == {"turn", "save", "why", "create"} \cup VisitButtons \cup BookingButtons

Client(l) == SenderOf(l) # Owner

(* findActiveByPhone. Visits that ended are not told apart: "may" below.     *)
Actionable(phone) ==
    {v \in Visits : visit[v].state \in Active /\ visit[v].phone = phone}

(* assertCanActOn for the actor despachar builds: admin, or the phone.       *)
MayActOn(l, v) == Client(l) => visit[v].phone = SenderOf(l)

(* The buttons of proposal b, or the details of reservations vs, go out to   *)
(* the sender of l. *)
Silence == [to |-> Owner, booking |-> NoBooking, visits |-> {}]
Quiet == sent' = Silence
Send(l, b, vs) ==
    sent' = IF b = NoBooking /\ vs = {} THEN Silence
            ELSE [to |-> SenderOf(l), booking |-> b, visits |-> vs]

-----------------------------------------------------------------------------
(* What a message asks for: the first step of its handling and the id it     *)
(* names. "done" stands for what is answered without touching anything: an   *)
(* invalid number, a reaction, a photo, a blank or long text, a dead button. *)

Asks == {<<"done", NoBooking>>, <<"turn", NoBooking>>}
        \cup (BookingButtons \X {b \in Bookings : pending[b].state # "unborn"})
        \cup (VisitButtons \X {v \in Visits : visit[v].state # "unborn"})

Take(l) ==
    /\ pc[l] = "queued"
    /\ \/ \E a \in Asks : /\ TakeNew(l, a[1], now)
                          /\ arg' = [arg EXCEPT ![l] = a[2]]
       \/ TakeNothing(l, now) /\ UNCHANGED arg
    /\ Quiet /\ UNCHANGED <<now, pending, offer, visit>>

(* The handling of l goes on at `step`, or is over; registers that are not   *)
(* read any more are cleared.                                                *)
GoTo(l, step) ==
    /\ pc' = [pc EXCEPT ![l] = step]
    /\ UNCHANGED <<link, colas, log, marks, handled>>

End(l) ==
    /\ Settle(l)
    /\ arg' = [arg EXCEPT ![l] = NoVisit] /\ offer' = [offer EXCEPT ![l] = NoBooking]
    /\ UNCHANGED <<log, marks, handled>>

-----------------------------------------------------------------------------
(* A turn of the assistant. Its reading tools change nothing. *)

(* MUTANT of SaveProposal: the buttons stay those of the first proposal. *)
SaveProposalKeepFirst(l) ==
    /\ pc[l] = "save"
    /\ \E b \in Bookings :
         /\ Insert(b, SenderOf(l))
         /\ offer' = [offer EXCEPT ![l] = IF @ = NoBooking THEN b ELSE @]
    /\ GoTo(l, "turn")
    /\ Quiet /\ UNCHANGED <<now, arg, visit>>

(* crearReserva and reservarPaquete on WhatsApp. The salon has no such tool. *)
Propose(l) ==
    /\ pc[l] = "turn" /\ Client(l)
    /\ \E b \in Bookings : IsNext(b)
    /\ SupersedeActiveFor(SenderOf(l))
    /\ GoTo(l, "save")
    /\ Quiet /\ UNCHANGED <<now, localVars, visit>>

SaveProposal(l) ==
    /\ pc[l] = "save"
    /\ \E b \in Bookings :
         /\ Insert(b, SenderOf(l))
         /\ offer' = [offer EXCEPT ![l] = b]
    /\ GoTo(l, "turn")
    /\ Quiet /\ UNCHANGED <<now, arg, visit>>

(* citaParaConfirmar: the reservations cancelarReserva and reprogramarReserva *)
(* prepare a button for, with a summary; they change nothing.                *)
CitasParaConfirmar(l) == {v \in Visits : visit[v].state # "unborn" /\ MayActOn(l, v)}

(* The answer goes out message by message, each of which may fail: with the  *)
(* buttons of the last proposal and of a reservation, or without. A turn that failed or gave *)
(* up ends with the menu of the client's own visits.                         *)
Answer(l) ==
    /\ pc[l] = "turn"
    /\ \/ Send(l, offer[l], {})
       \/ \E v \in CitasParaConfirmar(l) : Send(l, offer[l], {v})
       \/ Client(l) /\ Send(l, NoBooking, Actionable(SenderOf(l)))
       \/ Quiet
    /\ End(l)
    /\ UNCHANGED <<now, pending, visit>>

-----------------------------------------------------------------------------
(* The buttons of a proposal. *)

Confirm(l) ==
    /\ pc[l] = "book_ok"
    /\ IF CanConsume(arg[l], SenderOf(l))
       THEN Consume(arg[l], SenderOf(l), "confirmada") /\ GoTo(l, "create")
       ELSE UNCHANGED pending /\ GoTo(l, "why")
    /\ Quiet /\ UNCHANGED <<now, localVars, visit>>

Discard(l) ==
    /\ pc[l] = "book_no"
    /\ IF CanConsume(arg[l], SenderOf(l))
       THEN Consume(arg[l], SenderOf(l), "descartada") /\ End(l)
       ELSE UNCHANGED <<pending, localVars>> /\ GoTo(l, "why")
    /\ Quiet /\ UNCHANGED <<now, visit>>

(* The row is read to say why, and the client is told. *)
ExplainWhy(l) ==
    /\ pc[l] = "why"
    /\ End(l)
    /\ Quiet /\ UNCHANGED <<now, pending, visit>>

(* CreateReservationUseCase for the number; it may refuse (the hour is taken). *)
CreateBooked(l) ==
    /\ pc[l] = "create"
    /\ \/ \E v \in Visits :
            /\ visit[v].state = "unborn" /\ \A u \in 1 .. (v - 1) : visit[u].state # "unborn"
            /\ visit' = [visit EXCEPT ![v] =
                            [phone |-> SenderOf(l), state |-> "pendiente", booking |-> arg[l]]]
       \/ UNCHANGED visit
    /\ End(l)
    /\ Quiet /\ UNCHANGED <<now, pending>>

-----------------------------------------------------------------------------
(* The buttons of a reservation. *)

(* MUTANT of MayLook: the id in the button is taken for a credential. *)
MayLookById(l, v) == visit[v].state # "unborn"

(* citaVisible and puedeVerla. *)
MayLook(l, v) == Client(l) => v \in Actionable(SenderOf(l))

(* What was read goes out, or "No encuentro esa cita". *)
Look(l, button) ==
    /\ pc[l] = button
    /\ Send(l, NoBooking, {v \in {arg[l]} : MayLook(l, v)})
    /\ End(l)
    /\ UNCHANGED <<now, pending, visit>>

MostrarOpciones(l) == Look(l, "reservation")
PedirConfirmacionDeCancelar(l) == Look(l, "cancel")
OfrecerDias(l) == Look(l, "reschedule")
OfrecerHoras(l) == Look(l, "reschedule_day")

(* Every use case may also refuse (another's visit, closed, too late), which *)
(* is told in words and changes nothing.                                     *)
Cancelar(l) ==
    /\ pc[l] = "cancel_ok"
    /\ \/ /\ MayActOn(l, arg[l]) /\ visit[arg[l]].state \in Active
          /\ visit' = [visit EXCEPT ![arg[l]].state = "cancelada"]
       \/ UNCHANGED visit
    /\ End(l)
    /\ Quiet /\ UNCHANGED <<now, pending>>

Confirmar(l) ==
    /\ pc[l] = "confirm"
    /\ \/ /\ ~Client(l) /\ visit[arg[l]].state = "pendiente"
          /\ visit' = [visit EXCEPT ![arg[l]].state = "confirmada"]
       \/ UNCHANGED visit
    /\ End(l)
    /\ Quiet /\ UNCHANGED <<now, pending>>

(* Moved or refused; a taken hour shows the hours left. *)
Mover(l) ==
    /\ pc[l] = "reschedule_at"
    /\ \/ End(l)
       \/ /\ MayActOn(l, arg[l]) /\ visit[arg[l]].state \in Active
          /\ GoTo(l, "reschedule_day") /\ UNCHANGED localVars
    /\ Quiet /\ UNCHANGED <<now, pending, visit>>

(* A query or a message to Meta failed: the handler logs it and returns. *)
Fail(l) ==
    /\ pc[l] \notin Idle
    /\ End(l)
    /\ Quiet /\ UNCHANGED <<now, pending, visit>>

Handle(l) ==
    /\ Running(l)
    /\ \/ Take(l)
       \/ Propose(l) \/ SaveProposal(l) \/ Answer(l)
       \/ Confirm(l) \/ Discard(l) \/ ExplainWhy(l) \/ CreateBooked(l)
       \/ MostrarOpciones(l) \/ PedirConfirmacionDeCancelar(l)
       \/ OfrecerDias(l) \/ OfrecerHoras(l)
       \/ Cancelar(l) \/ Confirmar(l) \/ Mover(l)
       \/ Fail(l)

-----------------------------------------------------------------------------
(* Meta delivers a message, once or more. *)
Deliver(m) ==
    /\ Receive(m)
    /\ Quiet /\ UNCHANGED <<now, pending, localVars, visit>>

Tick ==
    /\ now < MaxTime
    /\ now' = now + 1
    /\ Quiet /\ UNCHANGED <<pending, queueVars, localVars, visit>>

PurgePending ==
    /\ PurgeExpired
    /\ Quiet /\ UNCHANGED <<now, queueVars, localVars, visit>>

PruneLimiter ==
    /\ Prune(now)
    /\ Quiet /\ UNCHANGED <<now, pending, localVars, visit>>

(* The process dies and starts again. *)
Crash ==
    /\ Lose
    /\ arg' = [l \in Links |-> NoVisit] /\ offer' = [l \in Links |-> NoBooking]
    /\ Quiet /\ UNCHANGED <<now, pending, visit>>

Init ==
    /\ PendingInit /\ QueueInit
    /\ arg = [l \in Links |-> NoVisit]
    /\ offer = [l \in Links |-> NoBooking]
    /\ visit = [v \in Visits |->
                  IF v <= Len(Elsewhere)
                  THEN [phone |-> Elsewhere[v], state |-> "pendiente", booking |-> NoBooking]
                  ELSE [phone |-> Owner, state |-> "unborn", booking |-> NoBooking]]
    /\ sent = Silence

Next ==
    \/ \E l \in Links : Handle(l)
    \/ \E m \in Messages : Deliver(m)
    \/ Tick \/ PurgePending \/ PruneLimiter \/ Crash

(* Queries, the model and Meta answer or time out, so a running delivery     *)
(* goes on. Nobody must write, tap or purge, and time may stand still.       *)
Spec == Init /\ [][Next]_vars /\ \A l \in Links : WF_vars(Handle(l))

-----------------------------------------------------------------------------
(* Properties *)

TypeOK ==
    /\ PendingTypeOK /\ QueueTypeOK(Steps)
    /\ arg \in [Links -> Bookings \cup Visits \cup {NoVisit}]
    /\ offer \in [Links -> Bookings \cup {NoBooking}]
    /\ visit \in [Visits -> Visit]
    /\ sent \in [to : Senders, booking : Bookings \cup {NoBooking}, visits : SUBSET Visits]

(* Two taps, a redelivery or a restart never book one proposal twice, and    *)
(* what was booked is a proposal its own client confirmed.                   *)
BookedOnce ==
    \A v \in Visits :
        LET b == visit[v].booking
        IN  b # NoBooking =>
                /\ pending[b].state \in {"confirmada", "purged"}
                /\ pending[b].phone = visit[v].phone
                /\ \A u \in Visits \ {v} : visit[u].booking # b

(* The buttons a client gets are those of her newest proposal, and at that   *)
(* moment it can still be used: they never name one already replaced.        *)
ButtonIsLive ==
    [][LET b == sent'.booking
       IN  b # NoBooking =>
               /\ pending[b].phone = sent'.to
               /\ pending[b].state \in {"open", "purged"}
               /\ \A c \in Bookings : Stored(c) /\ pending[c].phone = sent'.to => c <= b]_vars

(* A number is only ever shown reservations made for it, whatever id its     *)
(* buttons name.                                                             *)
Disclosure == sent.to # Owner => \A v \in sent.visits : visit[v].phone = sent.to

(* The queue empties itself: no failure, refusal or duplicate blocks a       *)
(* sender for good, and no sender stays in the map for ever.                 *)
QueueEmpties == []<>(\A s \in Senders : colas[s] = NoLink)
=============================================================================
