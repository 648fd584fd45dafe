------------------------ MODULE WhatsAppChannelProofs ------------------------
(***************************************************************************)
(* The safety of the WhatsApp channel, for any number of deliveries,       *)
(* messages, numbers, proposals and reservations.                          *)
(***************************************************************************)
EXTENDS WhatsAppChannel, TLAPS, FiniteSetTheorems

(* A button's register names what the button is about. *)
ArgsFit ==
    \A l \in Links :
        /\ pc[l] \in BookingButtons \cup {"create"} => arg[l] \in Bookings
        /\ pc[l] \in VisitButtons => arg[l] \in Visits

TypeInv == TypeOK /\ ArgsFit

(* What the queue does to a link: it goes on, it settles, it is chained, or  *)
(* all of them are lost.                                                     *)
Advances(l) == \E step \in Steps : pc' = [pc EXCEPT ![l] = step] /\ UNCHANGED <<link, colas>>
QueueStep ==
    \/ \E l \in Links : Running(l) /\ (Advances(l) \/ Settle(l))
    \/ \E m \in Messages : Receive(m)
    \/ Lose
    \/ UNCHANGED <<pc, link, colas>>

USE DEF Links, NoLink, Idle, Settled, Bookings, Visits, NoVisit, NoBooking

(* Initially nothing is running, and the tables hold what was there before. *)
LEMMA InitTypes == Init => TypeInv
<1> SUFFICES ASSUME Init PROVE TypeInv OBVIOUS
<1> USE PendingAssumption, QueueAssumption, ChannelAssumption
<1>1. PendingTypeOK
  <2> DEFINE nobody == CHOOSE p \in Phones : TRUE
  <2>1. nobody \in Phones OBVIOUS
  <2> HIDE DEF nobody
  <2>2. PICK left \in EarlierLeft : pending = [b \in Bookings |->
                      IF b <= Len(Earlier)
                      THEN [state |-> "open", phone |-> Earlier[b], expires |-> left]
                      ELSE [state |-> "unborn", phone |-> nobody, expires |-> 0]]
    BY DEF Init, PendingInit, nobody
  <2>3. left \in Nat OBVIOUS
  <2>4. \A b \in Bookings : b <= Len(Earlier) => Earlier[b] \in Phones OBVIOUS
  <2>5. pending \in [Bookings -> Proposal] BY <2>1, <2>2, <2>3, <2>4 DEF Proposal
  <2>6. now = 0 BY DEF Init, PendingInit
  <2> QED BY <2>5, <2>6 DEF PendingTypeOK
<1>2. QueueTypeOK(Steps) BY DEF Init, QueueInit, QueueTypeOK, NoTask
<1>3. visit \in [Visits -> Visit] BY DEF Init, Visit, Active
<1>4. sent \in [to : Senders, booking : Bookings \cup {NoBooking}, visits : SUBSET Visits]
  BY DEF Init, Silence
<1>5. ArgsFit BY DEF Init, QueueInit, ArgsFit, BookingButtons, VisitButtons
<1> QED BY <1>1, <1>2, <1>3, <1>4, <1>5 DEF Init, TypeInv, TypeOK

(* Every step of a delivery moves it along its queue in one of two ways. *)
LEMMA HandleMoves ==
    ASSUME TypeInv, NEW l \in Links, Handle(l)
    PROVE  Running(l) /\ (Advances(l) \/ Settle(l))
<1> USE DEF GoTo, End, Advances, Steps, BookingButtons, VisitButtons
<1>1. CASE Take(l)
  <2>1. ASSUME NEW a \in Asks, TakeNew(l, a[1], now) PROVE Advances(l) \/ Settle(l)
    <3>1. a[1] \in Steps \cup {"done"} BY <2>1 DEF Asks
    <3> QED BY <2>1, <3>1 DEF TakeNew
  <2> QED BY <1>1, <2>1 DEF Take, TakeNothing, Handle
<1>2. CASE Propose(l) \/ SaveProposal(l) \/ Answer(l) BY <1>2 DEF Handle, Propose, SaveProposal, Answer
<1>3. CASE Confirm(l) \/ Discard(l) \/ ExplainWhy(l) \/ CreateBooked(l)
  BY <1>3 DEF Handle, Confirm, Discard, ExplainWhy, CreateBooked
<1>4. CASE MostrarOpciones(l) \/ PedirConfirmacionDeCancelar(l) \/ OfrecerDias(l) \/ OfrecerHoras(l)
  BY <1>4 DEF Handle, MostrarOpciones, PedirConfirmacionDeCancelar, OfrecerDias, OfrecerHoras, Look
<1>5. CASE Cancelar(l) \/ Confirmar(l) \/ Mover(l) \/ Fail(l)
  BY <1>5 DEF Handle, Cancelar, Confirmar, Mover, Fail
<1> QED BY <1>1, <1>2, <1>3, <1>4, <1>5 DEF Handle

(* What a step may do to the registers: the buttons a running delivery keeps *)
(* stay what they were.                                                      *)
LEMMA QueueTypes ==
    ASSUME QueueTypeOK(Steps), QueueStep
    PROVE  /\ pc' \in [Links -> Steps \cup Idle \cup {"queued"}]
           /\ link' \in [Links -> [msg : Messages \cup {NoMessage}, prev : Links \cup {NoLink}]]
           /\ \A l \in Links : pc'[l] \notin Idle => link'[l].msg \in Messages
           /\ colas' \in [Senders -> Links \cup {NoLink}]
<1> USE QueueAssumption DEF QueueTypeOK
<1>1. CASE \E l \in Links : Running(l) /\ Advances(l) BY <1>1 DEF Running, Advances
<1>2. CASE \E l \in Links : Running(l) /\ Settle(l)
  BY <1>2 DEF Running, Settle, Forget, SenderOf, NoTask
<1>3. CASE \E m \in Messages : Receive(m) BY <1>3 DEF Receive, IsNextLink
<1>4. CASE Lose BY <1>4 DEF Lose, NoTask
<1>5. CASE UNCHANGED <<pc, link, colas>> BY <1>5
<1> QED BY <1>1, <1>2, <1>3, <1>4, <1>5 DEF QueueStep

LEMMA NextMoves == ASSUME TypeInv, [Next]_vars PROVE QueueStep
BY HandleMoves DEF Next, Deliver, Tick, PurgePending, PruneLimiter, Crash, Prune, queueVars, vars, QueueStep
(* The parts of the state a step of a delivery may leave alone. *)
RestTyped ==
    /\ log \subseteq Messages
    /\ marks \in [Senders -> SUBSET (Nat \X Links)]
    /\ handled \in [Messages -> Nat]
RegistersTyped ==
    /\ arg \in [Links -> Bookings \cup Visits \cup {NoVisit}]
    /\ offer \in [Links -> Bookings \cup {NoBooking}]
    /\ ArgsFit
SentTyped == sent \in [to : Senders, booking : Bookings \cup {NoBooking}, visits : SUBSET Visits]

LEMMA EndTypes ==
    ASSUME TypeInv, NEW l \in Links, End(l)
    PROVE  RestTyped' /\ RegistersTyped'
<1> USE DEF TypeInv, TypeOK, QueueTypeOK, End, RestTyped, RegistersTyped
<1>1. RestTyped' OBVIOUS
<1>2. RegistersTyped'
  BY DEF Settle, ArgsFit, BookingButtons, VisitButtons
<1> QED BY <1>1, <1>2

LEMMA GoToTypes ==
    ASSUME TypeInv, NEW l \in Links, NEW step, GoTo(l, step), UNCHANGED arg,
           step \in BookingButtons \cup {"create"} => arg[l] \in Bookings,
           step \in VisitButtons => arg[l] \in Visits,
           offer' \in [Links -> Bookings \cup {NoBooking}]
    PROVE  RestTyped' /\ RegistersTyped'
BY DEF TypeInv, TypeOK, QueueTypeOK, GoTo, RestTyped, RegistersTyped, ArgsFit

LEMMA QuietTypes == ASSUME Quiet PROVE SentTyped'
BY ChannelAssumption DEF Quiet, Silence, SentTyped

LEMMA HandleTypes ==
    ASSUME TypeInv, NEW l \in Links, Handle(l)
    PROVE  TypeInv'
<1>1. QueueStep BY HandleMoves DEF QueueStep
<1>2. /\ pc' \in [Links -> Steps \cup Idle \cup {"queued"}]
      /\ link' \in [Links -> [msg : Messages \cup {NoMessage}, prev : Links \cup {NoLink}]]
      /\ \A k \in Links : pc'[k] \notin Idle => link'[k].msg \in Messages
      /\ colas' \in [Senders -> Links \cup {NoLink}]
  BY <1>1, QueueTypes DEF TypeInv, TypeOK
<1>3. SenderOf(l) \in Senders /\ SenderOf(l) \in Phones
  BY QueueAssumption, ChannelAssumption DEF Handle, Running, TypeInv, TypeOK, QueueTypeOK, SenderOf
<1>4. ASSUME PendingTypeOK', visit' \in [Visits -> Visit], RestTyped', RegistersTyped', SentTyped'
      PROVE  TypeInv'
  BY <1>2, <1>4 DEF TypeInv, TypeOK, QueueTypeOK, RestTyped, RegistersTyped, SentTyped
<1>5. /\ PendingTypeOK /\ visit \in [Visits -> Visit]
      /\ RestTyped /\ RegistersTyped
  BY DEF TypeInv, TypeOK, QueueTypeOK, RestTyped, RegistersTyped
<1>6. CASE Take(l)
  <2>1. PendingTypeOK' /\ visit' \in [Visits -> Visit] /\ SentTyped'
    BY <1>5, <1>6, QuietTypes DEF Take, PendingTypeOK
  <2>2. ASSUME NEW a \in Asks, TakeNew(l, a[1], now), arg' = [arg EXCEPT ![l] = a[2]], UNCHANGED offer
        PROVE  RestTyped' /\ RegistersTyped'
    <3>1. RestTyped'
      BY <1>3, <1>5, <2>2 DEF TakeNew, RestTyped, PendingTypeOK, TypeInv, TypeOK, QueueTypeOK, Handle, Running
    <3>2. /\ a[2] \in Bookings \cup Visits \cup {NoVisit}
          /\ a[1] \in BookingButtons \cup {"create"} => a[2] \in Bookings
          /\ a[1] \in VisitButtons => a[2] \in Visits
      BY DEF Asks, BookingButtons, VisitButtons
    <3>3. pc'[l] \in {a[1], "done"} /\ \A k \in Links \ {l} : pc'[k] = pc[k]
      BY <2>2 DEF TakeNew, Settle, TypeInv, TypeOK, QueueTypeOK
    <3>4. RegistersTyped'
      BY <1>5, <2>2, <3>2, <3>3 DEF RegistersTyped, ArgsFit, BookingButtons, VisitButtons
    <3> QED BY <3>1, <3>4
  <2>3. ASSUME TakeNothing(l, now), UNCHANGED <<arg, offer>>
        PROVE  RestTyped' /\ RegistersTyped'
    <3>1. RestTyped'
      BY <1>3, <1>5, <2>3 DEF TakeNothing, RestTyped, TypeInv, TypeOK, QueueTypeOK, Handle, Running
    <3>2. RegistersTyped'
      BY <1>5, <2>3 DEF TakeNothing, Settle, RegistersTyped, ArgsFit, BookingButtons, VisitButtons,
                        TypeInv, TypeOK, QueueTypeOK
    <3> QED BY <3>1, <3>2
  <2> QED BY <1>4, <1>6, <2>1, <2>2, <2>3 DEF Take
<1>7. CASE Propose(l)
  <2>1. PendingTypeOK'
    BY <1>5, <1>7 DEF Propose, SupersedeActiveFor, PendingTypeOK, Proposal, Outcomes
  <2>2. RestTyped' /\ RegistersTyped'
    BY <1>5, <1>7, GoToTypes DEF Propose, localVars, BookingButtons, VisitButtons, RegistersTyped
  <2> QED BY <1>4, <1>5, <1>7, <2>1, <2>2, QuietTypes DEF Propose
<1>8. CASE SaveProposal(l)
  <2>1. PendingTypeOK'
    BY <1>3, <1>5, <1>8, PendingAssumption DEF SaveProposal, Insert, PendingTypeOK, Proposal
  <2>2. offer' \in [Links -> Bookings \cup {NoBooking}] BY <1>5, <1>8 DEF SaveProposal, RegistersTyped
  <2>3. RestTyped' /\ RegistersTyped'
    BY <1>8, <2>2, GoToTypes DEF SaveProposal, BookingButtons, VisitButtons
  <2> QED BY <1>4, <1>5, <1>8, <2>1, <2>3, QuietTypes DEF SaveProposal
<1>9. CASE Answer(l)
  <2>1. SentTyped'
    <3>1. Actionable(SenderOf(l)) \subseteq Visits /\ CitasParaConfirmar(l) \subseteq Visits
      BY DEF Actionable, CitasParaConfirmar
    <3>2. offer[l] \in Bookings \cup {NoBooking} BY <1>5 DEF RegistersTyped
    <3> QED BY <1>3, <1>9, <3>1, <3>2, QuietTypes, ChannelAssumption DEF Answer, Send, SentTyped, Silence
  <2> QED BY <1>4, <1>5, <1>9, <2>1, EndTypes DEF Answer, PendingTypeOK
<1>10. CASE Confirm(l)
  <2>1. PendingTypeOK'
    BY <1>5, <1>10 DEF Confirm, Consume, PendingTypeOK, Proposal, Outcomes
  <2>2. RestTyped' /\ RegistersTyped'
    BY <1>5, <1>10, GoToTypes DEF Confirm, localVars, BookingButtons, VisitButtons, RegistersTyped, ArgsFit
  <2> QED BY <1>4, <1>5, <1>10, <2>1, <2>2, QuietTypes DEF Confirm
<1>11. CASE Discard(l)
  <2>1. PendingTypeOK'
    BY <1>5, <1>11 DEF Discard, Consume, PendingTypeOK, Proposal, Outcomes
  <2>2. RestTyped' /\ RegistersTyped'
    BY <1>5, <1>11, GoToTypes, EndTypes DEF Discard, localVars, BookingButtons, VisitButtons, RegistersTyped
  <2> QED BY <1>4, <1>5, <1>11, <2>1, <2>2, QuietTypes DEF Discard
<1>12. CASE ExplainWhy(l) \/ Fail(l)
  BY <1>4, <1>5, <1>12, EndTypes, QuietTypes DEF ExplainWhy, Fail, PendingTypeOK
<1>13. CASE CreateBooked(l)
  <2>1. visit' \in [Visits -> Visit]
    BY <1>3, <1>5, <1>13 DEF CreateBooked, RegistersTyped, ArgsFit, Visit, Active
  <2> QED BY <1>4, <1>5, <1>13, <2>1, EndTypes, QuietTypes DEF CreateBooked, PendingTypeOK
<1>14. CASE MostrarOpciones(l) \/ PedirConfirmacionDeCancelar(l) \/ OfrecerDias(l) \/ OfrecerHoras(l)
  <2>1. PICK button \in VisitButtons : Look(l, button)
    BY <1>14 DEF MostrarOpciones, PedirConfirmacionDeCancelar, OfrecerDias, OfrecerHoras, VisitButtons
  <2>2. arg[l] \in Visits BY <1>5, <2>1 DEF Look, RegistersTyped, ArgsFit
  <2>3. SentTyped'
    BY <1>3, <2>1, <2>2, ChannelAssumption DEF Look, Send, SentTyped, Silence
  <2> QED BY <1>4, <1>5, <2>1, <2>3, EndTypes DEF Look, PendingTypeOK
<1>15. CASE Cancelar(l) \/ Confirmar(l)
  <2>1. visit' \in [Visits -> Visit]
    BY <1>5, <1>15 DEF Cancelar, Confirmar, Visit, Active
  <2> QED BY <1>4, <1>5, <1>15, <2>1, EndTypes, QuietTypes DEF Cancelar, Confirmar, PendingTypeOK
<1>16. CASE Mover(l)
  <2>1. RestTyped' /\ RegistersTyped'
    BY <1>5, <1>16, GoToTypes, EndTypes
    DEF Mover, localVars, BookingButtons, VisitButtons, RegistersTyped, ArgsFit
  <2> QED BY <1>4, <1>5, <1>16, <2>1, QuietTypes DEF Mover, PendingTypeOK
<1> QED
  BY <1>6, <1>7, <1>8, <1>9, <1>10, <1>11, <1>12, <1>13, <1>14, <1>15, <1>16 DEF Handle

LEMMA StepTypes == ASSUME TypeInv, [Next]_vars PROVE TypeInv'
<1> USE QueueAssumption, PendingAssumption, ChannelAssumption
<1>1. CASE \E l \in Links : Handle(l) BY <1>1, HandleTypes
<1>2. ASSUME [Next]_vars, ~\E l \in Links : Handle(l) PROVE TypeInv'
  <2>1. /\ pc' \in [Links -> Steps \cup Idle \cup {"queued"}]
        /\ link' \in [Links -> [msg : Messages \cup {NoMessage}, prev : Links \cup {NoLink}]]
        /\ \A k \in Links : pc'[k] \notin Idle => link'[k].msg \in Messages
        /\ colas' \in [Senders -> Links \cup {NoLink}]
    BY NextMoves, QueueTypes DEF TypeInv, TypeOK
  <2>2. RestTyped' /\ RegistersTyped'
    <3>1. CASE \E m \in Messages : Deliver(m)
      BY <3>1 DEF Deliver, Receive, localVars, TypeInv, TypeOK, QueueTypeOK, RestTyped, RegistersTyped,
                  ArgsFit, BookingButtons, VisitButtons
    <3>2. CASE Crash
      BY <3>2 DEF Crash, Lose, TypeInv, TypeOK, QueueTypeOK, RestTyped, RegistersTyped, ArgsFit,
                  BookingButtons, VisitButtons
    <3>3. CASE Tick \/ PurgePending \/ UNCHANGED vars
      BY <3>3 DEF Tick, PurgePending, vars, localVars, queueVars, TypeInv, TypeOK, QueueTypeOK,
                  RestTyped, RegistersTyped, ArgsFit
    <3>4. CASE PruneLimiter
      BY <3>4 DEF PruneLimiter, Prune, localVars, TypeInv, TypeOK, QueueTypeOK, RestTyped, RegistersTyped, ArgsFit
    <3> QED BY <1>2, <3>1, <3>2, <3>3, <3>4 DEF Next
  <2>3. PendingTypeOK'
    <3>1. CASE PurgePending
      BY <3>1 DEF PurgePending, PurgeExpired, TypeInv, TypeOK, PendingTypeOK, Proposal, Outcomes
    <3>2. CASE Tick BY <3>2 DEF Tick, TypeInv, TypeOK, PendingTypeOK
    <3> QED BY <1>2, <3>1, <3>2 DEF Next, Deliver, PruneLimiter, Crash, vars, TypeInv, TypeOK, PendingTypeOK
  <2>4. visit' \in [Visits -> Visit] /\ SentTyped'
    BY <1>2, QuietTypes DEF Next, Deliver, Tick, PurgePending, PruneLimiter, Crash, vars,
                TypeInv, TypeOK, SentTyped
  <2> QED BY <2>1, <2>2, <2>3, <2>4 DEF TypeInv, TypeOK, QueueTypeOK, RestTyped, RegistersTyped, SentTyped
<1> QED BY <1>1, <1>2

THEOREM Typed == Spec => []TypeInv
BY InitTypes, StepTypes, PTL DEF Spec

(* The channel's variables have their types whatever is delivered, fails or  *)
(* dies, for every number of deliveries, messages, numbers and rows.         *)
THEOREM TypeCorrect == Spec => []TypeOK
BY Typed, PTL DEF TypeInv

-----------------------------------------------------------------------------
(***************************************************************************)
(* The queue. The links of a sender that are not over form one chain: each *)
(* was chained to the last one before it, which is over only if no earlier *)
(* one is left, and the map holds the newest.                              *)
(***************************************************************************)
Busy(l) == pc[l] \notin Idle
SameSender(k, l) == SenderOf(k) = SenderOf(l)

Numbered == \A k, l \in Links : k < l /\ pc[l] # "unborn" => pc[k] # "unborn"
Chained ==
    \A l \in Links : Busy(l) =>
        /\ link[l].prev < l
        /\ \A p \in Links : p = link[l].prev /\ Busy(p) => SameSender(p, l)
        /\ \A k \in Links : Busy(k) /\ SameSender(k, l) /\ k < l =>
              k <= link[l].prev /\ pc[link[l].prev] # "done"
Started == \A l \in Links : Busy(l) /\ pc[l] # "queued" => Running(l)
Mapped ==
    \A s \in Senders :
        /\ \A k \in Links : Busy(k) /\ SenderOf(k) = s => colas[s] # NoLink /\ k <= colas[s]
        /\ colas[s] # NoLink => Busy(colas[s]) /\ SenderOf(colas[s]) = s
Chain == Numbered /\ Chained /\ Started /\ Mapped

LEMMA RunningFirst ==
    ASSUME TypeInv, Chain, NEW l \in Links, NEW k \in Links,
           Running(l), Busy(k), SameSender(k, l)
    PROVE  l <= k
<1> USE QueueAssumption
<1>1. SUFFICES ASSUME k < l PROVE FALSE BY DEF Links
<1>2. Busy(l) /\ link[l].prev \in Links \cup {NoLink}
  BY DEF Running, Busy, TypeInv, TypeOK, QueueTypeOK
<1>3. k <= link[l].prev /\ pc[link[l].prev] # "done" BY <1>1, <1>2 DEF Chain, Chained
<1>4. link[l].prev \in Links BY <1>2, <1>3
<1>5. pc[link[l].prev] \in Settled BY <1>4 DEF Running
<1> QED BY <1>3, <1>5

LEMMA ChainSettles ==
    ASSUME TypeInv, TypeInv', Chain, NEW l \in Links, Running(l), Settle(l)
    PROVE  Chain'
<1> USE QueueAssumption DEF TypeInv, TypeOK, QueueTypeOK
<1>1. /\ pc'[l] = "done" /\ Busy(l)
      /\ \A k \in Links \ {l} : pc'[k] = pc[k] /\ link'[k] = link[k]
      /\ \A k \in Links : Busy(k)' => k # l /\ Busy(k) /\ SenderOf(k)' = SenderOf(k)
  BY DEF Settle, Busy, Running, SenderOf
<1>2. Numbered' BY <1>1 DEF Chain, Numbered, Busy
<1>3. Chained'
  <2>1. SUFFICES ASSUME NEW k \in Links, Busy(k)'
                 PROVE  /\ link'[k].prev < k
                        /\ \A p \in Links : p = link'[k].prev /\ Busy(p)' => SameSender(p, k)'
                        /\ \A j \in Links : Busy(j)' /\ SameSender(j, k)' /\ j < k =>
                              j <= link'[k].prev /\ pc'[link'[k].prev] # "done"
    BY DEF Chained
  <2>2. link'[k].prev < k /\ \A p \in Links : p = link'[k].prev /\ Busy(p)' => SameSender(p, k)'
    BY <1>1, <2>1 DEF Chain, Chained, SameSender
  <2>3. ASSUME NEW j \in Links, Busy(j)', SameSender(j, k)', j < k
        PROVE  j <= link'[k].prev /\ pc'[link'[k].prev] # "done"
    <3>1. j <= link[k].prev /\ pc[link[k].prev] # "done" /\ link'[k] = link[k] /\ link[k].prev \in Links
      BY <1>1, <2>1, <2>3 DEF Chain, Chained, SameSender
    <3>2. link[k].prev # l
      <4>1. SUFFICES ASSUME link[k].prev = l PROVE FALSE OBVIOUS
      <4>2. SameSender(l, k) BY <1>1, <2>1, <4>1 DEF Chain, Chained
      <4>3. SameSender(j, l) /\ Busy(j) BY <1>1, <2>1, <2>3, <4>2 DEF SameSender
      <4>4. l <= j BY <4>3, RunningFirst
      <4> QED BY <1>1, <2>3, <3>1, <4>1, <4>4
    <3> QED BY <1>1, <3>1, <3>2
  <2> QED BY <2>2, <2>3
<1>4. Started' BY <1>1 DEF Chain, Started, Busy, Running
<1>5. Mapped'
  <2>1. SUFFICES ASSUME NEW s \in Senders
                 PROVE  /\ \A k \in Links : Busy(k)' /\ SenderOf(k)' = s => colas'[s] # NoLink /\ k <= colas'[s]
                        /\ colas'[s] # NoLink => Busy(colas[s])' /\ SenderOf(colas[s])' = s
    BY DEF Mapped
  <2>2. SenderOf(l) \in Senders BY <1>1 DEF SenderOf, Busy
  <2>3. CASE s = SenderOf(l) /\ colas[s] = l
    <3>1. colas'[s] = NoLink BY <2>2, <2>3 DEF Settle, Forget
    <3>2. ASSUME NEW k \in Links, Busy(k)', SenderOf(k)' = s PROVE FALSE
      <4>1. k # l /\ Busy(k) /\ SameSender(k, l) BY <1>1, <2>3, <3>2 DEF SameSender
      <4>2. k <= l BY <2>3, <4>1 DEF Chain, Mapped, SameSender
      <4> QED BY <4>1, <4>2, RunningFirst
    <3> QED BY <3>1, <3>2
  <2>4. CASE ~(s = SenderOf(l) /\ colas[s] = l)
    <3>1. colas'[s] = colas[s] BY <2>2, <2>4 DEF Settle, Forget
    <3>2. colas[s] # NoLink => colas[s] # l
      BY <2>4 DEF Chain, Mapped
    <3> QED BY <1>1, <3>1, <3>2 DEF Chain, Mapped, Busy, SenderOf
  <2> QED BY <2>3, <2>4
<1> QED BY <1>2, <1>3, <1>4, <1>5 DEF Chain

LEMMA ChainAdvances ==
    ASSUME TypeInv, TypeInv', Chain, NEW l \in Links, Running(l), Advances(l)
    PROVE  Chain'
<1> USE QueueAssumption DEF TypeInv, TypeOK, QueueTypeOK
<1>1. PICK step \in Steps : pc' = [pc EXCEPT ![l] = step] /\ UNCHANGED <<link, colas>>
  BY DEF Advances
<1>2. /\ Busy(l) /\ Busy(l)'
      /\ \A k \in Links \ {l} : pc'[k] = pc[k]
      /\ \A k \in Links : Busy(k)' <=> Busy(k)
      /\ \A k \in Links : SenderOf(k)' = SenderOf(k)
  BY <1>1 DEF Running, Busy, SenderOf, Steps, BookingButtons, VisitButtons
<1>3. Numbered' BY <1>2 DEF Chain, Numbered, Busy
<1>4. Chained' BY <1>1, <1>2 DEF Chain, Chained, SameSender, Busy
<1>5. Started' BY <1>1, <1>2 DEF Chain, Started, Running, Busy
<1>6. Mapped' BY <1>1, <1>2 DEF Chain, Mapped
<1> QED BY <1>3, <1>4, <1>5, <1>6 DEF Chain

LEMMA ChainGrows ==
    ASSUME TypeInv, TypeInv', Chain, NEW m \in Messages, Receive(m)
    PROVE  Chain'
<1> USE QueueAssumption DEF TypeInv, TypeOK, QueueTypeOK
<1>1. PICK l \in Links :
        /\ IsNextLink(l)
        /\ pc' = [pc EXCEPT ![l] = "queued"]
        /\ link' = [link EXCEPT ![l] = [msg |-> m, prev |-> colas[From[m]]]]
        /\ colas' = [colas EXCEPT ![From[m]] = l]
  BY DEF Receive
<1>2. \A k \in Links : pc[k] # "unborn" => k < l
  BY <1>1 DEF IsNextLink, Chain, Numbered
<1>3. /\ Busy(l)' /\ ~Busy(l) /\ SenderOf(l)' = From[m] /\ From[m] \in Senders
      /\ \A k \in Links \ {l} : pc'[k] = pc[k] /\ link'[k] = link[k]
      /\ \A k \in Links \ {l} : (Busy(k)' <=> Busy(k)) /\ SenderOf(k)' = SenderOf(k)
      /\ \A k \in Links : Busy(k) => k < l
  BY <1>1, <1>2 DEF IsNextLink, Busy, SenderOf
<1>4. Numbered' BY <1>1, <1>3 DEF IsNextLink, Chain, Numbered
<1>5. Chained'
  <2>1. SUFFICES ASSUME NEW k \in Links, Busy(k)'
                 PROVE  /\ link'[k].prev < k
                        /\ \A p \in Links : p = link'[k].prev /\ Busy(p)' => SameSender(p, k)'
                        /\ \A j \in Links : Busy(j)' /\ SameSender(j, k)' /\ j < k =>
                              j <= link'[k].prev /\ pc'[link'[k].prev] # "done"
    BY DEF Chained
  <2>2. CASE k = l
    <3>1. link'[k].prev = colas[From[m]] BY <1>1, <2>2
    <3>2. colas[From[m]] # NoLink =>
             Busy(colas[From[m]]) /\ SenderOf(colas[From[m]]) = From[m] /\ colas[From[m]] < l
      BY <1>3 DEF Chain, Mapped
    <3>3. \A j \in Links : Busy(j)' /\ SameSender(j, k)' /\ j < k =>
             colas[From[m]] # NoLink /\ j <= colas[From[m]]
      BY <1>3, <2>2 DEF Chain, Mapped, SameSender
    <3> QED BY <1>3, <2>2, <3>1, <3>2, <3>3 DEF Busy, SameSender
  <2>3. CASE k # l
    <3>1. Busy(k) /\ k < l /\ link'[k] = link[k] BY <1>3, <2>1, <2>3
    <3> QED BY <1>3, <2>3, <3>1 DEF Chain, Chained, SameSender
  <2> QED BY <2>2, <2>3
<1>6. Started' BY <1>1, <1>3 DEF Chain, Started, Running, Busy, IsNextLink
<1>7. Mapped' BY <1>1, <1>3 DEF Chain, Mapped
<1> QED BY <1>4, <1>5, <1>6, <1>7 DEF Chain

LEMMA ChainStep == ASSUME TypeInv, TypeInv', Chain, [Next]_vars PROVE Chain'
<1> USE QueueAssumption DEF TypeInv, TypeOK, QueueTypeOK
<1>1. CASE Lose
  <2>1. \A l \in Links : ~Busy(l)' BY <1>1 DEF Lose, Busy
  <2>2. Numbered' BY <1>1 DEF Lose, Chain, Numbered
  <2> QED BY <1>1, <2>1, <2>2 DEF Lose, Chain, Chained, Started, Mapped
<1>2. CASE UNCHANGED <<pc, link, colas>>
  BY <1>2 DEF Chain, Numbered, Chained, Started, Mapped, Busy, SameSender, SenderOf, Running
<1> QED BY <1>1, <1>2, NextMoves, ChainSettles, ChainAdvances, ChainGrows DEF QueueStep

LEMMA Chains == Spec => [](TypeInv /\ Chain)
<1>1. Init => Chain
  BY QueueAssumption DEF Init, QueueInit, Chain, Numbered, Chained, Started, Mapped, Busy
<1> QED BY <1>1, Typed, ChainStep, PTL DEF Spec

(* Of one sender one delivery is worked on at a time, and a sender is in the *)
(* queue's map exactly while it has work, for every number of deliveries.    *)
THEOREM OneByOne == Spec => []OneAtATime
<1>1. TypeInv /\ Chain => OneAtATime
  <2> SUFFICES ASSUME TypeInv, Chain, NEW s \in Senders
               PROVE  /\ \A l, k \in Unsettled(s) : Running(l) /\ Running(k) => l = k
                      /\ colas[s] = NoLink <=> Unsettled(s) = {}
    BY DEF OneAtATime
  <2>1. ASSUME NEW l \in Unsettled(s), NEW k \in Unsettled(s), Running(l), Running(k) PROVE l = k
    <3>1. l <= k /\ k <= l BY <2>1, RunningFirst DEF Unsettled, Busy, SameSender
    <3> QED BY <3>1, QueueAssumption DEF Unsettled
  <2>2. colas[s] = NoLink <=> Unsettled(s) = {}
    BY QueueAssumption DEF TypeInv, TypeOK, QueueTypeOK, Chain, Mapped, Unsettled, Busy
  <2> QED BY <2>1, <2>2
<1> QED BY <1>1, Chains, PTL

-----------------------------------------------------------------------------
(* The log of processed messages. *)

Logged == \A m \in Messages : handled[m] <= 1 /\ (m \notin log => handled[m] = 0)

LEMMA LoggedStep == ASSUME TypeInv, TypeInv', Logged, [Next]_vars PROVE Logged'
<1> USE DEF TypeInv, TypeOK, QueueTypeOK
<1>1. CASE \E l \in Links : Take(l) /\ Running(l)
  <2>1. PICK l \in Links : Take(l) /\ Running(l) BY <1>1
  <2>2. link[l].msg \in Messages BY <2>1 DEF Running
  <2>3. CASE \E a \in Asks : TakeNew(l, a[1], now) BY <2>2, <2>3 DEF TakeNew, IsNew, Logged
  <2>4. CASE TakeNothing(l, now) BY <2>4 DEF TakeNothing, Logged
  <2> QED BY <2>1, <2>3, <2>4 DEF Take
<1>2. CASE UNCHANGED <<log, handled>> BY <1>2 DEF Logged
<1>3. ASSUME NEW l \in Links, Handle(l), ~Take(l) PROVE UNCHANGED <<log, handled>>
  BY <1>3 DEF Handle, Propose, SaveProposal, Answer, Confirm, Discard, ExplainWhy, CreateBooked,
              MostrarOpciones, PedirConfirmacionDeCancelar, OfrecerDias, OfrecerHoras, Look,
              Cancelar, Confirmar, Mover, Fail, GoTo, End
<1>4. CASE ~\E l \in Links : Handle(l)
  BY <1>2, <1>4 DEF Next, Deliver, Receive, Tick, PurgePending, PruneLimiter, Prune, Crash, Lose, vars, queueVars
<1> QED BY <1>1, <1>2, <1>3, <1>4 DEF Handle

(* A message reaches the handler once at most, for any number of deliveries. *)
THEOREM Once == Spec => []HandledOnce
<1>1. Init => Logged BY DEF Init, QueueInit, Logged
<1>2. Logged => HandledOnce BY DEF Logged, HandledOnce
<1> QED BY <1>1, <1>2, Typed, LoggedStep, PTL DEF Spec

-----------------------------------------------------------------------------
(***************************************************************************)
(* The proposals. A number has one open proposal at most, because only its *)
(* delivery at work saves one, after it has replaced the others; and that  *)
(* delivery is alone.                                                      *)
(***************************************************************************)
AtWork(l) == Busy(l) /\ pc[l] # "queued"
OpenOnce ==
    \A b, c \in Bookings :
        /\ pending[b].state = "open" /\ pending[c].state = "open" /\ pending[b].phone = pending[c].phone
              => b = c
        /\ b < c /\ pending[c].state # "unborn" => pending[b].state # "unborn"
Replaced ==
    \A l \in Links : pc[l] = "save" =>
        \A b \in Bookings : pending[b].state = "open" => pending[b].phone # SenderOf(l)
ProposalInv == OpenOnce /\ Replaced

LEMMA Alone ==
    ASSUME TypeInv, Chain, NEW l \in Links, NEW k \in Links, Running(l), AtWork(k), SameSender(k, l)
    PROVE  k = l
<1>1. Running(k) BY DEF Chain, Started, AtWork
<1>2. l <= k BY RunningFirst DEF AtWork
<1>3. SameSender(l, k) /\ Busy(l) BY DEF SameSender, Running, Busy
<1>4. k <= l BY <1>1, <1>3, RunningFirst
<1> QED BY <1>2, <1>4, QueueAssumption

(* No proposal becomes open, and nobody starts to save one. *)
Closes ==
    /\ \A b \in Bookings :
          /\ pending'[b].state = "open" => pending[b].state = "open"
          /\ pending'[b].phone = pending[b].phone
          /\ pending'[b].state = "unborn" <=> pending[b].state = "unborn"
    /\ \A l \in Links : pc'[l] = "save" => pc[l] = "save" /\ link'[l] = link[l]

LEMMA ClosesKeeps == ASSUME ProposalInv, Closes PROVE ProposalInv'
BY DEF ProposalInv, OpenOnce, Replaced, Closes, SenderOf

LEMMA ProposalStep == ASSUME TypeInv, Chain, ProposalInv, [Next]_vars PROVE ProposalInv'
<1> USE DEF TypeInv, TypeOK, PendingTypeOK, QueueTypeOK
<1>1. ASSUME NEW l \in Links, Running(l), Propose(l) PROVE ProposalInv'
  <2>1. /\ \A b \in Bookings :
             /\ pending'[b].state = "open" => pending[b].state = "open" /\ pending[b].phone # SenderOf(l)
             /\ pending'[b].phone = pending[b].phone
             /\ pending'[b].state = "unborn" <=> pending[b].state = "unborn"
        /\ link' = link /\ \A k \in Links \ {l} : pc'[k] = pc[k]
    BY <1>1 DEF Propose, SupersedeActiveFor, GoTo, Proposal, Outcomes
  <2> QED BY <2>1 DEF ProposalInv, OpenOnce, Replaced, SenderOf
<1>2. ASSUME NEW l \in Links, Running(l), SaveProposal(l) PROVE ProposalInv'
  <2>1. PICK b \in Bookings : Insert(b, SenderOf(l)) BY <1>2 DEF SaveProposal
  <2>2. /\ pending'[b].state = "open" /\ pending'[b].phone = SenderOf(l) /\ pending[b].state = "unborn"
        /\ \A c \in Bookings : c < b => pending[c].state # "unborn"
        /\ \A c \in Bookings \ {b} : pending'[c] = pending[c]
    BY <2>1 DEF Insert, IsNext
  <2>3. /\ link' = link /\ pc[l] = "save" /\ pc'[l] = "turn"
        /\ \A k \in Links \ {l} : pc'[k] = pc[k]
    BY <1>2 DEF SaveProposal, GoTo
  <2>4. OpenOnce' BY <2>2, <2>3 DEF ProposalInv, OpenOnce, Replaced
  <2>5. ASSUME NEW k \in Links, pc'[k] = "save", NEW c \in Bookings, pending'[c].state = "open"
        PROVE  pending'[c].phone # SenderOf(k)'
    <3>1. k # l /\ pc[k] = "save" /\ SenderOf(k)' = SenderOf(k) BY <2>3, <2>5 DEF SenderOf
    <3>2. ~SameSender(k, l) BY <1>2, <3>1, Alone DEF AtWork, Busy
    <3> QED BY <2>2, <2>5, <3>1, <3>2 DEF ProposalInv, Replaced, SameSender
  <2> QED BY <2>4, <2>5 DEF ProposalInv, Replaced
<1>3. ASSUME NEW l \in Links, Take(l), Running(l) PROVE Closes
  <2>1. \A a \in Asks : a[1] # "save" BY DEF Asks, BookingButtons, VisitButtons
  <2>2. ASSUME NEW a \in Asks, TakeNew(l, a[1], now)
        PROVE  \A k \in Links : pc'[k] = "save" => pc[k] = "save" /\ link'[k] = link[k]
    <3>1. CASE Settle(l) BY <3>1 DEF Settle
    <3>2. CASE pc' = [pc EXCEPT ![l] = a[1]] /\ UNCHANGED link BY <2>1, <3>2
    <3> QED BY <2>2, <3>1, <3>2 DEF TakeNew
  <2>3. ASSUME TakeNothing(l, now)
        PROVE  \A k \in Links : pc'[k] = "save" => pc[k] = "save" /\ link'[k] = link[k]
    BY <2>3 DEF TakeNothing, Settle
  <2>4. UNCHANGED pending BY <1>3 DEF Take
  <2> QED BY <1>3, <2>2, <2>3, <2>4 DEF Take, Closes
<1>4. ASSUME NEW l \in Links, Confirm(l) \/ Discard(l) PROVE Closes
  <2>1. /\ pending \in [Bookings -> Proposal]
        /\ \/ UNCHANGED pending
           \/ \E outcome \in Outcomes :
                 pending[arg[l]].state = "open" /\ pending' = [pending EXCEPT ![arg[l]].state = outcome]
    BY <1>4 DEF Confirm, Discard, CanConsume, Consume, Live, Outcomes
  <2>2. \A k \in Links : pc'[k] = "save" => pc[k] = "save" /\ link'[k] = link[k]
    BY <1>4 DEF Confirm, Discard, GoTo, End, Settle
  <2>3. \A b \in Bookings :
          /\ pending'[b].state = "open" => pending[b].state = "open"
          /\ pending'[b].phone = pending[b].phone
          /\ pending'[b].state = "unborn" <=> pending[b].state = "unborn"
    <3>1. CASE UNCHANGED pending BY <3>1
    <3>2. ASSUME NEW outcome \in Outcomes, pending[arg[l]].state = "open",
                 pending' = [pending EXCEPT ![arg[l]].state = outcome],
                 NEW b \in Bookings
          PROVE  /\ pending'[b].state = "open" => pending[b].state = "open"
                 /\ pending'[b].phone = pending[b].phone
                 /\ pending'[b].state = "unborn" <=> pending[b].state = "unborn"
      BY <3>2 DEF Proposal, Outcomes
    <3> QED BY <2>1, <3>1, <3>2
  <2> QED BY <2>2, <2>3 DEF Closes
<1>5. ASSUME NEW l \in Links, Mover(l) PROVE Closes
  BY <1>5 DEF Mover, GoTo, End, Settle, Closes
<1>6. ASSUME NEW l \in Links, Answer(l) \/ ExplainWhy(l) \/ CreateBooked(l) \/ MostrarOpciones(l)
               \/ PedirConfirmacionDeCancelar(l) \/ OfrecerDias(l) \/ OfrecerHoras(l)
               \/ Cancelar(l) \/ Confirmar(l) \/ Fail(l)
      PROVE Closes
  <2>1. End(l) /\ UNCHANGED pending
    BY <1>6 DEF Answer, ExplainWhy, CreateBooked, MostrarOpciones, PedirConfirmacionDeCancelar,
                OfrecerDias, OfrecerHoras, Look, Cancelar, Confirmar, Fail
  <2> QED BY <2>1 DEF End, Settle, Closes
<1>7. CASE ~\E l \in Links : Handle(l)
  <2>1. CASE PurgePending
    <3>1. UNCHANGED <<pc, link>> BY <2>1 DEF PurgePending, queueVars
    <3>2. Closes BY <2>1, <3>1 DEF PurgePending, PurgeExpired, Stored, Closes, Proposal, Outcomes
    <3> QED BY <3>2, ClosesKeeps
  <2>2. CASE \E m \in Messages : Deliver(m)
    <3>1. UNCHANGED pending /\ \A k \in Links : pc'[k] = "save" => pc[k] = "save" /\ link'[k] = link[k]
      BY <2>2 DEF Deliver, Receive
    <3> QED BY <3>1, ClosesKeeps DEF Closes
  <2>3. CASE Tick \/ PruneLimiter \/ Crash \/ UNCHANGED vars
    <3>1. UNCHANGED pending /\ \A k \in Links : pc'[k] = "save" => pc[k] = "save" /\ link'[k] = link[k]
      BY <2>3 DEF Tick, PruneLimiter, Prune, Crash, Lose, vars, queueVars
    <3> QED BY <3>1, ClosesKeeps DEF Closes
  <2> QED BY <1>7, <2>1, <2>2, <2>3, ClosesKeeps DEF Next
<1>8. CASE \E l \in Links : Handle(l)
  <2>1. PICK l \in Links : Handle(l) BY <1>8
  <2>2. Running(l) BY <2>1 DEF Handle
  <2> QED BY <2>1, <2>2, <1>1, <1>2, <1>3, <1>4, <1>5, <1>6, ClosesKeeps DEF Handle
<1> QED BY <1>7, <1>8

LEMMA Proposals == Spec => [](TypeInv /\ Chain /\ ProposalInv)
<1>1. Init => ProposalInv
  <2> SUFFICES ASSUME Init PROVE ProposalInv OBVIOUS
  <2>1. Replaced BY DEF Init, QueueInit, Replaced
  <2> DEFINE nobody == CHOOSE p \in Phones : TRUE
  <2> HIDE DEF nobody
  <2>2. PICK left \in EarlierLeft : pending = [b \in Bookings |->
                      IF b <= Len(Earlier)
                      THEN [state |-> "open", phone |-> Earlier[b], expires |-> left]
                      ELSE [state |-> "unborn", phone |-> nobody, expires |-> 0]]
    BY DEF Init, PendingInit, nobody
  <2>3. Len(Earlier) \in Nat /\ \A i, j \in 1 .. Len(Earlier) : Earlier[i] = Earlier[j] => i = j
    BY PendingAssumption
  <2>4. OpenOnce BY <2>2, <2>3, PendingAssumption DEF OpenOnce
  <2> QED BY <2>1, <2>4 DEF ProposalInv
<1> QED BY <1>1, Chains, ProposalStep, PTL DEF Spec

(* A number has one live proposal at most, whatever messages, taps, failures *)
(* and restarts come between replacing the old ones and saving the new one.  *)
THEOREM OneLive == Spec => []OneLiveProposal
<1>1. ProposalInv => OneLiveProposal BY DEF ProposalInv, OpenOnce, OneLiveProposal, Live
<1> QED BY <1>1, Proposals, PTL

-----------------------------------------------------------------------------
(***************************************************************************)
(* What was booked. A proposal that was confirmed stays so, or is purged;  *)
(* only the delivery that confirmed it holds it, until it has booked it or *)
(* has failed.                                                             *)
(***************************************************************************)
Spent(b) == pending[b].state \in {"confirmada", "purged"}
Unbooked(b) == \A v \in Visits : visit[v].booking # b
VisitsFit ==
    \A v \in Visits : LET b == visit[v].booking IN
        b # NoBooking => /\ Spent(b) /\ pending[b].phone = visit[v].phone
                         /\ \A u \in Visits \ {v} : visit[u].booking # b
CreatesFit ==
    \A l \in Links : pc[l] = "create" =>
        /\ Spent(arg[l]) /\ pending[arg[l]].phone = SenderOf(l) /\ Unbooked(arg[l])
        /\ \A k \in Links \ {l} : pc[k] = "create" => arg[k] # arg[l]
BookedInv == VisitsFit /\ CreatesFit

(* A confirmed proposal stays confirmed, and one that is stored keeps its    *)
(* number.                                                                   *)
Lasts(b) ==
    /\ Spent(b) => Spent(b)'
    /\ pending[b].state # "unborn" => pending'[b].phone = pending[b].phone

LEMMA ProposalsLast == ASSUME TypeInv, [Next]_vars, NEW b \in Bookings PROVE Lasts(b)
<1> USE DEF TypeInv, TypeOK, PendingTypeOK, Spent, Lasts, Proposal, Outcomes
<1>1. CASE UNCHANGED pending BY <1>1
<1>2. CASE \E l \in Links : Propose(l) BY <1>2 DEF Propose, SupersedeActiveFor
<1>3. CASE \E l \in Links : SaveProposal(l) BY <1>3 DEF SaveProposal, Insert, IsNext
<1>4. ASSUME NEW l \in Links, Confirm(l) \/ Discard(l) PROVE Lasts(b)
  <2>1. CASE \E outcome \in Outcomes :
                pending[arg[l]].state = "open" /\ pending' = [pending EXCEPT ![arg[l]].state = outcome]
    BY <2>1
  <2> QED BY <1>1, <1>4, <2>1 DEF Confirm, Discard, CanConsume, Consume, Live
<1>5. CASE PurgePending BY <1>5 DEF PurgePending, PurgeExpired, Stored
<1>6. ASSUME NEW l \in Links, Handle(l), ~Propose(l), ~SaveProposal(l), ~Confirm(l), ~Discard(l)
      PROVE  UNCHANGED pending
  BY <1>6 DEF Handle, Take, Answer, ExplainWhy, CreateBooked, MostrarOpciones, PedirConfirmacionDeCancelar,
              OfrecerDias, OfrecerHoras, Look, Cancelar, Confirmar, Mover, Fail
<1> QED BY <1>1, <1>2, <1>3, <1>4, <1>5, <1>6 DEF Next, Deliver, Tick, PruneLimiter, Crash, vars

(* A delivery in "create" got there by confirming what it holds, or was      *)
(* there already.                                                            *)
LEMMA CreatesCome ==
    ASSUME TypeInv, [Next]_vars, NEW k \in Links, pc'[k] = "create"
    PROVE  /\ pc[k] # "create" => Confirm(k) /\ CanConsume(arg[k], SenderOf(k)) /\ Spent(arg[k])'
           /\ arg'[k] = arg[k] /\ link'[k] = link[k]
<1> USE DEF TypeInv, TypeOK, QueueTypeOK
<1>1. ASSUME NEW l \in Links, Handle(l), ~Confirm(l)
      PROVE  pc[k] = "create" /\ arg'[k] = arg[k] /\ link'[k] = link[k]
  <2>1. CASE Take(l)
    <3>1. \A a \in Asks : a[1] # "create" BY DEF Asks, BookingButtons, VisitButtons
    <3>2. ASSUME NEW a \in Asks, TakeNew(l, a[1], now), arg' = [arg EXCEPT ![l] = a[2]]
          PROVE  pc[k] = "create" /\ arg'[k] = arg[k] /\ link'[k] = link[k]
      <4>1. CASE Settle(l) BY <3>2, <4>1 DEF Settle
      <4>2. CASE pc' = [pc EXCEPT ![l] = a[1]] /\ UNCHANGED link BY <3>1, <3>2, <4>2
      <4> QED BY <3>2, <4>1, <4>2 DEF TakeNew
    <3>3. CASE TakeNothing(l, now) /\ UNCHANGED arg BY <3>3 DEF TakeNothing, Settle
    <3> QED BY <2>1, <3>2, <3>3 DEF Take
  <2>2. CASE Propose(l) \/ SaveProposal(l) \/ Mover(l)
    BY <2>2 DEF Propose, SaveProposal, Mover, GoTo, End, Settle, localVars
  <2>3. CASE Discard(l) BY <2>3 DEF Discard, GoTo, End, Settle, localVars
  <2>4. CASE End(l) BY <2>4 DEF End, Settle
  <2> QED BY <1>1, <2>1, <2>2, <2>3, <2>4
          DEF Handle, Answer, ExplainWhy, CreateBooked, MostrarOpciones, PedirConfirmacionDeCancelar,
              OfrecerDias, OfrecerHoras, Look, Cancelar, Confirmar, Fail
<1>2. ASSUME NEW l \in Links, Confirm(l)
      PROVE  /\ pc[k] # "create" => Confirm(k) /\ CanConsume(arg[k], SenderOf(k)) /\ Spent(arg[k])'
             /\ arg'[k] = arg[k] /\ link'[k] = link[k]
  <2>1. arg' = arg /\ link' = link /\ \A j \in Links \ {l} : pc'[j] = pc[j]
    BY <1>2 DEF Confirm, GoTo, localVars
  <2>2. ASSUME pc[k] # "create" PROVE Confirm(k) /\ CanConsume(arg[k], SenderOf(k)) /\ Spent(arg[k])'
    <3>1. k = l BY <2>1, <2>2
    <3>2. CanConsume(arg[k], SenderOf(k)) /\ Consume(arg[k], SenderOf(k), "confirmada")
      BY <1>2, <3>1 DEF Confirm, GoTo
    <3>3. arg[k] \in Bookings BY <1>2, <3>1 DEF Confirm, ArgsFit, BookingButtons
    <3> QED BY <1>2, <2>1, <3>1, <3>2, <3>3 DEF Consume, Spent, PendingTypeOK, Proposal
  <2> QED BY <2>1, <2>2
<1>3. ASSUME ~\E l \in Links : Handle(l)
      PROVE  pc[k] = "create" /\ arg'[k] = arg[k] /\ link'[k] = link[k]
  BY <1>3 DEF Next, Deliver, Receive, IsNextLink, Tick, PurgePending, PruneLimiter, Prune, Crash, Lose,
              vars, queueVars, localVars
<1> QED BY <1>1, <1>2, <1>3

(* What a step writes in the table of reservations: a new one, of what its   *)
(* delivery holds, or the state of one there was.                            *)
LEMMA VisitsChange ==
    ASSUME TypeInv, [Next]_vars
    PROVE  \/ \A v \in Visits : visit'[v].booking = visit[v].booking /\ visit'[v].phone = visit[v].phone
           \/ \E l \in Links, v \in Visits :
                 /\ pc[l] = "create" /\ pc'[l] = "done" /\ UNCHANGED pending
                 /\ visit[v].state = "unborn" /\ visit'[v].booking = arg[l] /\ visit'[v].phone = SenderOf(l)
                 /\ \A u \in Visits \ {v} : visit'[u] = visit[u]
<1> USE DEF TypeInv, TypeOK, QueueTypeOK
<1>1. CASE UNCHANGED visit BY <1>1
<1>2. ASSUME NEW l \in Links, CreateBooked(l), ~UNCHANGED visit
      PROVE  \E v \in Visits :
                 /\ pc[l] = "create" /\ pc'[l] = "done" /\ UNCHANGED pending
                 /\ visit[v].state = "unborn" /\ visit'[v].booking = arg[l] /\ visit'[v].phone = SenderOf(l)
                 /\ \A u \in Visits \ {v} : visit'[u] = visit[u]
  <2>1. PICK v \in Visits :
           /\ visit[v].state = "unborn"
           /\ visit' = [visit EXCEPT ![v] =
                            [phone |-> SenderOf(l), state |-> "pendiente", booking |-> arg[l]]]
    BY <1>2 DEF CreateBooked
  <2>2. pc[l] = "create" /\ pc'[l] = "done" /\ UNCHANGED pending BY <1>2 DEF CreateBooked, End, Settle
  <2>3. /\ visit'[v].booking = arg[l] /\ visit'[v].phone = SenderOf(l)
        /\ \A u \in Visits \ {v} : visit'[u] = visit[u]
    BY <2>1
  <2> QED BY <2>1, <2>2, <2>3
<1>3. ASSUME NEW l \in Links, Cancelar(l) \/ Confirmar(l), NEW v \in Visits
      PROVE  visit'[v].booking = visit[v].booking /\ visit'[v].phone = visit[v].phone
  <2>1. UNCHANGED visit \/ \E state \in Active \cup {"cancelada"} : visit' = [visit EXCEPT ![arg[l]].state = state]
    BY <1>3 DEF Cancelar, Confirmar, Active
  <2>2. ASSUME NEW state \in Active \cup {"cancelada"}, visit' = [visit EXCEPT ![arg[l]].state = state]
        PROVE  visit'[v].booking = visit[v].booking /\ visit'[v].phone = visit[v].phone
    BY <2>2 DEF Visit
  <2> QED BY <2>1, <2>2
<1>4. ASSUME NEW l \in Links, Handle(l), ~CreateBooked(l), ~Cancelar(l), ~Confirmar(l)
      PROVE  UNCHANGED visit
  BY <1>4 DEF Handle, Take, Propose, SaveProposal, Answer, Confirm, Discard, ExplainWhy, MostrarOpciones,
              PedirConfirmacionDeCancelar, OfrecerDias, OfrecerHoras, Look, Mover, Fail
<1>5. CASE ~\E l \in Links : Handle(l)
  BY <1>1, <1>5 DEF Next, Deliver, Tick, PurgePending, PruneLimiter, Crash, vars
<1> QED BY <1>1, <1>2, <1>3, <1>4, <1>5

LEMMA BookedStep == ASSUME TypeInv, TypeInv', BookedInv, [Next]_vars PROVE BookedInv'
<1>1. \A l \in Links : pc[l] = "create" \/ pc[l] = "book_ok" => arg[l] \in Bookings
  BY DEF TypeInv, ArgsFit, BookingButtons
<1>2. /\ \A v \in Visits : visit[v].booking \in Bookings \cup {NoBooking}
      /\ \A v \in Visits : visit'[v].booking \in Bookings \cup {NoBooking}
  BY DEF TypeInv, TypeOK, Visit
<1>3. \A b \in Bookings : Lasts(b) BY ProposalsLast
<1>4. CASE \A v \in Visits : visit'[v].booking = visit[v].booking /\ visit'[v].phone = visit[v].phone
  <2>1. VisitsFit' BY <1>2, <1>3, <1>4 DEF BookedInv, VisitsFit, Lasts, Spent
  <2>2. ASSUME NEW l \in Links, pc'[l] = "create"
        PROVE  /\ Spent(arg[l])' /\ pending'[arg'[l]].phone = SenderOf(l)' /\ Unbooked(arg[l])'
               /\ \A k \in Links \ {l} : pc'[k] = "create" => arg'[k] # arg'[l]
    <3>1. arg'[l] = arg[l] /\ SenderOf(l)' = SenderOf(l) BY <2>2, CreatesCome DEF SenderOf
    <3>2. CASE pc[l] = "create"
      <4>1. arg[l] \in Bookings BY <1>1, <3>2
      <4>2. Spent(arg[l])' /\ pending'[arg'[l]].phone = SenderOf(l)' /\ Unbooked(arg[l])'
        BY <1>3, <1>4, <3>1, <3>2, <4>1 DEF BookedInv, CreatesFit, Lasts, Spent, Unbooked
      <4>3. ASSUME NEW k \in Links \ {l}, pc'[k] = "create" PROVE arg'[k] # arg'[l]
        <5>1. CASE pc[k] = "create" BY <3>1, <3>2, <4>3, <5>1, CreatesCome DEF BookedInv, CreatesFit
        <5>2. CASE pc[k] # "create"
          <6>1. pending[arg[k]].state = "open" /\ arg'[k] = arg[k]
            BY <4>3, <5>2, CreatesCome DEF CanConsume, Live
          <6>2. Spent(arg[l]) BY <3>2 DEF BookedInv, CreatesFit
          <6> QED BY <3>1, <6>1, <6>2 DEF Spent
        <5> QED BY <5>1, <5>2
      <4> QED BY <4>2, <4>3
    <3>3. CASE pc[l] # "create"
      <4>1. /\ CanConsume(arg[l], SenderOf(l)) /\ Spent(arg[l])' /\ pc[l] = "book_ok"
        BY <2>2, <3>3, CreatesCome DEF Confirm
      <4>2. arg[l] \in Bookings /\ pending[arg[l]].state = "open" /\ pending[arg[l]].phone = SenderOf(l)
        BY <1>1, <4>1 DEF CanConsume, Live
      <4>3. pending'[arg'[l]].phone = SenderOf(l)' BY <1>3, <3>1, <4>2 DEF Lasts
      <4>4. Unbooked(arg[l])'
        BY <1>4, <3>1, <4>2 DEF Unbooked, BookedInv, VisitsFit, Spent
      <4>5. ASSUME NEW k \in Links \ {l}, pc'[k] = "create" PROVE arg'[k] # arg'[l]
        <5>1. CASE pc[k] = "create"
          BY <3>1, <4>2, <4>5, <5>1, CreatesCome DEF BookedInv, CreatesFit, Spent
        <5>2. CASE pc[k] # "create"
          <6>1. Confirm(k) /\ Confirm(l) BY <2>2, <3>3, <4>5, <5>2, CreatesCome
          <6>2. pc'[k] # "create" \/ pc'[l] # "create"
            BY <4>1, <6>1 DEF Confirm, GoTo, TypeInv, TypeOK, QueueTypeOK
          <6> QED BY <2>2, <4>5, <6>2
        <5> QED BY <5>1, <5>2
      <4> QED BY <4>1, <4>3, <4>4, <4>5
    <3> QED BY <3>2, <3>3
  <2> QED BY <2>1, <2>2 DEF BookedInv, CreatesFit
<1>5. ASSUME NEW l \in Links, NEW v \in Visits,
             pc[l] = "create", pc'[l] = "done", UNCHANGED pending,
             visit'[v].booking = arg[l], visit'[v].phone = SenderOf(l),
             \A u \in Visits \ {v} : visit'[u] = visit[u]
      PROVE  BookedInv'
  <2>1. /\ arg[l] \in Bookings /\ Spent(arg[l]) /\ pending[arg[l]].phone = SenderOf(l)
        /\ Unbooked(arg[l])
    BY <1>1, <1>5 DEF BookedInv, CreatesFit
  <2>2. VisitsFit' BY <1>5, <2>1 DEF BookedInv, VisitsFit, Spent, Unbooked
  <2>3. ASSUME NEW k \in Links, pc'[k] = "create", NEW j \in Links, pc'[j] = "create"
        PROVE  /\ pc[k] = "create" /\ arg'[k] = arg[k] /\ SenderOf(k)' = SenderOf(k)
               /\ arg'[j] = arg[j] /\ pc[j] = "create"
    <3>1. \A i \in Links : ~(Confirm(i) /\ pc'[i] = "create")
      BY <1>5 DEF Confirm, GoTo, TypeInv, TypeOK, QueueTypeOK
    <3> QED BY <2>3, <3>1, CreatesCome DEF SenderOf
  <2>4. CreatesFit' BY <1>5, <2>1, <2>3 DEF BookedInv, CreatesFit, Spent, Unbooked
  <2> QED BY <2>2, <2>4 DEF BookedInv
<1> QED BY <1>4, <1>5, VisitsChange

(* Two taps, a redelivery or a restart never book one proposal twice, and    *)
(* what was booked is a proposal its own client confirmed.                   *)
THEOREM BooksOnce == Spec => []BookedOnce
<1>1. Init => BookedInv
  BY DEF Init, QueueInit, BookedInv, VisitsFit, CreatesFit
<1>2. TypeInv /\ BookedInv => BookedOnce
  BY DEF TypeInv, TypeOK, Visit, BookedInv, VisitsFit, BookedOnce, Spent
<1> QED BY <1>1, <1>2, Typed, BookedStep, PTL DEF Spec

-----------------------------------------------------------------------------
(***************************************************************************)
(* What goes out. The proposal a turn offers is its number's newest, and   *)
(* still open or purged, until the turn proposes again.                    *)
(***************************************************************************)
Offering(l) == pc[l] = "turn" /\ offer[l] # NoBooking
Newest(b, phone) == \A c \in Bookings : Stored(c) /\ pending[c].phone = phone => c <= b
OffersFit ==
    \A l \in Links :
        /\ pc[l] \notin {"turn", "save"} => offer[l] = NoBooking
        /\ Offering(l) =>
              /\ pending[offer[l]].state \in {"open", "purged"}
              /\ pending[offer[l]].phone = SenderOf(l)
              /\ Newest(offer[l], SenderOf(l))

(* Proposals of the number are neither added nor used, but for the purge.    *)
Untouched(phone) ==
    \A b \in Bookings :
        /\ pending[b].phone = phone /\ pending[b].state \in {"open", "purged"}
              => pending'[b].phone = phone /\ pending'[b].state \in {"open", "purged"}
        /\ Stored(b)' /\ pending'[b].phone = phone => Stored(b) /\ pending[b].phone = phone

LEMMA OthersUntouched ==
    ASSUME TypeInv, Chain, [Next]_vars, NEW l \in Links, AtWork(l), ~Handle(l)
    PROVE  Untouched(SenderOf(l))
<1> USE DEF TypeInv, TypeOK, PendingTypeOK, QueueTypeOK, Proposal, Outcomes
<1>1. CASE UNCHANGED pending BY <1>1 DEF Untouched, Stored
<1>2. CASE PurgePending BY <1>2 DEF PurgePending, PurgeExpired, Stored, Untouched
<1>3. ASSUME NEW k \in Links, Handle(k), ~UNCHANGED pending PROVE Untouched(SenderOf(l))
  <2>1. SenderOf(k) # SenderOf(l)
    <3>1. Running(k) BY <1>3 DEF Handle
    <3> QED BY <1>3, <3>1, Alone DEF SameSender
  <2>2. CASE Propose(k)
    BY <2>1, <2>2 DEF Propose, SupersedeActiveFor, Untouched, Stored
  <2>3. CASE SaveProposal(k)
    BY <2>1, <2>3 DEF SaveProposal, Insert, IsNext, Untouched, Stored
  <2>4. CASE Confirm(k) \/ Discard(k)
    <3>1. PICK outcome \in Outcomes :
             pending[arg[k]].phone = SenderOf(k) /\ pending' = [pending EXCEPT ![arg[k]].state = outcome]
      BY <1>3, <2>4 DEF Confirm, Discard, CanConsume, Consume
    <3>2. \A b \in Bookings : b # arg[k] => pending'[b] = pending[b] BY <3>1
    <3>3. arg[k] \in Bookings => pending'[arg[k]].phone = SenderOf(k) BY <3>1
    <3> QED BY <2>1, <3>1, <3>2, <3>3 DEF Untouched, Stored
  <2> QED BY <1>3, <2>2, <2>3, <2>4
          DEF Handle, Take, Answer, ExplainWhy, CreateBooked, MostrarOpciones, PedirConfirmacionDeCancelar,
              OfrecerDias, OfrecerHoras, Look, Cancelar, Confirmar, Mover, Fail
<1> QED BY <1>1, <1>2, <1>3 DEF Next, Deliver, Tick, PruneLimiter, Crash, vars

(* A delivery's own step, and what others do to its step and offer. *)
LEMMA OfferOfOthers ==
    ASSUME TypeInv, [Next]_vars, NEW l \in Links, ~Handle(l)
    PROVE  \/ UNCHANGED <<pc[l], offer[l], link[l]>>
           \/ pc'[l] \notin {"turn", "save"} /\ offer'[l] \in {NoBooking, offer[l]}
              /\ (pc[l] \in {"turn", "save"} => offer'[l] = NoBooking)
<1> USE DEF TypeInv, TypeOK, QueueTypeOK
<1>1. CASE \E m \in Messages : Deliver(m)
  BY <1>1 DEF Deliver, Receive, IsNextLink, localVars
<1>2. CASE Crash BY <1>2 DEF Crash, Lose
<1>3. CASE Tick \/ PurgePending \/ PruneLimiter \/ UNCHANGED vars
  BY <1>3 DEF Tick, PurgePending, PruneLimiter, Prune, vars, queueVars, localVars
<1>4. ASSUME NEW k \in Links, Handle(k) PROVE UNCHANGED <<pc[l], offer[l], link[l]>>
  <2>1. k # l BY <1>4
  <2>2. CASE Take(k) BY <2>1, <2>2 DEF Take, TakeNew, TakeNothing, Settle
  <2>3. CASE Propose(k) \/ SaveProposal(k) \/ Confirm(k) \/ Discard(k) \/ Mover(k)
    BY <2>1, <2>3 DEF Propose, SaveProposal, Confirm, Discard, Mover, GoTo, End, Settle, localVars
  <2>4. CASE End(k) BY <2>1, <2>4 DEF End, Settle
  <2> QED BY <1>4, <2>2, <2>3, <2>4
          DEF Handle, Answer, ExplainWhy, CreateBooked, MostrarOpciones, PedirConfirmacionDeCancelar,
              OfrecerDias, OfrecerHoras, Look, Cancelar, Confirmar, Fail
<1> QED BY <1>1, <1>2, <1>3, <1>4 DEF Next

LEMMA OffersStep ==
    ASSUME TypeInv, TypeInv', Chain, ProposalInv, OffersFit, [Next]_vars
    PROVE  OffersFit'
<1> USE DEF TypeInv, TypeOK, QueueTypeOK
<1> SUFFICES ASSUME NEW l \in Links
             PROVE  /\ pc'[l] \notin {"turn", "save"} => offer'[l] = NoBooking
                    /\ Offering(l)' => /\ pending'[offer'[l]].state \in {"open", "purged"}
                                       /\ pending'[offer'[l]].phone = SenderOf(l)'
                                       /\ Newest(offer[l], SenderOf(l))'
  BY DEF OffersFit
<1>1. CASE ~Handle(l)
  <2>1. CASE UNCHANGED <<pc[l], offer[l], link[l]>>
    <3>1. CASE Offering(l)
      <4>1. Untouched(SenderOf(l)) BY <1>1, <3>1, OthersUntouched DEF Offering, AtWork, Busy
      <4>2. SenderOf(l)' = SenderOf(l) /\ offer[l] \in Bookings BY <2>1, <3>1 DEF SenderOf, Offering
      <4> QED BY <2>1, <3>1, <4>1, <4>2 DEF OffersFit, Offering, Untouched, Newest
    <3>2. CASE ~Offering(l) BY <2>1, <3>2 DEF OffersFit, Offering
    <3> QED BY <3>1, <3>2
  <2>2. CASE ~UNCHANGED <<pc[l], offer[l], link[l]>>
    BY <1>1, <2>2, OfferOfOthers DEF OffersFit, Offering
  <2> QED BY <2>1, <2>2
<1>2. CASE SaveProposal(l)
  <2>1. PICK b \in Bookings : Insert(b, SenderOf(l)) /\ offer' = [offer EXCEPT ![l] = b]
    BY <1>2 DEF SaveProposal
  <2>2. pc'[l] = "turn" /\ SenderOf(l)' = SenderOf(l) /\ offer'[l] = b
    BY <1>2, <2>1 DEF SaveProposal, GoTo, SenderOf
  <2>3. /\ pending[b].state = "unborn" /\ pending'[b].state = "open" /\ pending'[b].phone = SenderOf(l)
        /\ \A c \in Bookings \ {b} : pending'[c] = pending[c]
    BY <2>1 DEF Insert, IsNext, PendingTypeOK
  <2>4. \A c \in Bookings : Stored(c)' => c <= b
    <3>1. SUFFICES ASSUME NEW c \in Bookings, Stored(c)', b < c PROVE FALSE BY PendingAssumption
    <3>2. pending[c].state # "unborn" BY <2>3, <3>1 DEF Stored
    <3> QED BY <2>3, <3>1, <3>2 DEF ProposalInv, OpenOnce
  <2> QED BY <2>2, <2>3, <2>4 DEF Newest
<1>3. CASE Handle(l) /\ Take(l)
  <2>1. pc[l] = "queued" /\ offer'[l] = NoBooking BY <1>3 DEF Take, OffersFit
  <2> QED BY <2>1 DEF Offering
<1>4. CASE Propose(l) BY <1>4 DEF Propose, GoTo, Offering
<1>5. CASE Confirm(l) \/ Discard(l) \/ Mover(l)
  BY <1>5 DEF Confirm, Discard, Mover, GoTo, End, Settle, localVars, Offering, OffersFit
<1>6. CASE End(l) BY <1>6 DEF End, Settle, Offering
<1> QED BY <1>1, <1>2, <1>3, <1>4, <1>5, <1>6
        DEF Handle, Answer, ExplainWhy, CreateBooked, MostrarOpciones, PedirConfirmacionDeCancelar,
            OfrecerDias, OfrecerHoras, Look, Cancelar, Confirmar, Fail

(* Who sends details: an answer, with its offer, or a button's reply. *)
LEMMA SpeaksFor ==
    ASSUME TypeInv, [Next]_vars, ~UNCHANGED vars, ~Quiet
    PROVE  \E l \in Links : Handle(l) /\ (Answer(l) \/ \E button \in VisitButtons : Look(l, button))
BY DEF Next, Handle, Deliver, Tick, PurgePending, PruneLimiter, Crash, Take, Propose, SaveProposal, Confirm,
       Discard, ExplainWhy, CreateBooked, MostrarOpciones, PedirConfirmacionDeCancelar, OfrecerDias,
       OfrecerHoras, Cancelar, Confirmar, Mover, Fail, VisitButtons

(* A client is only ever shown reservations made for her number.             *)
THEOREM ShowsOnlyOnesOwn == Spec => []Disclosure
<1>1. Init => Disclosure BY DEF Init, Silence, Disclosure
<1>2. ASSUME TypeInv, Disclosure, [Next]_vars PROVE Disclosure'
  <2>1. CASE UNCHANGED vars BY <1>2, <2>1 DEF vars, Disclosure
  <2>2. CASE Quiet BY <2>2 DEF Quiet, Silence, Disclosure
  <2>3. ASSUME NEW l \in Links, NEW b, NEW vs, Send(l, b, vs), UNCHANGED visit,
               \A v \in vs : Client(l) => visit[v].phone = SenderOf(l)
        PROVE  Disclosure'
    BY <2>3 DEF Send, Silence, Disclosure, Client
  <2>4. ASSUME NEW l \in Links, Answer(l) PROVE Disclosure'
    <3>1. \A v \in CitasParaConfirmar(l) : Client(l) => visit[v].phone = SenderOf(l)
      BY DEF CitasParaConfirmar, MayActOn
    <3>2. \A v \in Actionable(SenderOf(l)) : visit[v].phone = SenderOf(l) BY DEF Actionable
    <3>3. UNCHANGED visit BY <2>4 DEF Answer
    <3>4. CASE Send(l, offer[l], {}) BY <2>3, <3>3, <3>4
    <3>5. CASE \E v \in CitasParaConfirmar(l) : Send(l, offer[l], {v}) BY <2>3, <3>1, <3>3, <3>5
    <3>6. CASE Send(l, NoBooking, Actionable(SenderOf(l))) BY <2>3, <3>2, <3>3, <3>6
    <3> QED BY <2>2, <2>4, <3>4, <3>5, <3>6 DEF Answer
  <2>5. ASSUME NEW l \in Links, NEW button \in VisitButtons, Look(l, button) PROVE Disclosure'
    <3>1. \A v \in {w \in {arg[l]} : MayLook(l, w)} : Client(l) => visit[v].phone = SenderOf(l)
      BY DEF MayLook, Actionable
    <3> QED BY <2>3, <2>5, <3>1 DEF Look
  <2> QED BY <1>2, <2>1, <2>2, <2>4, <2>5, SpeaksFor
<1> QED BY <1>1, <1>2, Typed, PTL DEF Spec

(* The buttons a client gets are those of her newest proposal, and at that   *)
(* moment it can still be used.                                              *)
THEOREM ButtonsLive == Spec => ButtonIsLive
<1> DEFINE Usable == LET b == sent'.booking
                    IN  b # NoBooking =>
                           /\ pending[b].phone = sent'.to
                           /\ pending[b].state \in {"open", "purged"}
                           /\ \A c \in Bookings : Stored(c) /\ pending[c].phone = sent'.to => c <= b
<1>1. Init => OffersFit BY DEF Init, QueueInit, OffersFit, Offering
<1>2. ASSUME TypeInv, OffersFit, [Next]_vars, ~UNCHANGED vars PROVE Usable
  <2>1. CASE Quiet BY <2>1 DEF Quiet, Silence
  <2>2. ASSUME NEW l \in Links, Answer(l), sent'.booking # NoBooking PROVE Usable
    <3>1. sent'.booking = offer[l] /\ sent'.to = SenderOf(l)
      BY <2>2 DEF Answer, Quiet, Send, Silence
    <3>2. Offering(l) BY <2>2, <3>1 DEF Answer, Offering
    <3> QED BY <1>2, <2>2, <3>1, <3>2 DEF OffersFit, Newest
  <2>3. ASSUME NEW l \in Links, NEW button \in VisitButtons, Look(l, button) PROVE Usable
    BY <2>3 DEF Look, Send, Silence
  <2> QED BY <1>2, <2>1, <2>2, <2>3, SpeaksFor
<1>3. TypeInv /\ OffersFit /\ [Next]_vars => [Usable]_vars BY <1>2
<1>4. Spec => []OffersFit BY <1>1, Proposals, OffersStep, PTL DEF Spec
<1> QED BY <1>3, <1>4, Typed, PTL DEF Spec, ButtonIsLive

-----------------------------------------------------------------------------
(* The limiter. *)

Within(s, t) == {u \in marks[s] : u[1] <= t[1] /\ u[1] > t[1] - Window}
WindowsHold ==
    \A s \in Senders :
        /\ IsFiniteSet(marks[s])
        /\ \A t \in marks[s] : t[1] <= now /\ Cardinality(Within(s, t)) <= MaxPerWindow

(* Forgetting marks, of any sender, breaks no window. *)
LEMMA Forgetting ==
    ASSUME TypeInv, TypeInv', WindowsHold, NEW s \in Senders, marks'[s] \subseteq marks[s], now <= now'
    PROVE  /\ IsFiniteSet(marks'[s])
           /\ \A t \in marks'[s] : t[1] <= now' /\ Cardinality(Within(s, t)') <= MaxPerWindow
<1> USE QueueAssumption, PendingAssumption DEF TypeInv, TypeOK, PendingTypeOK, QueueTypeOK
<1>1. IsFiniteSet(marks'[s]) BY FS_Subset DEF WindowsHold
<1>2. ASSUME NEW t \in marks'[s] PROVE t[1] <= now' /\ Cardinality(Within(s, t)') <= MaxPerWindow
  <2>1. t \in marks[s] /\ t[1] <= now /\ t[1] \in Nat /\ Cardinality(Within(s, t)) <= MaxPerWindow
    BY <1>2 DEF WindowsHold
  <2>2. IsFiniteSet(Within(s, t)) BY FS_Subset DEF WindowsHold, Within
  <2>3. Within(s, t)' \subseteq Within(s, t) BY <1>2 DEF Within
  <2>4. /\ Cardinality(Within(s, t)') <= Cardinality(Within(s, t))
        /\ Cardinality(Within(s, t)') \in Nat /\ Cardinality(Within(s, t)) \in Nat
    BY <2>2, <2>3, FS_Subset, FS_CardinalityType
  <2> QED BY <2>1, <2>4
<1> QED BY <1>1, <1>2

(* A mark is only added when the window before it has room. *)
LEMMA Marking ==
    ASSUME TypeInv, TypeInv', WindowsHold, NEW l \in Links, NEW me \in Senders, Allowed(l, now),
           me = SenderOf(l), now' = now,
           marks' = [marks EXCEPT ![me] = {t \in @ : t[1] > now - Window} \cup {<<now, l>>}]
    PROVE  WindowsHold'
<1> USE QueueAssumption, PendingAssumption DEF TypeInv, TypeOK, PendingTypeOK, QueueTypeOK
<1> DEFINE recent == {t \in marks[me] : t[1] > now - Window}
<1>1. marks'[me] = recent \cup {<<now, l>>} OBVIOUS
<1>2. /\ IsFiniteSet(recent) /\ Cardinality(recent) \in Nat
      /\ Cardinality(recent) + 1 <= MaxPerWindow
  <2>1. IsFiniteSet(recent) /\ Cardinality(recent) \in Nat
    BY FS_Subset, FS_CardinalityType DEF WindowsHold
  <2>2. Cardinality(recent) < MaxPerWindow BY DEF Allowed
  <2> QED BY <2>1, <2>2
<1>3. \A t \in marks'[me] : t[1] <= now' BY <1>1 DEF WindowsHold
<1> DEFINE kept == recent \cup {<<now, l>>}
<1>4. /\ IsFiniteSet(marks'[me]) /\ Cardinality(marks'[me]) \in Nat
      /\ Cardinality(marks'[me]) <= MaxPerWindow
  <2> HIDE DEF recent
  <2>1. /\ IsFiniteSet(kept)
        /\ \/ Cardinality(kept) = Cardinality(recent)
           \/ Cardinality(kept) = Cardinality(recent) + 1
    BY <1>2, FS_AddElement
  <2> HIDE DEF kept
  <2>2. /\ IsFiniteSet(kept) /\ Cardinality(kept) \in Nat
        /\ Cardinality(kept) <= MaxPerWindow
    BY <1>2, <2>1
  <2>3. marks'[me] = kept BY <1>1 DEF kept
  <2> QED BY <2>2, <2>3
<1>5. ASSUME NEW t \in marks'[me] PROVE Cardinality(Within(me, t)') <= MaxPerWindow
  <2>1. Within(me, t)' \subseteq marks'[me] BY DEF Within
  <2>2. /\ Cardinality(Within(me, t)') <= Cardinality(marks'[me])
        /\ Cardinality(Within(me, t)') \in Nat
    BY <1>4, <2>1, FS_Subset, FS_CardinalityType
  <2> QED BY <1>4, <2>2
<1>6. ASSUME NEW s \in Senders, s # me
      PROVE  /\ IsFiniteSet(marks'[s])
             /\ \A t \in marks'[s] : t[1] <= now' /\ Cardinality(Within(s, t)') <= MaxPerWindow
  <2>1. marks'[s] \subseteq marks[s] /\ now <= now' BY <1>6
  <2> QED BY <2>1, Forgetting
<1> QED BY <1>3, <1>4, <1>5, <1>6 DEF WindowsHold

(* Only a delivery that is taken adds a mark; every other step leaves them,  *)
(* or drops some.                                                            *)
LEMMA MarksChange ==
    ASSUME TypeInv, [Next]_vars
    PROVE  /\ now <= now'
           /\ \/ \E l \in Links : /\ Running(l) /\ Allowed(l, now) /\ now' = now
                                  /\ marks' = [marks EXCEPT ![SenderOf(l)] =
                                                  {t \in @ : t[1] > now - Window} \cup {<<now, l>>}]
              \/ \A s \in Senders : marks'[s] \subseteq marks[s]
<1> USE QueueAssumption, PendingAssumption
    DEF TypeInv, TypeOK, PendingTypeOK, QueueTypeOK
<1>1. ASSUME NEW l \in Links, Handle(l), Take(l)
      PROVE  /\ now' = now
             /\ \/ /\ Running(l) /\ Allowed(l, now)
                   /\ marks' = [marks EXCEPT ![SenderOf(l)] =
                                   {t \in @ : t[1] > now - Window} \cup {<<now, l>>}]
                \/ \A s \in Senders : marks'[s] \subseteq marks[s]
  <2>1. CASE \E a \in Asks : TakeNew(l, a[1], now)
    BY <1>1, <2>1 DEF Take, Handle, TakeNew
  <2>2. CASE TakeNothing(l, now)
    <3>1. \A s \in Senders : marks'[s] \subseteq marks[s] BY <2>2 DEF TakeNothing
    <3> QED BY <1>1, <3>1 DEF Take
  <2> QED BY <1>1, <2>1, <2>2 DEF Take
<1>2. ASSUME NEW l \in Links, Handle(l), ~Take(l) PROVE UNCHANGED <<now, marks>>
  BY <1>2 DEF Handle, Propose, SaveProposal, Answer, Confirm, Discard, ExplainWhy, CreateBooked,
              MostrarOpciones, PedirConfirmacionDeCancelar, OfrecerDias, OfrecerHoras, Look, Cancelar,
              Confirmar, Mover, Fail, GoTo, End
<1>3. ASSUME NEW m \in Messages, Deliver(m) PROVE UNCHANGED <<now, marks>>
  BY <1>3 DEF Deliver, Receive
<1>4. CASE PruneLimiter BY <1>4 DEF PruneLimiter, Prune
<1>5. CASE Crash BY <1>5 DEF Crash, Lose
<1>6. CASE Tick BY <1>6 DEF Tick, queueVars
<1>7. CASE PurgePending BY <1>7 DEF PurgePending, queueVars
<1>8. CASE UNCHANGED vars BY <1>8 DEF vars, queueVars
<1> DEFINE Added(l) == /\ Running(l) /\ Allowed(l, now) /\ now' = now
                       /\ marks' = [marks EXCEPT ![SenderOf(l)] =
                                       {t \in @ : t[1] > now - Window} \cup {<<now, l>>}]
           Goal == now <= now' /\ ((\E l \in Links : Added(l)) \/ \A s \in Senders : marks'[s] \subseteq marks[s])
<1>9. now' = now => now <= now' OBVIOUS
<1>10. ASSUME UNCHANGED <<now, marks>> PROVE Goal BY <1>9, <1>10
<1>11. ASSUME NEW l \in Links, Handle(l) PROVE Goal
  <2>1. CASE Take(l) BY <1>1, <1>9, <1>11, <2>1
  <2>2. CASE ~Take(l) BY <1>2, <1>10, <1>11, <2>2
  <2> QED BY <2>1, <2>2
<1>12. ASSUME PruneLimiter \/ Crash \/ Tick \/ PurgePending \/ UNCHANGED vars PROVE Goal
  BY <1>4, <1>5, <1>6, <1>7, <1>8, <1>12
<1>13. ASSUME NEW m \in Messages, Deliver(m) PROVE Goal BY <1>3, <1>10, <1>13
<1>14. Goal
  <2> HIDE DEF Goal
  <2> QED BY <1>11, <1>12, <1>13 DEF Next
<1> QED BY <1>14

LEMMA WindowsStep == ASSUME TypeInv, TypeInv', WindowsHold, [Next]_vars PROVE WindowsHold'
<1>1. CASE \A s \in Senders : marks'[s] \subseteq marks[s]
  BY <1>1, MarksChange, Forgetting DEF WindowsHold
<1>2. ASSUME NEW l \in Links, Running(l), Allowed(l, now), now' = now,
             marks' = [marks EXCEPT ![SenderOf(l)] =
                          {t \in @ : t[1] > now - Window} \cup {<<now, l>>}]
      PROVE  WindowsHold'
  <2>1. PICK me \in Senders : me = SenderOf(l)
    BY <1>2, QueueAssumption DEF SenderOf, Running, TypeInv, TypeOK, QueueTypeOK
  <2> QED BY <1>2, <2>1, Marking
<1> QED BY <1>1, <1>2, MarksChange

(* The limiter lets no more than its maximum through within one window. *)
THEOREM RateKept == Spec => []RateHeld
<1>1. Init => WindowsHold BY FS_EmptySet DEF Init, QueueInit, WindowsHold
<1>2. WindowsHold => RateHeld BY DEF WindowsHold, RateHeld, Within
<1>3. TypeInv /\ TypeInv' /\ WindowsHold /\ [Next]_vars => WindowsHold' BY WindowsStep
<1> QED BY <1>1, <1>2, <1>3, Typed, PTL DEF Spec
=============================================================================
