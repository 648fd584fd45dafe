-------------------------- MODULE AssistantToolsProofs --------------------------
(***************************************************************************)
(* What holds of the assistant's tools for any agenda, any number of       *)
(* people, numbers, rounds and turns, and whatever the model asks for.     *)
(***************************************************************************)
EXTENDS AssistantTools, SequenceTheorems, NaturalsInduction, WellFoundedInduction, TLAPS

CONSTANT Contexts       \* who asks, over which channel

ToolsHypothesis == ToolsAssumption /\ \A ctx \in Contexts : IsContext(ctx)

ToolsSpec == ToolsInit /\ [][ToolsNext \/ \E ctx \in Contexts : Start(ctx)]_toolVars

-----------------------------------------------------------------------------
(* Sequences, whatever they hold. *)

IsSeq(s) == Len(s) \in Nat /\ s = [i \in 1 .. Len(s) |-> s[i]]

LEMMA SeqOfItsOwn ==
    ASSUME NEW s, IsSeq(s), NEW e PROVE s \in Seq({s[i] : i \in 1 .. Len(s)} \cup {e})
<1> DEFINE S == {s[i] : i \in 1 .. Len(s)} \cup {e}
<1>1. \A i \in 1 .. Len(s) : s[i] \in S OBVIOUS
<1> HIDE DEF S
<1>2. s \in [1 .. Len(s) -> S] BY <1>1 DEF IsSeq
<1>3. s \in Seq(S) BY <1>2, SeqDef DEF IsSeq
<1> QED BY <1>3 DEF S

LEMMA IsSeqOf ==
    ASSUME NEW S, NEW s \in Seq(S) PROVE IsSeq(s) /\ DOMAIN s = 1 .. Len(s)
BY LenProperties DEF IsSeq

LEMMA AppendIs ==
    ASSUME NEW s, IsSeq(s), NEW e
    PROVE  /\ IsSeq(Append(s, e)) /\ DOMAIN Append(s, e) = 1 .. Len(s) + 1
           /\ Len(Append(s, e)) = Len(s) + 1
           /\ \A i \in 1 .. Len(s) : Append(s, e)[i] = s[i]
           /\ Append(s, e)[Len(s) + 1] = e
           /\ DOMAIN s = 1 .. Len(s)
<1> DEFINE S == {s[i] : i \in 1 .. Len(s)} \cup {e}
<1>1. s \in Seq(S) /\ e \in S BY SeqOfItsOwn
<1> HIDE DEF S
<1>2. /\ Append(s, e) \in Seq(S) /\ Len(Append(s, e)) = Len(s) + 1
      /\ \A i \in 1 .. Len(s) : Append(s, e)[i] = s[i]
      /\ Append(s, e)[Len(s) + 1] = e
  BY <1>1, AppendProperties
<1> QED BY <1>1, <1>2, IsSeqOf

LEMMA EmptyIs == IsSeq(<<>>) /\ Len(<<>>) = 0 /\ DOMAIN <<>> = {}
<1>1. <<>> \in Seq({}) BY EmptySeq
<1>2. IsSeq(<<>>) /\ DOMAIN <<>> = 1 .. Len(<<>>) BY <1>1, IsSeqOf
<1> QED BY <1>2, LenProperties

LEMMA ConcatIs ==
    ASSUME NEW s, IsSeq(s), NEW e
    PROVE  s \o <<>> = s /\ s \o <<e>> = Append(s, e)
<1> DEFINE S == {s[i] : i \in 1 .. Len(s)} \cup {e}
<1>1. s \in Seq(S) /\ e \in S BY SeqOfItsOwn
<1> HIDE DEF S
<1> QED BY <1>1, AppendIsConcat, ConcatEmptySeq

-----------------------------------------------------------------------------
(* The first check that applies. *)

LEMMA LeastIs ==
    ASSUME NEW S \in SUBSET Nat, S # {} PROVE Min(S) \in S /\ \A j \in S : Min(S) <= j
<1>1. PICK i \in S : \A j \in S : ~(<<j, i>> \in OpToRel(<, Nat))
  BY NatLessThanWellFounded, WFMin
<1>2. \A j \in S : i \in Nat /\ j \in Nat /\ ~(j < i) BY <1>1 DEF OpToRel
<1>3. \A j \in S : i <= j BY <1>2
<1> QED BY <1>3 DEF Min

(* What FirstOf answers when every answer it may give is a refusal. *)
Refusal(r) ==
    ~r.ok /\ r.effect = "none" /\ r.visits = {} /\ (r.ask => r.reason # "courtesy")

Refuses(check) == check # <<>> => Refusal(Head(check))

Throws(check, fine) == check # <<>> => Head(check) # fine

LEMMA FirstOfIs ==
    ASSUME NEW checks, NEW n \in Nat, DOMAIN checks = 1 .. n, NEW otherwise
    PROVE  \/ (\A i \in 1 .. n : checks[i] = <<>>) /\ FirstOf(checks, otherwise) = otherwise
           \/ \E i \in 1 .. n : checks[i] # <<>> /\ FirstOf(checks, otherwise) = Head(checks[i])
<1> DEFINE hits == {i \in DOMAIN checks : checks[i] # <<>>}
<1>1. CASE hits = {} BY <1>1 DEF FirstOf
<1>2. CASE hits # {}
  <2>1. hits \in SUBSET Nat OBVIOUS
  <2> HIDE DEF hits
  <2>2. Min(hits) \in hits BY <1>2, <2>1, LeastIs
  <2>3. FirstOf(checks, otherwise) = Head(checks[Min(hits)]) BY <1>2 DEF FirstOf, hits
  <2> QED BY <2>2, <2>3 DEF hits
<1> QED BY <1>1, <1>2

LEMMA Refused ==
    ASSUME NEW checks, NEW n \in Nat, DOMAIN checks = 1 .. n, NEW otherwise,
           \A i \in 1 .. n : Refuses(checks[i])
    PROVE  \/ (\A i \in 1 .. n : checks[i] = <<>>) /\ FirstOf(checks, otherwise) = otherwise
           \/ Refusal(FirstOf(checks, otherwise))
BY FirstOfIs DEF Refuses

LEMMA NotThrown ==
    ASSUME NEW checks, NEW n \in Nat, DOMAIN checks = 1 .. n, NEW fine,
           FirstOf(checks, fine) = fine, \A i \in 1 .. n : Throws(checks[i], fine)
    PROVE  \A i \in 1 .. n : checks[i] = <<>>
BY FirstOfIs DEF Throws

LEMMA Refusals2 ==
    ASSUME NEW k1, NEW k2, NEW o,
           Refuses(k1), Refuses(k2)
    PROVE  \/ FirstOf(<<k1, k2>>, o) = o /\ k1 = <<>> /\ k2 = <<>>
           \/ Refusal(FirstOf(<<k1, k2>>, o))
<1> DEFINE checks == <<k1, k2>>
<1>0. DOMAIN checks = 1 .. 2 /\ 2 \in Nat OBVIOUS
<1>1. checks[1] = k1 /\ checks[2] = k2 OBVIOUS
<1>2. \A i \in 1 .. 2 : i = 1 \/ i = 2 OBVIOUS
<1> HIDE DEF checks
<1>3. \A i \in 1 .. 2 : Refuses(checks[i]) BY <1>1, <1>2
<1>4. \/ (\A i \in 1 .. 2 : checks[i] = <<>>) /\ FirstOf(checks, o) = o
      \/ Refusal(FirstOf(checks, o))
  BY <1>0, <1>3, Refused
<1>5. (\A i \in 1 .. 2 : checks[i] = <<>>) => k1 = <<>> /\ k2 = <<>> BY <1>1
<1> QED BY <1>4, <1>5 DEF checks

LEMMA Errors2 ==
    ASSUME NEW k1, NEW k2, NEW fine,
           FirstOf(<<k1, k2>>, fine) = fine, Throws(k1, fine), Throws(k2, fine)
    PROVE  k1 = <<>> /\ k2 = <<>>
<1> DEFINE checks == <<k1, k2>>
<1>0. DOMAIN checks = 1 .. 2 /\ 2 \in Nat OBVIOUS
<1>1. checks[1] = k1 /\ checks[2] = k2 OBVIOUS
<1>2. FirstOf(checks, fine) = fine OBVIOUS
<1>3. \A i \in 1 .. 2 : i = 1 \/ i = 2 OBVIOUS
<1> HIDE DEF checks
<1>4. \A i \in 1 .. 2 : Throws(checks[i], fine) BY <1>1, <1>3
<1>5. \A i \in 1 .. 2 : checks[i] = <<>> BY <1>0, <1>2, <1>4, NotThrown
<1> QED BY <1>1, <1>5

LEMMA Refusals3 ==
    ASSUME NEW k1, NEW k2, NEW k3, NEW o,
           Refuses(k1), Refuses(k2), Refuses(k3)
    PROVE  \/ FirstOf(<<k1, k2, k3>>, o) = o /\ k1 = <<>> /\ k2 = <<>> /\ k3 = <<>>
           \/ Refusal(FirstOf(<<k1, k2, k3>>, o))
<1> DEFINE checks == <<k1, k2, k3>>
<1>0. DOMAIN checks = 1 .. 3 /\ 3 \in Nat OBVIOUS
<1>1. checks[1] = k1 /\ checks[2] = k2 /\ checks[3] = k3 OBVIOUS
<1>2. \A i \in 1 .. 3 : i = 1 \/ i = 2 \/ i = 3 OBVIOUS
<1> HIDE DEF checks
<1>3. \A i \in 1 .. 3 : Refuses(checks[i]) BY <1>1, <1>2
<1>4. \/ (\A i \in 1 .. 3 : checks[i] = <<>>) /\ FirstOf(checks, o) = o
      \/ Refusal(FirstOf(checks, o))
  BY <1>0, <1>3, Refused
<1>5. (\A i \in 1 .. 3 : checks[i] = <<>>) => k1 = <<>> /\ k2 = <<>> /\ k3 = <<>> BY <1>1
<1> QED BY <1>4, <1>5 DEF checks

LEMMA Errors3 ==
    ASSUME NEW k1, NEW k2, NEW k3, NEW fine,
           FirstOf(<<k1, k2, k3>>, fine) = fine, Throws(k1, fine), Throws(k2, fine), Throws(k3, fine)
    PROVE  k1 = <<>> /\ k2 = <<>> /\ k3 = <<>>
<1> DEFINE checks == <<k1, k2, k3>>
<1>0. DOMAIN checks = 1 .. 3 /\ 3 \in Nat OBVIOUS
<1>1. checks[1] = k1 /\ checks[2] = k2 /\ checks[3] = k3 OBVIOUS
<1>2. FirstOf(checks, fine) = fine OBVIOUS
<1>3. \A i \in 1 .. 3 : i = 1 \/ i = 2 \/ i = 3 OBVIOUS
<1> HIDE DEF checks
<1>4. \A i \in 1 .. 3 : Throws(checks[i], fine) BY <1>1, <1>3
<1>5. \A i \in 1 .. 3 : checks[i] = <<>> BY <1>0, <1>2, <1>4, NotThrown
<1> QED BY <1>1, <1>5

LEMMA Refusals4 ==
    ASSUME NEW k1, NEW k2, NEW k3, NEW k4, NEW o,
           Refuses(k1), Refuses(k2), Refuses(k3), Refuses(k4)
    PROVE  \/ FirstOf(<<k1, k2, k3, k4>>, o) = o /\ k1 = <<>> /\ k2 = <<>> /\ k3 = <<>> /\ k4 = <<>>
           \/ Refusal(FirstOf(<<k1, k2, k3, k4>>, o))
<1> DEFINE checks == <<k1, k2, k3, k4>>
<1>0. DOMAIN checks = 1 .. 4 /\ 4 \in Nat OBVIOUS
<1>1. checks[1] = k1 /\ checks[2] = k2 /\ checks[3] = k3 /\ checks[4] = k4 OBVIOUS
<1>2. \A i \in 1 .. 4 : i = 1 \/ i = 2 \/ i = 3 \/ i = 4 OBVIOUS
<1> HIDE DEF checks
<1>3. \A i \in 1 .. 4 : Refuses(checks[i]) BY <1>1, <1>2
<1>4. \/ (\A i \in 1 .. 4 : checks[i] = <<>>) /\ FirstOf(checks, o) = o
      \/ Refusal(FirstOf(checks, o))
  BY <1>0, <1>3, Refused
<1>5. (\A i \in 1 .. 4 : checks[i] = <<>>) => k1 = <<>> /\ k2 = <<>> /\ k3 = <<>> /\ k4 = <<>> BY <1>1
<1> QED BY <1>4, <1>5 DEF checks

LEMMA Errors4 ==
    ASSUME NEW k1, NEW k2, NEW k3, NEW k4, NEW fine,
           FirstOf(<<k1, k2, k3, k4>>, fine) = fine, Throws(k1, fine), Throws(k2, fine), Throws(k3, fine), Throws(k4, fine)
    PROVE  k1 = <<>> /\ k2 = <<>> /\ k3 = <<>> /\ k4 = <<>>
<1> DEFINE checks == <<k1, k2, k3, k4>>
<1>0. DOMAIN checks = 1 .. 4 /\ 4 \in Nat OBVIOUS
<1>1. checks[1] = k1 /\ checks[2] = k2 /\ checks[3] = k3 /\ checks[4] = k4 OBVIOUS
<1>2. FirstOf(checks, fine) = fine OBVIOUS
<1>3. \A i \in 1 .. 4 : i = 1 \/ i = 2 \/ i = 3 \/ i = 4 OBVIOUS
<1> HIDE DEF checks
<1>4. \A i \in 1 .. 4 : Throws(checks[i], fine) BY <1>1, <1>3
<1>5. \A i \in 1 .. 4 : checks[i] = <<>> BY <1>0, <1>2, <1>4, NotThrown
<1> QED BY <1>1, <1>5

-----------------------------------------------------------------------------
(* What a tool may leave. *)

IsAgenda(agenda) ==
    IsSeq(agenda) /\ \A v \in DOMAIN agenda : DOMAIN agenda[v] = {"user", "phone", "slot", "state"}

IsSalon(s) ==
    s = [agenda |-> s.agenda, turns |-> s.turns, notices |-> s.notices, boot |-> s.boot,
         ultimos |-> s.ultimos]

Owns(ctx, s, v) ==
    \/ ctx.user # None /\ s.agenda[v].user = ctx.user
    \/ ctx.channel = "whatsapp" /\ s.agenda[v].phone = ctx.phone

Rules(ctx) ==
    (ctx.user = Administrator /\ ctx.admin) \/ (ctx.channel = "whatsapp" /\ ctx.phone = Salon)

\* A result that agrees with who asked; s is the salon the call left.
Entitled(ctx, s, call, r) ==
    /\ r.visits \subseteq DOMAIN s.agenda
    /\ \A v \in r.visits : Owns(ctx, s, v) \/ Rules(ctx)
    /\ r.effect \in {"created", "cancelled", "moved"} => ctx.user # None
    /\ r.effect = "created" =>
          /\ \A v \in r.visits : Owns(ctx, s, v)
          /\ (ctx.channel = "web" /\ call.tool = "crearReserva") => ctx.permits
    /\ r.effect = "confirmed" => ctx.phone = Salon

\* Nobody's visit changes hands, and the owner is told of a number when she may be.
Kept(s) ==
    /\ IsSalon(s) /\ s.turns = salon.turns /\ s.boot = salon.boot
    /\ IsAgenda(s.agenda)
    /\ \A v \in DOMAIN salon.agenda :
          /\ v \in DOMAIN s.agenda
          /\ s.agenda[v].user = salon.agenda[v].user /\ s.agenda[v].phone = salon.agenda[v].phone
    /\ \/ s.notices = salon.notices /\ s.ultimos = salon.ultimos
       \/ \E phone \in Numbers :
             /\ puede(phone) /\ s.ultimos = anotar(phone)
             /\ s.notices = Append(salon.notices, [phone |-> phone, at |-> hour, boot |-> salon.boot])

Offered(ctx, offers) ==
    \/ offers = <<>>
    \/ \E offer : offers = <<offer>> /\ offer.phone = ctx.phone /\ ctx.phone \notin {None, Salon}

Sound(call, o) ==
    /\ o.result.ask => o.result.reason # "courtesy"
    /\ Entitled(turn.ctx, o.salon, call, o.result)
    /\ Kept(o.salon)
    /\ Offered(turn.ctx, o.offers)

\* Where a tool runs.
Asks(ctx) == IsContext(ctx) /\ validarIdentidad(ctx) /\ validarQueEsLaDuena(ctx)

Serving == Asks(turn.ctx) /\ IsSalon(salon) /\ IsAgenda(salon.agenda)

-----------------------------------------------------------------------------
(* Who asks. *)

LEMMA OwnersNumber ==
    ASSUME ToolsHypothesis, NEW ctx, Asks(ctx), ctx.channel = "whatsapp", ctx.admin
    PROVE  ctx.phone = Salon
BY DEF ToolsHypothesis, ToolsAssumption, Asks, validarQueEsLaDuena, normalizeCoPhoneToE164

LEMMA ActorRules ==
    ASSUME ToolsHypothesis, NEW ctx, Asks(ctx), actorDelContexto(ctx).kind = "admin"
    PROVE  Rules(ctx)
<1>1. ctx.channel = "whatsapp" /\ ctx.admin => Rules(ctx) BY OwnersNumber DEF Rules
<1>2. ctx.channel # "whatsapp" /\ ctx.admin => Rules(ctx) BY DEF Rules, Asks, IsContext
<1>3. ctx.admin BY DEF actorDelContexto
<1> QED BY <1>1, <1>2, <1>3

\* The actor of a context may act on what its person or number owns, or rules.
LEMMA ActorOwns ==
    ASSUME ToolsHypothesis, NEW v \in DOMAIN salon.agenda, Serving,
           canActOn(salon.agenda[v], actorDelContexto(turn.ctx))
    PROVE  Owns(turn.ctx, salon, v) \/ Rules(turn.ctx)
<1> DEFINE actor == actorDelContexto(turn.ctx)
<1>1. Asks(turn.ctx) BY DEF Serving
<1>2. CASE actor.kind = "admin" BY <1>1, <1>2, ActorRules
<1>3. CASE actor.kind = "user" /\ salon.agenda[v].user = actor.who
  <2>1. turn.ctx.user # None /\ actor.who = turn.ctx.user BY <1>3 DEF actorDelContexto
  <2> QED BY <1>3, <2>1 DEF Owns
<1>4. CASE actor.kind = "phone" /\ salon.agenda[v].phone = actor.who
  <2>1. turn.ctx.channel = "whatsapp" /\ actor.who = turn.ctx.phone BY <1>4 DEF actorDelContexto
  <2> QED BY <1>4, <2>1 DEF Owns
<1> QED BY <1>2, <1>3, <1>4 DEF canActOn

LEMMA NobodysUser ==
    ASSUME turn.ctx.channel # "whatsapp", actorDelContexto(turn.ctx).kind # "none"
    PROVE  turn.ctx.user # None
BY DEF actorDelContexto

LEMMA IdentityToBook ==
    ASSUME NEW call
    PROVE  \/ Refusal(identidadParaCrear(call))
           \/ /\ identidadParaCrear(call) = Fine
              /\ IF turn.ctx.channel # "whatsapp" THEN turn.ctx.user # None
                 ELSE ~turn.ctx.admin /\ normalizeCoPhoneToE164(turn.ctx.phone) # None
<1> DEFINE k1 == When(turn.ctx.admin, No("solo_clientas"))
           k2 == When(normalizeCoPhoneToE164(turn.ctx.phone) = None, No("numero_no_soportado"))
           k3 == When(Arg(call, "nombre") # 1, Asking("nombre_requerido"))
<1>1. Refuses(k1) /\ Refuses(k2) /\ Refuses(k3) BY DEF Refuses, Refusal, When, No, Asking
<1>2. k1 = <<>> /\ k2 = <<>> => ~turn.ctx.admin /\ normalizeCoPhoneToE164(turn.ctx.phone) # None
  BY DEF When
<1>3. turn.ctx.channel = "whatsapp" => identidadParaCrear(call) = FirstOf(<<k1, k2, k3>>, Fine)
  BY DEF identidadParaCrear
<1>4. turn.ctx.channel # "whatsapp" =>
         identidadParaCrear(call) = IF turn.ctx.user = None THEN No("sesion_requerida") ELSE Fine
  BY DEF identidadParaCrear
<1> HIDE DEF k1, k2, k3
<1>5. CASE turn.ctx.channel = "whatsapp" BY <1>1, <1>2, <1>3, <1>5, Refusals3
<1>6. CASE turn.ctx.channel # "whatsapp" BY <1>4, <1>6 DEF Refusal, No
<1> QED BY <1>5, <1>6

-----------------------------------------------------------------------------
(* What leaves the salon as it was. *)

LEMMA KeptAsItWas == ASSUME Serving PROVE Kept(salon)
BY DEF Serving, Kept

LEMMA RefusalIsSound ==
    ASSUME Serving, NEW call, NEW r, Refusal(r), NEW o \in Only(r) PROVE Sound(call, o)
<1>1. o.result = r /\ o.salon = salon /\ o.offers = <<>> BY DEF Only
<1>2. Kept(o.salon) BY <1>1, KeptAsItWas
<1>3. Entitled(turn.ctx, o.salon, call, o.result) BY <1>1 DEF Refusal, Entitled
<1>4. Offered(turn.ctx, o.offers) BY <1>1 DEF Offered
<1>5. o.result.ask => o.result.reason # "courtesy" BY <1>1 DEF Refusal
<1> QED BY <1>2, <1>3, <1>4, <1>5 DEF Sound

LEMMA YesIs ==
    ASSUME NEW effect, NEW card, NEW visits, NEW r, r = Yes(effect, card, visits)
    PROVE  r.ok /\ ~r.ask /\ r.effect = effect /\ r.visits = visits
BY DEF Yes

LEMMA ReadingIsSound ==
    ASSUME Serving, NEW call, NEW card, NEW visits, NEW o \in Only(Yes("none", card, visits)),
           visits \subseteq DOMAIN salon.agenda,
           \A v \in visits : Owns(turn.ctx, salon, v) \/ Rules(turn.ctx)
    PROVE  Sound(call, o)
<1>1. o.result = Yes("none", card, visits) /\ o.salon = salon /\ o.offers = <<>> BY DEF Only
<1>2. Kept(o.salon) BY <1>1, KeptAsItWas
<1>5. ~o.result.ask /\ o.result.effect = "none" /\ o.result.visits = visits BY <1>1, YesIs
<1>3. Entitled(turn.ctx, o.salon, call, o.result) BY <1>1, <1>5 DEF Entitled
<1>4. Offered(turn.ctx, o.offers) BY <1>1 DEF Offered
<1> QED BY <1>2, <1>3, <1>4, <1>5 DEF Sound

LEMMA NoIsRefusal == \A reason : Refusal(No(reason))
BY DEF Refusal, No

-----------------------------------------------------------------------------
(* The reading tools. *)

LEMMA ListIsSound ==
    ASSUME Serving, NEW call, NEW o \in listarServicios(call) PROVE Sound(call, o)
<1>1. o \in Only(Yes("none", <<"servicios", 0>>, {})) \/ o \in Only(Yes("none", NoCard, {}))
  BY DEF listarServicios
<1> QED BY <1>1, ReadingIsSound

LEMMA MineIsSound ==
    ASSUME Serving, NEW call, NEW o \in misReservas(call) PROVE Sound(call, o)
<1> DEFINE ctx == turn.ctx
           mine == IF ctx.channel = "whatsapp"
                   THEN {v \in DOMAIN salon.agenda : salon.agenda[v].phone = ctx.phone /\ ~Ended(v)}
                   ELSE {v \in DOMAIN salon.agenda : salon.agenda[v].user = ctx.user}
<1>1. CASE ctx.channel # "whatsapp" /\ ctx.user = None
  <2>1. o \in Only(No("sesion_requerida")) BY <1>1 DEF misReservas
  <2> QED BY <2>1, RefusalIsSound, NoIsRefusal
<1>2. CASE ~(ctx.channel # "whatsapp" /\ ctx.user = None)
  <2>1. o \in Only(Yes("none", NoCard, mine)) BY <1>2 DEF misReservas
  <2>2. mine \subseteq DOMAIN salon.agenda OBVIOUS
  <2>3. \A v \in mine : Owns(ctx, salon, v) BY <1>2 DEF Owns
  <2> HIDE DEF mine
  <2> QED BY <2>1, <2>2, <2>3, ReadingIsSound
<1> QED BY <1>1, <1>2

LEMMA AgendaIsSound ==
    ASSUME ToolsHypothesis, Serving, NEW call, NEW o \in verAgenda(call) PROVE Sound(call, o)
<1> DEFINE open == {v \in DOMAIN salon.agenda : ~Ended(v)}
<1>1. CASE ~esLaDuenaPorWhatsApp(turn.ctx)
  <2>1. o \in Only(No("solo_administracion")) BY <1>1 DEF verAgenda
  <2> QED BY <2>1, RefusalIsSound, NoIsRefusal
<1>2. CASE esLaDuenaPorWhatsApp(turn.ctx)
  <2>1. o \in Only(Yes("none", NoCard, open)) BY <1>2 DEF verAgenda
  <2>2. open \subseteq DOMAIN salon.agenda OBVIOUS
  <2>3. Rules(turn.ctx) BY <1>2, OwnersNumber DEF esLaDuenaPorWhatsApp, Serving, Rules
  <2> HIDE DEF open
  <2> QED BY <2>1, <2>2, <2>3, ReadingIsSound
<1> QED BY <1>1, <1>2

-----------------------------------------------------------------------------
(* The proposals. *)

LEMMA ToConfirmIs ==
    ASSUME ToolsHypothesis, Serving, NEW id, NEW card
    PROVE  \/ Refusal(ToConfirm(id, card))
           \/ /\ ToConfirm(id, card) = Yes("none", card, {id})
              /\ id \in DOMAIN salon.agenda
              /\ Owns(turn.ctx, salon, id) \/ Rules(turn.ctx)
<1> DEFINE actor == actorDelContexto(turn.ctx)
           k1 == When(actor.kind = "none", No("sesion_requerida"))
           k2 == When(Missing(id), No("reserva_no_encontrada"))
           k3 == When(Foreigner(id, actor), No("no_es_tu_reserva"))
<1>1. Refuses(k1) /\ Refuses(k2) /\ Refuses(k3) BY DEF Refuses, Refusal, When, No
<1>2. k2 = <<>> /\ k3 = <<>> => ~Missing(id) /\ ~Foreigner(id, actor) BY DEF When
<1>3. ToConfirm(id, card) = FirstOf(<<k1, k2, k3>>, Yes("none", card, {id})) BY DEF ToConfirm
<1> HIDE DEF k1, k2, k3
<1>4. \/ Refusal(ToConfirm(id, card))
      \/ ToConfirm(id, card) = Yes("none", card, {id}) /\ ~Missing(id) /\ ~Foreigner(id, actor)
  BY <1>1, <1>2, <1>3, Refusals3
<1>5. ~Missing(id) /\ ~Foreigner(id, actor) =>
         id \in DOMAIN salon.agenda /\ (Owns(turn.ctx, salon, id) \/ Rules(turn.ctx))
  BY ActorOwns DEF Missing, Foreigner
<1> QED BY <1>4, <1>5

LEMMA ConfirmingIsSound ==
    ASSUME ToolsHypothesis, Serving, NEW call, NEW id, NEW card, NEW o \in Only(ToConfirm(id, card))
    PROVE  Sound(call, o)
<1>1. CASE Refusal(ToConfirm(id, card)) BY <1>1, RefusalIsSound
<1>2. CASE /\ ToConfirm(id, card) = Yes("none", card, {id})
           /\ id \in DOMAIN salon.agenda
           /\ Owns(turn.ctx, salon, id) \/ Rules(turn.ctx)
  <2>1. o \in Only(Yes("none", card, {id})) BY <1>2
  <2>2. {id} \subseteq DOMAIN salon.agenda
        /\ \A v \in {id} : Owns(turn.ctx, salon, v) \/ Rules(turn.ctx) BY <1>2
  <2> QED BY <2>1, <2>2, ReadingIsSound
<1> QED BY <1>1, <1>2, ToConfirmIs

LEMMA ProposeCancelIsSound ==
    ASSUME ToolsHypothesis, Serving, NEW call, NEW o \in ProposeCancel(call) PROVE Sound(call, o)
<1> DEFINE id == Arg(call, "reservaId")
           card == <<"confirmar-cancelacion", id>>
           k1 == When(turn.ctx.channel # "whatsapp", No("solo_whatsapp"))
           k2 == When(id = 0, No("argumentos_invalidos"))
           answer == FirstOf(<<k1, k2>>, ToConfirm(id, card))
<1>1. Refuses(k1) /\ Refuses(k2) BY DEF Refuses, Refusal, When, No
<1>2. o \in Only(answer) BY DEF ProposeCancel
<1> HIDE DEF k1, k2, id, card
<1>3. answer = ToConfirm(id, card) \/ Refusal(answer) BY <1>1, Refusals2
<1> HIDE DEF answer
<1> QED BY <1>2, <1>3, RefusalIsSound, ConfirmingIsSound

LEMMA ProposeRescheduleIsSound ==
    ASSUME ToolsHypothesis, Serving, NEW call, NEW o \in ProposeReschedule(call) PROVE Sound(call, o)
<1> DEFINE id == Arg(call, "reservaId")
           slot == Arg(call, "nuevaFecha")
           card == <<"confirmar-cambio", id, slot>>
           k1 == When(turn.ctx.channel # "whatsapp", No("solo_whatsapp"))
           k2 == When(id = 0 \/ slot = 0, No("argumentos_invalidos"))
           answer == FirstOf(<<k1, k2>>, ToConfirm(id, card))
<1>1. Refuses(k1) /\ Refuses(k2) BY DEF Refuses, Refusal, When, No
<1>2. o \in Only(answer) BY DEF ProposeReschedule
<1> HIDE DEF k1, k2, id, slot, card
<1>3. answer = ToConfirm(id, card) \/ Refusal(answer) BY <1>1, Refusals2
<1> HIDE DEF answer
<1> QED BY <1>2, <1>3, RefusalIsSound, ConfirmingIsSound

LEMMA ProposeBookingIsSound ==
    ASSUME ToolsHypothesis, Serving, NEW call, NEW o \in ProposeBooking(call) PROVE Sound(call, o)
<1> DEFINE k1 == When(turn.ctx.channel # "whatsapp", No("solo_whatsapp"))
           k2 == When(~identidadParaCrear(call).ok, identidadParaCrear(call))
           k3 == When(~ValidArguments(call), No("argumentos_invalidos"))
           k4 == When(Arg(call, "serviciosIds") = Unknown, No("servicio_invalido"))
           refusal == FirstOf(<<k1, k2, k3, k4>>, Fine)
           offer == [phone |-> turn.ctx.phone, slot |-> Arg(call, "fechaHoraIso")]
           card == <<"confirmar-reserva", Len(turn.offers) + 1>>
<1>1. Refuses(k1) /\ Refuses(k3) /\ Refuses(k4) BY DEF Refuses, Refusal, When, No
<1>2. Fine.ok BY DEF Fine, Yes
<1>3. Refuses(k2) BY <1>2, IdentityToBook DEF Refuses, Refusal, When
<1>4. k1 = <<>> /\ k2 = <<>> => turn.ctx.channel = "whatsapp" /\ identidadParaCrear(call).ok BY DEF When
<1>5. IF ~refusal.ok THEN o \in Only(refusal)
      ELSE o = [result |-> Yes("proposed", card, {}), offers |-> <<offer>>, salon |-> salon]
  BY DEF ProposeBooking
<1>6. offer.phone = turn.ctx.phone OBVIOUS
<1> HIDE DEF k1, k2, k3, k4, offer, card
<1>7. (refusal = Fine /\ k1 = <<>> /\ k2 = <<>>) \/ Refusal(refusal) BY <1>1, <1>3, Refusals4
<1> HIDE DEF refusal
<1>8. CASE Refusal(refusal)
  <2>1. o \in Only(refusal) BY <1>5, <1>8 DEF Refusal
  <2> QED BY <1>8, <2>1, RefusalIsSound
<1>9. CASE refusal = Fine /\ k1 = <<>> /\ k2 = <<>>
  <2>1. o = [result |-> Yes("proposed", card, {}), offers |-> <<offer>>, salon |-> salon]
    BY <1>2, <1>5, <1>9
  <2>2. o.result = Yes("proposed", card, {}) /\ o.salon = salon /\ o.offers = <<offer>> BY <2>1
  <2>3. ~o.result.ask /\ o.result.effect = "proposed" /\ o.result.visits = {} BY <2>2, YesIs
  <2>4. Kept(o.salon) BY <2>2, KeptAsItWas
  <2>5. Entitled(turn.ctx, o.salon, call, o.result) BY <2>3 DEF Entitled
  <2>6. ~turn.ctx.admin /\ normalizeCoPhoneToE164(turn.ctx.phone) # None
    BY <1>4, <1>9, IdentityToBook DEF Refusal
  <2>7. turn.ctx.phone \notin {None, Salon}
    BY <2>6 DEF normalizeCoPhoneToE164, Serving, Asks, IsContext
  <2>8. Offered(turn.ctx, o.offers) BY <1>6, <2>2, <2>7 DEF Offered
  <2> QED BY <2>3, <2>4, <2>5, <2>8 DEF Sound
<1> QED BY <1>7, <1>8, <1>9

-----------------------------------------------------------------------------
(* The tools that write. *)

LEMMA ExceptIs ==
    ASSUME NEW s, IsSeq(s), NEW i \in DOMAIN s, NEW e
    PROVE  /\ IsSeq([s EXCEPT ![i] = e]) /\ DOMAIN [s EXCEPT ![i] = e] = DOMAIN s
           /\ \A j \in DOMAIN s : [s EXCEPT ![i] = e][j] = IF j = i THEN e ELSE s[j]
<1> DEFINE S == {s[j] : j \in 1 .. Len(s)} \cup {e}
<1>1. s \in Seq(S) /\ e \in S BY SeqOfItsOwn
<1> HIDE DEF S
<1>2. [s EXCEPT ![i] = e] \in Seq(S) BY <1>1, ExceptSeq, IsSeqOf
<1>3. IsSeq([s EXCEPT ![i] = e]) BY <1>2, IsSeqOf
<1> QED BY <1>3

\* One visit changed, in the hands it was in.
LEMMA ChangeIsSound ==
    ASSUME Serving, NEW call, NEW effect \in {"cancelled", "moved", "confirmed"},
           NEW id \in DOMAIN salon.agenda, NEW as, NEW o \in Change(Yes(effect, NoCard, {id}), id, as),
           DOMAIN as = {"user", "phone", "slot", "state"},
           as.user = salon.agenda[id].user, as.phone = salon.agenda[id].phone,
           Owns(turn.ctx, salon, id) \/ Rules(turn.ctx),
           effect \in {"cancelled", "moved"} => turn.ctx.user # None,
           effect = "confirmed" => turn.ctx.phone = Salon
    PROVE  Sound(call, o)
<1> DEFINE r == Yes(effect, NoCard, {id})
           left == [salon EXCEPT !.agenda[id] = as]
<1>0. o = [result |-> r, offers |-> <<>>, salon |-> left] BY DEF Change
<1> HIDE DEF r, left
<1>1. o.result = r /\ o.offers = <<>> /\ o.salon = left BY <1>0
<1> USE DEF r, left
<1>2. ~o.result.ask /\ o.result.effect = effect /\ o.result.visits = {id} BY <1>1, YesIs
<1>3. IsSalon(salon) /\ IsAgenda(salon.agenda) BY DEF Serving
<1> DEFINE agenda == [salon.agenda EXCEPT ![id] = as]
<1>4. /\ IsSalon(o.salon) /\ o.salon.agenda = agenda /\ o.salon.turns = salon.turns
      /\ o.salon.boot = salon.boot /\ o.salon.notices = salon.notices
      /\ o.salon.ultimos = salon.ultimos
  BY <1>1, <1>3 DEF IsSalon
<1>5. /\ IsSeq(agenda) /\ DOMAIN agenda = DOMAIN salon.agenda
      /\ \A v \in DOMAIN salon.agenda : agenda[v] = IF v = id THEN as ELSE salon.agenda[v]
  BY <1>3, ExceptIs DEF IsAgenda
<1> HIDE DEF agenda
<1>6. IsAgenda(agenda) BY <1>3, <1>5 DEF IsAgenda
<1>7. \A v \in DOMAIN salon.agenda :
         agenda[v].user = salon.agenda[v].user /\ agenda[v].phone = salon.agenda[v].phone
  BY <1>5
<1>8. Kept(o.salon) BY <1>4, <1>5, <1>6, <1>7 DEF Kept
<1>9. Owns(turn.ctx, o.salon, id) \/ Rules(turn.ctx) BY <1>4, <1>7 DEF Owns
<1>10. Entitled(turn.ctx, o.salon, call, o.result) BY <1>2, <1>4, <1>5, <1>9 DEF Entitled
<1>11. Offered(turn.ctx, o.offers) BY <1>1 DEF Offered
<1> QED BY <1>2, <1>8, <1>10, <1>11 DEF Sound

LEMMA ThrowsIs ==
    ASSUME NEW check, NEW error, NEW fine, check = <<>> \/ check = <<error>>, error # fine
    PROVE  Throws(check, fine)
BY DEF Throws

LEMMA CancelErrors ==
    ASSUME ToolsHypothesis, Serving, NEW id, CancelError(id, actorDelContexto(turn.ctx)) = ""
    PROVE  id \in DOMAIN salon.agenda /\ (Owns(turn.ctx, salon, id) \/ Rules(turn.ctx))
<1> DEFINE actor == actorDelContexto(turn.ctx)
           k1 == When(Missing(id), "ReservationNotFound")
           k2 == When(Foreigner(id, actor), "ReservationOwnership")
           k3 == When(Ended(id), "InvalidStatusTransition")
<1>1. /\ (k1 = <<>> \/ k1 = <<"ReservationNotFound">>)
      /\ (k2 = <<>> \/ k2 = <<"ReservationOwnership">>)
      /\ (k3 = <<>> \/ k3 = <<"InvalidStatusTransition">>)
  BY DEF When
<1>2. k1 = <<>> /\ k2 = <<>> => ~Missing(id) /\ ~Foreigner(id, actor) BY DEF When
<1>3. FirstOf(<<k1, k2, k3>>, "") = "" BY DEF CancelError
<1> HIDE DEF k1, k2, k3
<1>4. Throws(k1, "") /\ Throws(k2, "") /\ Throws(k3, "")
  BY <1>1, ThrowsIs
<1>5. ~Missing(id) /\ ~Foreigner(id, actor) BY <1>2, <1>3, <1>4, Errors3
<1> QED BY <1>5, ActorOwns DEF Missing, Foreigner

LEMMA RescheduleErrors ==
    ASSUME ToolsHypothesis, Serving, NEW id, NEW slot,
           RescheduleError(id, slot, actorDelContexto(turn.ctx)) = ""
    PROVE  id \in DOMAIN salon.agenda /\ (Owns(turn.ctx, salon, id) \/ Rules(turn.ctx))
<1> DEFINE actor == actorDelContexto(turn.ctx)
           k1 == When(Missing(id), "ReservationNotFound")
           k2 == When(Foreigner(id, actor), "ReservationOwnership")
           k3 == When(Ended(id), "ReservationNotReschedulable")
           k4 == When(Taken(slot, id), "WorkerOverlap")
<1>1. /\ (k1 = <<>> \/ k1 = <<"ReservationNotFound">>)
      /\ (k2 = <<>> \/ k2 = <<"ReservationOwnership">>)
      /\ (k3 = <<>> \/ k3 = <<"ReservationNotReschedulable">>)
      /\ (k4 = <<>> \/ k4 = <<"WorkerOverlap">>)
  BY DEF When
<1>2. k1 = <<>> /\ k2 = <<>> => ~Missing(id) /\ ~Foreigner(id, actor) BY DEF When
<1>3. FirstOf(<<k1, k2, k3, k4>>, "") = "" BY DEF RescheduleError
<1> HIDE DEF k1, k2, k3, k4
<1>4. Throws(k1, "") /\ Throws(k2, "") /\ Throws(k3, "") /\ Throws(k4, "")
  BY <1>1, ThrowsIs
<1>5. ~Missing(id) /\ ~Foreigner(id, actor) BY <1>2, <1>3, <1>4, Errors4
<1> QED BY <1>5, ActorOwns DEF Missing, Foreigner

LEMMA ConfirmErrors ==
    ASSUME NEW id, ConfirmError(id) = "" PROVE id \in DOMAIN salon.agenda
<1> DEFINE k1 == When(Missing(id), "ReservationNotFound")
           k2 == When(\A v \in DOMAIN salon.agenda : v = id => salon.agenda[v].state # "pendiente",
                      "InvalidStatusTransition")
<1>1. /\ (k1 = <<>> \/ k1 = <<"ReservationNotFound">>)
      /\ (k2 = <<>> \/ k2 = <<"InvalidStatusTransition">>)
  BY DEF When
<1>2. k1 = <<>> => ~Missing(id) BY DEF When
<1>3. FirstOf(<<k1, k2>>, "") = "" BY DEF ConfirmError
<1> HIDE DEF k1, k2
<1>4. Throws(k1, "") /\ Throws(k2, "")
  BY <1>1, ThrowsIs
<1>5. ~Missing(id) BY <1>2, <1>3, <1>4, Errors2
<1> QED BY <1>5 DEF Missing

LEMMA CancelIsSound ==
    ASSUME ToolsHypothesis, Serving, NEW call, NEW o \in cancelarReserva(call) PROVE Sound(call, o)
<1> DEFINE id == Arg(call, "reservaId")
           actor == actorDelContexto(turn.ctx)
           k1 == When(turn.ctx.channel = "whatsapp", No("requiere_boton"))
           k2 == When(actor.kind = "none", No("sesion_requerida"))
           k3 == When(id = 0, No("argumentos_invalidos"))
           refusal == FirstOf(<<k1, k2, k3>>, Fine)
           error == CancelError(id, actor)
           as == [salon.agenda[id] EXCEPT !.state = "cancelada"]
<1>1. Refuses(k1) /\ Refuses(k2) /\ Refuses(k3) BY DEF Refuses, Refusal, When, No
<1>2. Fine.ok BY DEF Fine, Yes
<1>3. k1 = <<>> /\ k2 = <<>> => turn.ctx.channel # "whatsapp" /\ actor.kind # "none" BY DEF When
<1>4. o \in IF ~refusal.ok THEN Only(refusal)
            ELSE IF error # "" THEN Only(No(mapCancelErrorToReason(error)))
            ELSE Change(Yes("cancelled", NoCard, {id}), id, as)
  BY DEF cancelarReserva
<1>5. id \in DOMAIN salon.agenda =>
         /\ DOMAIN as = {"user", "phone", "slot", "state"}
         /\ as.user = salon.agenda[id].user /\ as.phone = salon.agenda[id].phone
  BY DEF Serving, IsAgenda
<1>6. error = "" => id \in DOMAIN salon.agenda /\ (Owns(turn.ctx, salon, id) \/ Rules(turn.ctx))
  BY CancelErrors
<1> HIDE DEF k1, k2, k3, id, error, as
<1>7. (refusal = Fine /\ k1 = <<>> /\ k2 = <<>>) \/ Refusal(refusal) BY <1>1, Refusals3
<1> HIDE DEF refusal
<1>8. CASE Refusal(refusal)
  <2>1. o \in Only(refusal) BY <1>4, <1>8 DEF Refusal
  <2> QED BY <1>8, <2>1, RefusalIsSound
<1>9. CASE error # "" /\ refusal.ok
  <2>1. o \in Only(No(mapCancelErrorToReason(error))) BY <1>4, <1>9
  <2> QED BY <2>1, RefusalIsSound, NoIsRefusal
<1>10. CASE error = "" /\ refusal = Fine /\ k1 = <<>> /\ k2 = <<>>
  <2>1. o \in Change(Yes("cancelled", NoCard, {id}), id, as) BY <1>2, <1>4, <1>10
  <2>2. turn.ctx.user # None BY <1>3, <1>10, NobodysUser
  <2> QED BY <1>5, <1>6, <1>10, <2>1, <2>2, ChangeIsSound
<1> QED BY <1>2, <1>7, <1>8, <1>9, <1>10

LEMMA RescheduleIsSound ==
    ASSUME ToolsHypothesis, Serving, NEW call, NEW o \in reprogramarReserva(call) PROVE Sound(call, o)
<1> DEFINE id == Arg(call, "reservaId")
           slot == Arg(call, "nuevaFecha")
           actor == actorDelContexto(turn.ctx)
           k1 == When(turn.ctx.channel = "whatsapp", No("requiere_boton"))
           k2 == When(actor.kind = "none", No("sesion_requerida"))
           k3 == When(id = 0 \/ slot = 0, No("argumentos_invalidos"))
           refusal == FirstOf(<<k1, k2, k3>>, Fine)
           error == RescheduleError(id, slot, actor)
           as == [salon.agenda[id] EXCEPT !.slot = slot]
<1>1. Refuses(k1) /\ Refuses(k2) /\ Refuses(k3) BY DEF Refuses, Refusal, When, No
<1>2. Fine.ok BY DEF Fine, Yes
<1>3. k1 = <<>> /\ k2 = <<>> => turn.ctx.channel # "whatsapp" /\ actor.kind # "none" BY DEF When
<1>4. o \in IF ~refusal.ok THEN Only(refusal)
            ELSE IF error # "" THEN Only(No(mapRescheduleErrorToReason(error)))
            ELSE Change(Yes("moved", NoCard, {id}), id, as)
  BY DEF reprogramarReserva
<1>5. id \in DOMAIN salon.agenda =>
         /\ DOMAIN as = {"user", "phone", "slot", "state"}
         /\ as.user = salon.agenda[id].user /\ as.phone = salon.agenda[id].phone
  BY DEF Serving, IsAgenda
<1>6. error = "" => id \in DOMAIN salon.agenda /\ (Owns(turn.ctx, salon, id) \/ Rules(turn.ctx))
  BY RescheduleErrors
<1> HIDE DEF k1, k2, k3, id, slot, error, as
<1>7. (refusal = Fine /\ k1 = <<>> /\ k2 = <<>>) \/ Refusal(refusal) BY <1>1, Refusals3
<1> HIDE DEF refusal
<1>8. CASE Refusal(refusal)
  <2>1. o \in Only(refusal) BY <1>4, <1>8 DEF Refusal
  <2> QED BY <1>8, <2>1, RefusalIsSound
<1>9. CASE error # "" /\ refusal.ok
  <2>1. o \in Only(No(mapRescheduleErrorToReason(error))) BY <1>4, <1>9
  <2> QED BY <2>1, RefusalIsSound, NoIsRefusal
<1>10. CASE error = "" /\ refusal = Fine /\ k1 = <<>> /\ k2 = <<>>
  <2>1. o \in Change(Yes("moved", NoCard, {id}), id, as) BY <1>2, <1>4, <1>10
  <2>2. turn.ctx.user # None BY <1>3, <1>10, NobodysUser
  <2> QED BY <1>5, <1>6, <1>10, <2>1, <2>2, ChangeIsSound
<1> QED BY <1>2, <1>7, <1>8, <1>9, <1>10

LEMMA ConfirmIsSound ==
    ASSUME ToolsHypothesis, Serving, NEW call, NEW o \in confirmarReserva(call) PROVE Sound(call, o)
<1> DEFINE id == Arg(call, "reservaId")
           k1 == When(~esLaDuenaPorWhatsApp(turn.ctx), No("solo_administracion"))
           k2 == When(id = 0, No("argumentos_invalidos"))
           refusal == FirstOf(<<k1, k2>>, Fine)
           error == ConfirmError(id)
           as == [salon.agenda[id] EXCEPT !.state = "confirmada"]
<1>1. Refuses(k1) /\ Refuses(k2) BY DEF Refuses, Refusal, When, No
<1>2. Fine.ok BY DEF Fine, Yes
<1>3. k1 = <<>> => esLaDuenaPorWhatsApp(turn.ctx) BY DEF When
<1>4. o \in IF ~refusal.ok THEN Only(refusal)
            ELSE IF error # "" THEN Only(No(mapConfirmErrorToReason(error)))
            ELSE Change(Yes("confirmed", NoCard, {id}), id, as)
  BY DEF confirmarReserva
<1>5. id \in DOMAIN salon.agenda =>
         /\ DOMAIN as = {"user", "phone", "slot", "state"}
         /\ as.user = salon.agenda[id].user /\ as.phone = salon.agenda[id].phone
  BY DEF Serving, IsAgenda
<1>6. error = "" => id \in DOMAIN salon.agenda BY ConfirmErrors
<1> HIDE DEF k1, k2, id, error, as
<1>7. (refusal = Fine /\ k1 = <<>>) \/ Refusal(refusal) BY <1>1, Refusals2
<1> HIDE DEF refusal
<1>8. CASE Refusal(refusal)
  <2>1. o \in Only(refusal) BY <1>4, <1>8 DEF Refusal
  <2> QED BY <1>8, <2>1, RefusalIsSound
<1>9. CASE error # "" /\ refusal.ok
  <2>1. o \in Only(No(mapConfirmErrorToReason(error))) BY <1>4, <1>9
  <2> QED BY <2>1, RefusalIsSound, NoIsRefusal
<1>10. CASE error = "" /\ refusal = Fine /\ k1 = <<>>
  <2>1. o \in Change(Yes("confirmed", NoCard, {id}), id, as) BY <1>2, <1>4, <1>10
  <2>2. turn.ctx.channel = "whatsapp" /\ turn.ctx.phone = Salon
    BY <1>3, <1>10, OwnersNumber DEF esLaDuenaPorWhatsApp, Serving
  <2>3. Rules(turn.ctx) BY <2>2 DEF Rules
  <2> QED BY <1>5, <1>6, <1>10, <2>1, <2>2, <2>3, ChangeIsSound
<1> QED BY <1>2, <1>7, <1>8, <1>9, <1>10

LEMMA ReserveIsSound ==
    ASSUME ToolsHypothesis, Serving, NEW call, NEW verified, NEW o \in Reserve(call, verified),
           verified /\ turn.ctx.channel = "web" /\ call.tool = "crearReserva" => turn.ctx.permits
    PROVE  Sound(call, o)
<1> DEFINE k1 == When(turn.ctx.channel = "whatsapp", No("requiere_boton"))
           k2 == When(~identidadParaCrear(call).ok, identidadParaCrear(call))
           k3 == When(~ValidArguments(call), No("argumentos_invalidos"))
           k4 == When(~verified, Asking("confirmacion_requerida"))
           refusal == FirstOf(<<k1, k2, k3, k4>>, Fine)
           error == CreateError(call)
           visit == [user |-> turn.ctx.user, phone |-> None,
                     slot |-> Arg(call, "fechaHoraIso"), state |-> "pendiente"]
           new == Len(salon.agenda) + 1
           booked == Append(salon.agenda, visit)
           left == [salon EXCEPT !.agenda = booked]
           r == Yes("created", NoCard, {new})
<1>1. Refuses(k1) /\ Refuses(k3) /\ Refuses(k4) BY DEF Refuses, Refusal, When, No, Asking
<1>2. Fine.ok BY DEF Fine, Yes
<1>3. Refuses(k2) BY <1>2, IdentityToBook DEF Refuses, Refusal, When
<1>4. (k1 = <<>> => turn.ctx.channel # "whatsapp") /\ (k2 = <<>> => identidadParaCrear(call).ok)
      /\ (k4 = <<>> => verified)
  BY DEF When
<1>5. o \in IF ~refusal.ok THEN Only(refusal)
            ELSE IF error # "" THEN Only(No(mapDomainErrorToReason(error)))
            ELSE {[result |-> r, offers |-> <<>>, salon |-> left]}
  BY DEF Reserve
<1>6. visit.user = turn.ctx.user /\ DOMAIN visit = {"user", "phone", "slot", "state"} OBVIOUS
<1>7. IsSalon(salon) /\ IsAgenda(salon.agenda) BY DEF Serving
<1>8. ~r.ask /\ r.effect = "created" /\ r.visits = {new} BY YesIs
<1>9. /\ IsSalon(left) /\ left.agenda = booked /\ left.turns = salon.turns
      /\ left.boot = salon.boot /\ left.notices = salon.notices /\ left.ultimos = salon.ultimos
  BY <1>7 DEF IsSalon
<1> HIDE DEF visit
<1>10. /\ IsSeq(booked) /\ DOMAIN salon.agenda = 1 .. Len(salon.agenda)
       /\ Len(salon.agenda) \in Nat /\ DOMAIN booked = 1 .. Len(salon.agenda) + 1
       /\ \A v \in DOMAIN salon.agenda : booked[v] = salon.agenda[v]
       /\ booked[new] = visit
  BY <1>7, AppendIs DEF IsAgenda, IsSeq
<1> HIDE DEF k1, k2, k3, k4, error, left, r, booked
<1>11. (refusal = Fine /\ k1 = <<>> /\ k2 = <<>> /\ k4 = <<>>) \/ Refusal(refusal)
  BY <1>1, <1>3, Refusals4
<1> HIDE DEF refusal
<1>12. CASE Refusal(refusal)
  <2>1. o \in Only(refusal) BY <1>5, <1>12 DEF Refusal
  <2> QED BY <1>12, <2>1, RefusalIsSound
<1>13. CASE error # "" /\ refusal.ok
  <2>1. o \in Only(No(mapDomainErrorToReason(error))) BY <1>5, <1>13
  <2> QED BY <2>1, RefusalIsSound, NoIsRefusal
<1>14. CASE error = "" /\ refusal = Fine /\ k1 = <<>> /\ k2 = <<>> /\ k4 = <<>>
  <2>1. o = [result |-> r, offers |-> <<>>, salon |-> left] BY <1>2, <1>5, <1>14
  <2>2. o.result = r /\ o.offers = <<>> /\ o.salon = left BY <2>1
  <2>3. turn.ctx.user # None /\ verified BY <1>4, <1>14, IdentityToBook DEF Refusal
  <2>4. DOMAIN salon.agenda \subseteq DOMAIN booked /\ new \in DOMAIN booked
        /\ \A v \in DOMAIN booked : v = new \/ v \in DOMAIN salon.agenda
    BY <1>10
  <2>5. IsAgenda(booked) BY <1>6, <1>7, <1>10, <2>4 DEF IsAgenda
  <2>6. Kept(o.salon) BY <1>9, <1>10, <2>2, <2>4, <2>5 DEF Kept
  <2>7. Owns(turn.ctx, o.salon, new) BY <1>6, <1>9, <1>10, <2>2, <2>3 DEF Owns
  <2>8. Entitled(turn.ctx, o.salon, call, o.result)
    BY <1>8, <1>9, <2>2, <2>3, <2>4, <2>7 DEF Entitled
  <2>9. Offered(turn.ctx, o.offers) BY <2>2 DEF Offered
  <2> QED BY <1>8, <2>2, <2>6, <2>8, <2>9 DEF Sound
<1> QED BY <1>2, <1>11, <1>12, <1>13, <1>14

LEMMA NoticeIsSound ==
    ASSUME ToolsHypothesis, Serving, NEW call, NEW o \in hablarConLaDuena(call) PROVE Sound(call, o)
<1> DEFINE phone == turn.ctx.phone
           k1 == When(turn.ctx.channel # "whatsapp" \/ turn.ctx.admin, No("solo_clientas_whatsapp"))
           k2 == When(Arg(call, "motivo") = 0, Asking("sin_motivo"))
           refusal == FirstOf(<<k1, k2>>, Fine)
           notice == [phone |-> phone, at |-> hour, boot |-> salon.boot]
           r == Yes("notified", NoCard, {})
           marked == anotar(phone)
           told == Append(salon.notices, notice)
           left == [salon EXCEPT !.ultimos = marked, !.notices = told]
<1>1. Refuses(k1) /\ Refuses(k2) BY DEF Refuses, Refusal, When, No, Asking
<1>2. Fine.ok BY DEF Fine, Yes
<1>3. k1 = <<>> => turn.ctx.channel = "whatsapp" BY DEF When
<1>4. o \in IF ~refusal.ok THEN Only(refusal)
            ELSE IF ~puede(phone) THEN Only(Yes("none", NoCard, {}))
            ELSE Only(Asking("sin_aviso")) \union {[result |-> r, offers |-> <<>>, salon |-> left]}
  BY DEF hablarConLaDuena
<1>5. IsSalon(salon) /\ IsAgenda(salon.agenda) BY DEF Serving
<1>6. ~r.ask /\ r.effect = "notified" /\ r.visits = {} BY YesIs
<1> HIDE DEF marked, told
<1>a. left = [salon EXCEPT !.ultimos = marked, !.notices = told] OBVIOUS
<1> HIDE DEF left
<1>7. /\ IsSalon(left) /\ left.agenda = salon.agenda /\ left.turns = salon.turns
      /\ left.boot = salon.boot /\ left.notices = told
      /\ left.ultimos = marked
  <2> DEFINE agenda == salon.agenda
             turns == salon.turns
             notices == salon.notices
             boot == salon.boot
             ultimos == salon.ultimos
  <2>1. salon = [agenda |-> agenda, turns |-> turns, notices |-> notices, boot |-> boot,
                 ultimos |-> ultimos]
    BY <1>5 DEF IsSalon
  <2> HIDE DEF agenda, turns, notices, boot, ultimos
  <2>2. left = [agenda |-> agenda, turns |-> turns, notices |-> told, boot |-> boot,
                ultimos |-> marked]
    BY ONLY <1>a, <2>1
  <2>3. left.agenda = agenda /\ left.turns = turns /\ left.boot = boot /\ left.notices = told
        /\ left.ultimos = marked
    BY ONLY <2>2
  <2>4. IsSalon(left) BY <2>2, <2>3 DEF IsSalon
  <2> QED BY <2>3, <2>4 DEF agenda, turns, boot
<1> HIDE DEF k1, k2, r, left
<1>8. (refusal = Fine /\ k1 = <<>>) \/ Refusal(refusal) BY <1>1, Refusals2
<1> HIDE DEF refusal
<1>9. CASE Refusal(refusal)
  <2>1. o \in Only(refusal) BY <1>4, <1>9 DEF Refusal
  <2> QED BY <1>9, <2>1, RefusalIsSound
<1>10. CASE refusal.ok /\ ~puede(phone)
  <2>1. o \in Only(Yes("none", NoCard, {})) BY <1>4, <1>10
  <2> QED BY <2>1, ReadingIsSound
<1>11. CASE refusal = Fine /\ k1 = <<>> /\ puede(phone)
  <2>1. CASE o \in Only(Asking("sin_aviso"))
    <3>1. Refusal(Asking("sin_aviso")) BY DEF Refusal, Asking, No
    <3> QED BY <2>1, <3>1, RefusalIsSound
  <2>2. CASE o = [result |-> r, offers |-> <<>>, salon |-> left]
    <3>1. o.result = r /\ o.offers = <<>> /\ o.salon = left BY <2>2
    <3>2. phone \in Numbers
      BY <1>3, <1>11 DEF Serving, Asks, validarIdentidad, IsContext
    <3>3. Kept(o.salon) BY <1>5, <1>7, <1>11, <3>1, <3>2 DEF Kept, marked, told
    <3>4. Entitled(turn.ctx, o.salon, call, o.result) BY <1>6, <3>1 DEF Entitled
    <3>5. Offered(turn.ctx, o.offers) BY <3>1 DEF Offered
    <3> QED BY <1>6, <3>1, <3>3, <3>4, <3>5 DEF Sound
  <2> QED BY <1>2, <1>4, <1>11, <2>1, <2>2
<1> QED BY <1>2, <1>8, <1>9, <1>10, <1>11

\* Whatever the model asks for, by any name.
LEMMA ExecuteIsSound ==
    ASSUME ToolsHypothesis, Serving, NEW call, NEW o \in Execute(call) PROVE Sound(call, o)
<1>1. CASE call.tool \notin juegoDelTurno(turn.ctx)
  <2>1. o \in Only(No("herramienta_desconocida")) BY <1>1 DEF Execute
  <2> QED BY <2>1, RefusalIsSound, NoIsRefusal
<1>2. CASE call.tool \in juegoDelTurno(turn.ctx)
  <2>1. call.tool \in {"listarServicios", "misReservas", "verAgenda", "hablarConLaDuena",
                       "confirmarReserva", "crearReserva", "reservarPaquete", "cancelarReserva",
                       "reprogramarReserva"}
    BY <1>2 DEF juegoDelTurno, WebTools, ClientTools, OwnerTools
  <2>2. CASE call.tool = "listarServicios"
    <3>1. o \in listarServicios(call) BY <1>2, <2>2 DEF Execute
    <3> QED BY <3>1, ListIsSound
  <2>3. CASE call.tool = "misReservas"
    <3>1. o \in misReservas(call) BY <1>2, <2>3 DEF Execute
    <3> QED BY <3>1, MineIsSound
  <2>4. CASE call.tool = "verAgenda"
    <3>1. o \in verAgenda(call) BY <1>2, <2>4 DEF Execute
    <3> QED BY <3>1, AgendaIsSound
  <2>5. CASE call.tool = "hablarConLaDuena"
    <3>1. o \in hablarConLaDuena(call) BY <1>2, <2>5 DEF Execute
    <3> QED BY <3>1, NoticeIsSound
  <2>6. CASE call.tool = "confirmarReserva"
    <3>1. o \in confirmarReserva(call) BY <1>2, <2>6 DEF Execute
    <3> QED BY <3>1, ConfirmIsSound
  <2>7. CASE call.tool = "crearReserva"
    <3>1. \/ o \in ProposeBooking(call)
          \/ o \in Reserve(call, turn.ctx.channel = "web" => turn.ctx.permits)
      BY <1>2, <2>7 DEF Execute, crearReserva
    <3> QED BY <3>1, ProposeBookingIsSound, ReserveIsSound
  <2>8. CASE call.tool = "reservarPaquete"
    <3>1. o \in ProposeBooking(call) \/ o \in Reserve(call, TRUE)
      BY <1>2, <2>8 DEF Execute, reservarPaquete
    <3> QED BY <2>8, <3>1, ProposeBookingIsSound, ReserveIsSound
  <2>9. CASE call.tool = "cancelarReserva"
    <3>1. o \in ProposeCancel(call) \/ o \in cancelarReserva(call) BY <1>2, <2>9 DEF Execute
    <3> QED BY <3>1, ProposeCancelIsSound, CancelIsSound
  <2>10. CASE call.tool = "reprogramarReserva"
    <3>1. o \in ProposeReschedule(call) \/ o \in reprogramarReserva(call)
      BY <1>2, <2>10 DEF Execute
    <3> QED BY <3>1, ProposeRescheduleIsSound, RescheduleIsSound
  <2> QED BY <2>1, <2>2, <2>3, <2>4, <2>5, <2>6, <2>7, <2>8, <2>9, <2>10
<1> QED BY <1>1, <1>2

-----------------------------------------------------------------------------
(* The invariants. A turn at rest has nothing; one that runs is of somebody *)
(* who may ask.                                                             *)

IsTurn(t) ==
    t = [at |-> t.at, ctx |-> t.ctx, round |-> t.round, calls |-> t.calls, memo |-> t.memo,
         stale |-> t.stale, seen |-> t.seen, cards |-> t.cards, offers |-> t.offers,
         reply |-> t.reply]

TurnInv ==
    /\ IsTurn(turn)
    /\ IsSeq(turn.memo) /\ IsSeq(turn.cards) /\ IsSeq(turn.offers)
    /\ turn.at = "idle" => turn = Resting
    /\ turn.at # "idle" => Asks(turn.ctx)

SalonInv ==
    /\ IsSalon(salon) /\ IsAgenda(salon.agenda) /\ IsSeq(salon.notices)
    /\ hour \in Nat /\ salon.boot \in Nat

\* Everything the turn did is remembered once, under its signature; a question
\* a tool left is not the apology.
MemoInv ==
    /\ \A i \in DOMAIN turn.memo :
          /\ turn.memo[i].key = firmaDeLlamada(turn.memo[i].call)
          /\ turn.memo[i].result.ask => turn.memo[i].result.reason # "courtesy"
    /\ \A i, j \in DOMAIN turn.memo : turn.memo[i].key = turn.memo[j].key => i = j

CardsInv == \A i, j \in DOMAIN turn.cards : turn.cards[i] = turn.cards[j] => i = j

ReplyInv ==
    (turn.at = "done" /\ turn.ctx.channel # "mcp") =>
        /\ turn.seen = Len(turn.memo)
        /\ turn.reply = "courtesy" => \A i \in DOMAIN turn.memo : ~turn.memo[i].result.ask
        /\ turn.reply # "text" => turn.cards = <<>>

ToldInv == TurnInv /\ MemoInv /\ CardsInv /\ ReplyInv

\* A result stays right while the turn goes on: visits do not change hands.
EntitledInv ==
    \A i \in DOMAIN turn.memo : Entitled(turn.ctx, salon, turn.memo[i].call, turn.memo[i].result)

OfferInv ==
    \A i \in DOMAIN turn.offers :
        turn.offers[i].phone = turn.ctx.phone /\ turn.ctx.phone \notin {None, Salon}

\* A notice of this process is remembered until its window is over.
NoticeInv ==
    /\ \A n \in Numbers : salon.ultimos[n] \in Int /\ salon.ultimos[n] <= hour
    /\ \A i \in DOMAIN salon.notices :
          LET a == salon.notices[i] IN
          /\ a.phone \in Numbers /\ a.at \in Nat /\ a.at <= hour
          /\ a.boot \in Nat /\ a.boot <= salon.boot
          /\ a.boot = salon.boot =>
                \/ hour - a.at >= ENFRIAMIENTO_CONTACTO
                \/ salon.ultimos[a.phone] # Never /\ salon.ultimos[a.phone] >= a.at
    /\ \A i, j \in DOMAIN salon.notices :
          LET a == salon.notices[i]   b == salon.notices[j] IN
          (i < j /\ a.phone = b.phone /\ a.boot = b.boot) => b.at - a.at >= ENFRIAMIENTO_CONTACTO

ToolsInv == ToldInv /\ SalonInv /\ EntitledInv /\ OfferInv /\ NoticeInv

-----------------------------------------------------------------------------
(* The invariants are what the runs check. *)

LEMMA ToldImplies == ToldInv => EffectsToldOnce
<1> SUFFICES ASSUME ToldInv PROVE EffectsToldOnce OBVIOUS
<1>1. \A i, j \in DOMAIN turn.memo :
         (turn.memo[i].call.tool = turn.memo[j].call.tool
            /\ ToSet(turn.memo[i].call.args) = ToSet(turn.memo[j].call.args)) => i = j
  <2> SUFFICES ASSUME NEW i \in DOMAIN turn.memo, NEW j \in DOMAIN turn.memo,
                      turn.memo[i].call.tool = turn.memo[j].call.tool,
                      ToSet(turn.memo[i].call.args) = ToSet(turn.memo[j].call.args)
               PROVE  i = j
    OBVIOUS
  <2>1. firmaDeLlamada(turn.memo[i].call) = firmaDeLlamada(turn.memo[j].call)
    BY DEF firmaDeLlamada
  <2> QED BY <2>1 DEF ToldInv, MemoInv
<1>2. (turn.at = "done" /\ turn.ctx.channel # "mcp") =>
         /\ turn.seen = Len(turn.memo)
         /\ turn.reply = "courtesy" => \A r \in Results : ~r.ask
         /\ turn.reply # "text" => turn.cards = <<>>
  BY DEF ToldInv, ReplyInv, Results
<1>3. CardsInv BY DEF ToldInv
<1> QED BY <1>1, <1>2, <1>3 DEF EffectsToldOnce, CardsInv

LEMMA OwnersImply == EntitledInv /\ OfferInv /\ NoticeInv => EffectsHaveAnOwner
<1> SUFFICES ASSUME EntitledInv, OfferInv, NoticeInv PROVE EffectsHaveAnOwner OBVIOUS
<1>1. \A i \in DOMAIN turn.memo :
         Entitled(turn.ctx, salon, turn.memo[i].call, turn.memo[i].result)
  BY DEF EntitledInv
<1>2. \A i \in DOMAIN turn.offers :
         turn.offers[i].phone = turn.ctx.phone /\ turn.ctx.phone \notin {None, Salon}
  BY DEF OfferInv
<1>3. \A i, j \in DOMAIN salon.notices :
         LET a == salon.notices[i]   b == salon.notices[j] IN
         (i < j /\ a.phone = b.phone /\ a.boot = b.boot) => b.at - a.at >= ENFRIAMIENTO_CONTACTO
  BY DEF NoticeInv
<1> QED BY <1>1, <1>2, <1>3 DEF EffectsHaveAnOwner, Entitled, Owns, Rules

-----------------------------------------------------------------------------
LEMMA InitInv == ASSUME ToolsHypothesis, ToolsInit PROVE ToolsInv
<1>1. hour = 0 /\ turn = Resting /\ salon = Opened BY DEF ToolsInit
<1>2. IsTurn(turn) /\ turn.at = "idle" BY <1>1 DEF Resting, IsTurn
<1>3. turn.memo = <<>> /\ turn.cards = <<>> /\ turn.offers = <<>> BY <1>1 DEF Resting
<1>4. TurnInv BY <1>1, <1>2, <1>3, EmptyIs DEF TurnInv
<1>5. MemoInv /\ CardsInv BY <1>3, EmptyIs DEF MemoInv, CardsInv
<1>6. ReplyInv BY <1>2 DEF ReplyInv
<1>7. EntitledInv /\ OfferInv BY <1>3, EmptyIs DEF EntitledInv, OfferInv
<1>8. /\ salon.agenda = Before /\ salon.notices = <<>> /\ salon.boot = 0
      /\ salon.ultimos = [n \in Numbers |-> Never] /\ IsSalon(salon)
  BY <1>1 DEF Opened, IsSalon
<1>9. IsAgenda(Before)
  <2> DEFINE Visits == [user : People \union {None}, phone : Numbers \union {None}, slot : Slots,
                        state : {"pendiente", "confirmada", "cancelada"}]
  <2>1. Before \in Seq(Visits) BY DEF ToolsHypothesis, ToolsAssumption
  <2>2. \A v \in Visits : DOMAIN v = {"user", "phone", "slot", "state"} OBVIOUS
  <2> HIDE DEF Visits
  <2>3. IsSeq(Before) BY <2>1, IsSeqOf
  <2>4. \A i \in DOMAIN Before : Before[i] \in Visits BY <2>1, IsSeqOf
  <2> QED BY <2>2, <2>3, <2>4 DEF IsAgenda
<1>10. SalonInv BY <1>1, <1>8, <1>9, EmptyIs DEF SalonInv
<1>11. NoticeInv BY <1>1, <1>8, EmptyIs DEF NoticeInv, Never
<1> QED BY <1>4, <1>5, <1>6, <1>7, <1>10, <1>11 DEF ToolsInv, ToldInv

-----------------------------------------------------------------------------
(* What a step does to the salon. *)

LEMMA KeptNotices ==
    ASSUME ToolsHypothesis, SalonInv, NoticeInv, hour' = hour, Kept(salon')
    PROVE  SalonInv' /\ NoticeInv'
<1>1. CASE salon'.notices = salon.notices /\ salon'.ultimos = salon.ultimos
  <2>1. SalonInv' BY <1>1 DEF SalonInv, Kept
  <2>2. NoticeInv' BY <1>1 DEF NoticeInv, Kept
  <2> QED BY <2>1, <2>2
<1>2. ASSUME NEW phone \in Numbers, puede(phone), salon'.ultimos = anotar(phone),
             salon'.notices = Append(salon.notices,
                                     [phone |-> phone, at |-> hour, boot |-> salon.boot])
      PROVE  SalonInv' /\ NoticeInv'
  <2> DEFINE new == Len(salon.notices) + 1
             notice == [phone |-> phone, at |-> hour, boot |-> salon.boot]
  <2>1. /\ hour \in Nat /\ salon.boot \in Nat /\ salon'.boot = salon.boot
        /\ ENFRIAMIENTO_CONTACTO \in Nat
    BY DEF SalonInv, Kept, ToolsHypothesis, ToolsAssumption
  <2>2. /\ IsSeq(salon'.notices) /\ DOMAIN salon'.notices = 1 .. new
        /\ Len(salon.notices) \in Nat /\ DOMAIN salon.notices = 1 .. Len(salon.notices)
        /\ \A i \in DOMAIN salon.notices : salon'.notices[i] = salon.notices[i]
        /\ salon'.notices[new] = notice
    BY <1>2, AppendIs DEF SalonInv, IsSeq
  <2>3. notice.phone = phone /\ notice.at = hour /\ notice.boot = salon.boot OBVIOUS
  <2> HIDE DEF notice
  <2>4. \A i \in DOMAIN salon'.notices : i = new \/ (i \in DOMAIN salon.notices /\ i < new)
    <3>1. \A n \in Nat : \A i \in 1 .. n + 1 : i = n + 1 \/ (i \in 1 .. n /\ i < n + 1) OBVIOUS
    <3> QED BY <2>2, <3>1
  <2>5. SalonInv' BY <2>2 DEF SalonInv, Kept
  <2>6. \A n \in Numbers :
           LET stale == salon.ultimos[n] # Never /\ hour - salon.ultimos[n] >= ENFRIAMIENTO_CONTACTO
           IN  salon'.ultimos[n] = IF n = phone THEN hour ELSE IF stale THEN Never ELSE salon.ultimos[n]
    BY <1>2 DEF anotar
  <2>7. \A n \in Numbers : salon.ultimos[n] \in Int /\ salon.ultimos[n] <= hour BY DEF NoticeInv
  <2>8. \A n \in Numbers : salon'.ultimos[n] \in Int /\ salon'.ultimos[n] <= hour
    BY <2>1, <2>6, <2>7 DEF Never
  <2>9. ASSUME NEW i \in DOMAIN salon'.notices
        PROVE  LET a == salon'.notices[i] IN
               /\ a.phone \in Numbers /\ a.at \in Nat /\ a.at <= hour
               /\ a.boot \in Nat /\ a.boot <= salon.boot
               /\ a.boot = salon.boot =>
                     \/ hour - a.at >= ENFRIAMIENTO_CONTACTO
                     \/ salon'.ultimos[a.phone] # Never /\ salon'.ultimos[a.phone] >= a.at
    <3>1. CASE i = new
      <4>1. salon'.notices[i] = notice BY <2>2, <3>1
      <4>2. salon'.ultimos[phone] = hour BY <2>6
      <4> QED BY <2>1, <2>3, <4>1, <4>2 DEF Never
    <3>2. CASE i \in DOMAIN salon.notices
      <4> DEFINE a == salon.notices[i]
      <4>1. salon'.notices[i] = a BY <2>2, <3>2
      <4>2. /\ a.phone \in Numbers /\ a.at \in Nat /\ a.at <= hour
            /\ a.boot \in Nat /\ a.boot <= salon.boot
            /\ a.boot = salon.boot =>
                  \/ hour - a.at >= ENFRIAMIENTO_CONTACTO
                  \/ salon.ultimos[a.phone] # Never /\ salon.ultimos[a.phone] >= a.at
        BY <3>2 DEF NoticeInv
      <4> HIDE DEF a
      <4>3. a.boot = salon.boot =>
               \/ hour - a.at >= ENFRIAMIENTO_CONTACTO
               \/ salon'.ultimos[a.phone] # Never /\ salon'.ultimos[a.phone] >= a.at
        BY <2>1, <2>6, <2>7, <4>2 DEF Never
      <4> QED BY <4>1, <4>2, <4>3
    <3> QED BY <2>4, <3>1, <3>2
  <2>10. ASSUME NEW i \in DOMAIN salon'.notices, NEW j \in DOMAIN salon'.notices, i < j,
                salon'.notices[i].phone = salon'.notices[j].phone,
                salon'.notices[i].boot = salon'.notices[j].boot
         PROVE  salon'.notices[j].at - salon'.notices[i].at >= ENFRIAMIENTO_CONTACTO
    <3>1. i \in DOMAIN salon.notices /\ salon'.notices[i] = salon.notices[i]
      BY <2>2, <2>4, <2>10
    <3>2. CASE j \in DOMAIN salon.notices
      <4>1. salon'.notices[j] = salon.notices[j] BY <2>2, <3>2
      <4> QED BY <2>10, <3>1, <3>2, <4>1 DEF NoticeInv
    <3>3. CASE j = new
      <4> DEFINE a == salon.notices[i]
      <4>1. salon'.notices[j] = notice BY <2>2, <3>3
      <4>2. a.phone = phone /\ a.boot = salon.boot BY <2>3, <2>10, <3>1, <4>1
      <4>3. /\ a.at \in Nat
            /\ \/ hour - a.at >= ENFRIAMIENTO_CONTACTO
               \/ salon.ultimos[phone] # Never /\ salon.ultimos[phone] >= a.at
        BY <3>1, <4>2 DEF NoticeInv
      <4>4. salon.ultimos[phone] # Never => hour - salon.ultimos[phone] >= ENFRIAMIENTO_CONTACTO
        BY <1>2 DEF puede
      <4> HIDE DEF a
      <4>5. hour - a.at >= ENFRIAMIENTO_CONTACTO BY <2>1, <2>7, <4>3, <4>4
      <4> QED BY <2>3, <3>1, <4>1, <4>5 DEF a
    <3> QED BY <2>4, <3>2, <3>3
  <2>11. NoticeInv' BY <2>1, <2>8, <2>9, <2>10 DEF NoticeInv
  <2> QED BY <2>5, <2>11
<1> QED BY <1>1, <1>2 DEF Kept

\* What was right stays right in a salon where nothing changed hands.
LEMMA EntitledStays ==
    ASSUME NEW ctx, NEW s, Kept(s), NEW call, NEW r, Entitled(ctx, salon, call, r)
    PROVE  Entitled(ctx, s, call, r)
<1>1. \A v \in r.visits :
         /\ v \in DOMAIN s.agenda
         /\ s.agenda[v].user = salon.agenda[v].user /\ s.agenda[v].phone = salon.agenda[v].phone
  BY DEF Kept, Entitled
<1>2. \A v \in r.visits : Owns(ctx, salon, v) => Owns(ctx, s, v) BY <1>1 DEF Owns
<1> QED BY <1>1, <1>2 DEF Entitled

-----------------------------------------------------------------------------
(* What a step does to the turn. *)

LEMMA RestingIs ==
    /\ IsTurn(Resting) /\ Resting.at = "idle"
    /\ Resting.memo = <<>> /\ Resting.cards = <<>> /\ Resting.offers = <<>>
BY DEF Resting, IsTurn

\* A turn with nothing done yet.
LEMMA FreshTurn ==
    ASSUME IsTurn(turn'), turn'.memo = <<>>, turn'.cards = <<>>, turn'.offers = <<>>,
           turn'.at # "done", turn'.at = "idle" => turn' = Resting,
           turn'.at # "idle" => Asks(turn'.ctx)
    PROVE  ToldInv' /\ EntitledInv' /\ OfferInv'
<1>1. TurnInv' BY EmptyIs DEF TurnInv
<1>2. MemoInv' /\ CardsInv' /\ EntitledInv' /\ OfferInv'
  BY EmptyIs DEF MemoInv, CardsInv, EntitledInv, OfferInv
<1>3. ReplyInv' BY DEF ReplyInv
<1> QED BY <1>1, <1>2, <1>3 DEF ToldInv

\* A step that leaves what the turn did, and does not end it.
LEMMA SameDeeds ==
    ASSUME ToldInv, EntitledInv, OfferInv, Kept(salon'), IsTurn(turn'), turn.at # "idle",
           turn'.at \notin {"idle", "done"} \/ (turn'.at = "done" /\ turn'.ctx.channel = "mcp"),
           turn'.ctx = turn.ctx, turn'.memo = turn.memo, turn'.cards = turn.cards,
           turn'.offers = turn.offers
    PROVE  ToldInv' /\ EntitledInv' /\ OfferInv'
<1>1. TurnInv' BY DEF ToldInv, TurnInv
<1>2. MemoInv' /\ CardsInv' /\ OfferInv' BY DEF ToldInv, MemoInv, CardsInv, OfferInv
<1>3. ReplyInv' BY DEF ReplyInv
<1>4. EntitledInv' BY EntitledStays DEF EntitledInv
<1> QED BY <1>1, <1>2, <1>3, <1>4 DEF ToldInv

LEMMA QuestionIs ==
    ASSUME TurnInv, MemoInv
    PROVE  preguntaPendiente = "courtesy" => \A i \in DOMAIN turn.memo : ~turn.memo[i].result.ask
<1> DEFINE left == {i \in DOMAIN turn.memo : turn.memo[i].result.ask}
<1>1. CASE left = {} BY <1>1
<1>2. CASE left # {}
  <2>1. left \in SUBSET Nat BY DEF TurnInv, IsSeq
  <2>2. preguntaPendiente = turn.memo[Min(left)].result.reason BY <1>2 DEF preguntaPendiente
  <2> HIDE DEF left
  <2>3. Min(left) \in left BY <1>2, <2>1, LeastIs
  <2>4. turn.memo[Min(left)].result.reason # "courtesy" BY <2>3 DEF left, MemoInv
  <2> QED BY <2>2, <2>4
<1> QED BY <1>1, <1>2

LEMMA ReplyIs ==
    ASSUME IsTurn(turn), NEW said, NEW t, t = Reply(said)
    PROVE  /\ IsTurn(t) /\ t.at = "done" /\ t.ctx = turn.ctx /\ t.memo = turn.memo
           /\ t.offers = turn.offers /\ t.seen = Len(turn.memo)
           /\ t.reply = (IF said THEN "text" ELSE preguntaPendiente)
           /\ t.cards = (IF said THEN turn.cards ELSE <<>>)
BY DEF IsTurn, Reply

-----------------------------------------------------------------------------
(* One lemma for each action. *)

LEMMA StartStep ==
    ASSUME ToolsHypothesis, ToolsInv, NEW ctx \in Contexts, Start(ctx) PROVE ToolsInv'
<1>1. Asks(ctx) BY DEF ToolsHypothesis, Start, Asks
<1>2. /\ hour' = hour /\ salon' = [salon EXCEPT !.turns = @ + 1] BY DEF Start
<1>3. SalonInv /\ NoticeInv BY DEF ToolsInv
<1>4. /\ IsSalon(salon') /\ salon'.agenda = salon.agenda /\ salon'.notices = salon.notices
      /\ salon'.boot = salon.boot /\ salon'.ultimos = salon.ultimos
  BY <1>2, <1>3 DEF SalonInv, IsSalon
<1>5. SalonInv' /\ NoticeInv' BY <1>2, <1>3, <1>4 DEF SalonInv, NoticeInv
<1>6. /\ IsTurn(turn') /\ turn'.ctx = ctx /\ turn'.at \in {"ask", "run"}
      /\ turn'.memo = <<>> /\ turn'.cards = <<>> /\ turn'.offers = <<>>
  <2>1. CASE turn' = [Resting EXCEPT !.at = "ask", !.ctx = ctx, !.round = 1]
    BY <2>1 DEF Resting, IsTurn
  <2>2. ASSUME NEW calls, turn' = [Resting EXCEPT !.at = "run", !.ctx = ctx, !.calls = calls]
        PROVE  /\ IsTurn(turn') /\ turn'.ctx = ctx /\ turn'.at = "run"
               /\ turn'.memo = <<>> /\ turn'.cards = <<>> /\ turn'.offers = <<>>
    BY <2>2 DEF Resting, IsTurn
  <2> QED BY <2>1, <2>2 DEF Start
<1>7. ToldInv' /\ EntitledInv' /\ OfferInv' BY <1>1, <1>6, FreshTurn
<1> QED BY <1>5, <1>7 DEF ToolsInv

LEMMA SameSalon ==
    ASSUME ToolsInv, UNCHANGED <<hour, salon>>
    PROVE  SalonInv' /\ NoticeInv' /\ Kept(salon')
<1>1. SalonInv' /\ NoticeInv' BY DEF ToolsInv, SalonInv, NoticeInv
<1>2. Kept(salon) BY DEF ToolsInv, SalonInv, Kept
<1> QED BY <1>1, <1>2

LEMMA ReplyStep ==
    ASSUME ToolsHypothesis, ToolsInv, turn.at = "ask", NEW said \in BOOLEAN, turn' = Reply(said),
           UNCHANGED <<hour, salon>>
    PROVE  ToolsInv'
<1>1. SalonInv' /\ NoticeInv' /\ Kept(salon') BY SameSalon
<1>2. ToldInv /\ EntitledInv /\ OfferInv /\ TurnInv /\ MemoInv /\ CardsInv BY DEF ToolsInv, ToldInv
<1>3. /\ IsTurn(turn') /\ turn'.at = "done" /\ turn'.ctx = turn.ctx /\ turn'.memo = turn.memo
      /\ turn'.offers = turn.offers /\ turn'.seen = Len(turn.memo)
      /\ turn'.reply = (IF said THEN "text" ELSE preguntaPendiente)
      /\ turn'.cards = (IF said THEN turn.cards ELSE <<>>)
  BY <1>2, ReplyIs DEF TurnInv
<1>4. TurnInv' BY <1>2, <1>3, EmptyIs DEF TurnInv
<1>5. CardsInv'
  <2>1. CASE said BY <1>2, <1>3, <2>1 DEF CardsInv
  <2>2. CASE ~said BY <1>3, <2>2, EmptyIs DEF CardsInv
  <2> QED BY <2>1, <2>2
<1>6. MemoInv' BY <1>2, <1>3 DEF MemoInv
<1>7. ReplyInv'
  <2>1. CASE said BY <1>3, <2>1 DEF ReplyInv
  <2>2. CASE ~said BY <1>2, <1>3, <2>2, QuestionIs DEF ReplyInv
  <2> QED BY <2>1, <2>2
<1>8. OfferInv' BY <1>2, <1>3 DEF OfferInv
<1>9. EntitledInv' BY <1>1, <1>2, <1>3, EntitledStays DEF EntitledInv
<1> QED BY <1>1, <1>4, <1>5, <1>6, <1>7, <1>8, <1>9 DEF ToolsInv, ToldInv

LEMMA AnswerStep == ASSUME ToolsHypothesis, ToolsInv, Answer PROVE ToolsInv'
BY ReplyStep DEF Answer

LEMMA UnavailableStep == ASSUME ToolsHypothesis, ToolsInv, Unavailable PROVE ToolsInv'
<1>1. SalonInv' /\ NoticeInv' /\ Kept(salon') BY SameSalon DEF Unavailable
<1>2. /\ IsTurn(turn') /\ turn'.at = "failed" /\ turn'.ctx = turn.ctx /\ turn'.memo = turn.memo
      /\ turn'.cards = turn.cards /\ turn'.offers = turn.offers /\ turn.at = "ask"
  BY DEF Unavailable, ToolsInv, ToldInv, TurnInv, IsTurn
<1>3. ToldInv' /\ EntitledInv' /\ OfferInv' BY <1>1, <1>2, SameDeeds DEF ToolsInv
<1> QED BY <1>1, <1>3 DEF ToolsInv

LEMMA AskStep == ASSUME ToolsHypothesis, ToolsInv, AskForTools PROVE ToolsInv'
<1>1. turn.at = "ask" /\ UNCHANGED <<hour, salon>> BY DEF AskForTools
<1>2. CASE turn' = Reply(FALSE) BY <1>1, <1>2, ReplyStep
<1>3. ASSUME NEW calls, NEW stale,
             turn' = [turn EXCEPT !.at = "run", !.calls = calls, !.stale = stale,
                                  !.seen = Len(turn.memo)]
      PROVE  ToolsInv'
  <2>1. SalonInv' /\ NoticeInv' /\ Kept(salon') BY <1>1, SameSalon
  <2>2. /\ IsTurn(turn') /\ turn'.at = "run" /\ turn'.ctx = turn.ctx /\ turn'.memo = turn.memo
        /\ turn'.cards = turn.cards /\ turn'.offers = turn.offers
    BY <1>3 DEF ToolsInv, ToldInv, TurnInv, IsTurn
  <2>3. ToldInv' /\ EntitledInv' /\ OfferInv' BY <1>1, <2>1, <2>2, SameDeeds DEF ToolsInv
  <2> QED BY <2>1, <2>3 DEF ToolsInv
<1> QED BY <1>2, <1>3 DEF AskForTools

LEMMA RestStep == ASSUME ToolsHypothesis, ToolsInv, Rest PROVE ToolsInv'
<1>1. SalonInv' /\ NoticeInv' BY SameSalon DEF Rest
<1>2. ToldInv' /\ EntitledInv' /\ OfferInv' BY RestingIs, FreshTurn DEF Rest
<1> QED BY <1>1, <1>2 DEF ToolsInv

LEMMA HourStep == ASSUME ToolsHypothesis, ToolsInv, HourPasses PROVE ToolsInv'
<1>1. turn' = Resting /\ salon' = salon /\ hour' = hour + 1
  BY DEF HourPasses, ToolsInv, ToldInv, TurnInv
<1>2. ToldInv' /\ EntitledInv' /\ OfferInv' BY <1>1, RestingIs, FreshTurn
<1>3. SalonInv' BY <1>1 DEF ToolsInv, SalonInv
<1>4. hour \in Nat /\ ENFRIAMIENTO_CONTACTO \in Nat
  BY DEF ToolsInv, SalonInv, ToolsHypothesis, ToolsAssumption
<1>5. NoticeInv' BY <1>1, <1>4 DEF ToolsInv, NoticeInv
<1> QED BY <1>2, <1>3, <1>5 DEF ToolsInv

LEMMA RestartStep == ASSUME ToolsHypothesis, ToolsInv, Restart PROVE ToolsInv'
<1>1. turn' = Resting /\ hour' = hour /\ salon.boot = 0
      /\ salon' = [salon EXCEPT !.boot = 1, !.ultimos = [n \in Numbers |-> Never]]
  BY DEF Restart, ToolsInv, ToldInv, TurnInv
<1>2. ToldInv' /\ EntitledInv' /\ OfferInv' BY <1>1, RestingIs, FreshTurn
<1>3. IsSalon(salon) /\ hour \in Nat BY DEF ToolsInv, SalonInv
<1>4. /\ IsSalon(salon') /\ salon'.agenda = salon.agenda /\ salon'.notices = salon.notices
      /\ salon'.boot = 1 /\ salon'.ultimos = [n \in Numbers |-> Never]
  BY <1>1, <1>3 DEF IsSalon
<1>5. SalonInv' BY <1>1, <1>4 DEF ToolsInv, SalonInv
<1>6. \A i \in DOMAIN salon.notices : salon.notices[i].boot \in Nat /\ salon.notices[i].boot <= 0
  BY <1>1 DEF ToolsInv, NoticeInv
<1>7. NoticeInv' BY <1>1, <1>3, <1>4, <1>6 DEF ToolsInv, NoticeInv, Never
<1> QED BY <1>2, <1>5, <1>7 DEF ToolsInv

\* The new entry of the memo, the card and the proposal.
LEMMA EffectStep ==
    ASSUME ToolsHypothesis, ToolsInv, turn.at = "run", NEW call, NEW o, Sound(call, o),
           ~Remembered(call), hour' = hour, salon' = o.salon, IsTurn(turn'),
           turn'.at \in {"run", "ask"} \/ (turn'.at = "done" /\ turn.ctx.channel = "mcp"),
           turn'.ctx = turn.ctx, turn'.offers = turn.offers \o o.offers,
           turn'.memo = Append(turn.memo, [key |-> firmaDeLlamada(call), call |-> call,
                                           result |-> o.result]),
           turn'.cards = IF o.result.card = NoCard \/ o.result.card \in ToSet(turn.cards)
                         THEN turn.cards ELSE Append(turn.cards, o.result.card)
    PROVE  ToolsInv'
<1> DEFINE new == Len(turn.memo) + 1
           entry == [key |-> firmaDeLlamada(call), call |-> call, result |-> o.result]
<1>1. TurnInv /\ MemoInv /\ CardsInv /\ EntitledInv /\ OfferInv BY DEF ToolsInv, ToldInv
<1>2. Kept(salon') BY DEF Sound
<1>3. SalonInv' /\ NoticeInv' BY <1>2, KeptNotices DEF ToolsInv
<1>4. entry.key = firmaDeLlamada(call) /\ entry.call = call /\ entry.result = o.result OBVIOUS
<1> HIDE DEF entry
<1>5. /\ IsSeq(turn'.memo) /\ turn'.memo[new] = entry
      /\ \A i \in DOMAIN turn'.memo : i = new \/ (i \in DOMAIN turn.memo /\ turn'.memo[i] = turn.memo[i])
  <2>1. /\ IsSeq(turn'.memo) /\ turn'.memo[new] = entry /\ DOMAIN turn'.memo = 1 .. new
        /\ Len(turn.memo) \in Nat /\ DOMAIN turn.memo = 1 .. Len(turn.memo)
        /\ \A i \in 1 .. Len(turn.memo) : turn'.memo[i] = turn.memo[i]
    BY <1>1, AppendIs DEF TurnInv, IsSeq, entry
  <2>2. \A n \in Nat : \A i \in 1 .. n + 1 : i = n + 1 \/ i \in 1 .. n OBVIOUS
  <2> QED BY <2>1, <2>2
<1> HIDE DEF new
<1>6. IsSeq(turn'.cards) /\ CardsInv'
  <2>1. CASE turn'.cards = turn.cards BY <1>1, <2>1 DEF TurnInv, CardsInv
  <2>2. CASE o.result.card \notin ToSet(turn.cards) /\ turn'.cards = Append(turn.cards, o.result.card)
    <3>0. IsSeq(turn.cards) BY <1>1 DEF TurnInv
    <3>4. Len(turn.cards) \in Nat /\ DOMAIN turn.cards = 1 .. Len(turn.cards) BY <3>0 DEF IsSeq
    <3>1. /\ IsSeq(turn'.cards) /\ turn'.cards[Len(turn.cards) + 1] = o.result.card
          /\ DOMAIN turn'.cards = 1 .. Len(turn.cards) + 1
          /\ Len(turn.cards) \in Nat /\ DOMAIN turn.cards = 1 .. Len(turn.cards)
          /\ \A i \in 1 .. Len(turn.cards) : turn'.cards[i] = turn.cards[i]
      BY <2>2, <3>0, <3>4, AppendIs
    <3>2. \A n \in Nat : \A i \in 1 .. n + 1 : i = n + 1 \/ i \in 1 .. n OBVIOUS
    <3>3. \A i \in 1 .. Len(turn.cards) : turn.cards[i] # o.result.card
      BY <2>2, <3>1 DEF ToSet
    <3> QED BY <1>1, <3>1, <3>2, <3>3 DEF CardsInv
  <2> QED BY <2>1, <2>2
<1>7. IsSeq(turn'.offers) /\ OfferInv'
  <2>1. CASE o.offers = <<>>
    <3>1. turn'.offers = turn.offers BY <1>1, <2>1, ConcatIs DEF TurnInv
    <3> QED BY <1>1, <3>1 DEF TurnInv, OfferInv
  <2>2. ASSUME NEW offer, o.offers = <<offer>>, offer.phone = turn.ctx.phone,
               turn.ctx.phone \notin {None, Salon}
        PROVE  IsSeq(turn'.offers) /\ OfferInv'
    <3>1. turn'.offers = Append(turn.offers, offer) BY <1>1, <2>2, ConcatIs DEF TurnInv
    <3>2. /\ IsSeq(turn'.offers) /\ turn'.offers[Len(turn.offers) + 1] = offer
          /\ DOMAIN turn'.offers = 1 .. Len(turn.offers) + 1
          /\ Len(turn.offers) \in Nat /\ DOMAIN turn.offers = 1 .. Len(turn.offers)
          /\ \A i \in 1 .. Len(turn.offers) : turn'.offers[i] = turn.offers[i]
      BY <1>1, <3>1, AppendIs DEF TurnInv, IsSeq
    <3>3. \A n \in Nat : \A i \in 1 .. n + 1 : i = n + 1 \/ i \in 1 .. n OBVIOUS
    <3> QED BY <1>1, <2>2, <3>2, <3>3 DEF OfferInv
  <2> QED BY <2>1, <2>2 DEF Sound, Offered
<1>8. TurnInv' BY <1>1, <1>5, <1>6, <1>7 DEF TurnInv
<1>9. MemoInv'
  <2>1. \A i \in DOMAIN turn.memo : turn.memo[i].key # firmaDeLlamada(call) BY DEF Remembered
  <2>2. o.result.ask => o.result.reason # "courtesy" BY DEF Sound
  <2> QED BY <1>1, <1>4, <1>5, <2>1, <2>2 DEF MemoInv
<1>10. ReplyInv' BY DEF ReplyInv
<1>11. EntitledInv'
  <2> SUFFICES ASSUME NEW i \in DOMAIN turn'.memo
               PROVE  Entitled(turn.ctx, salon', turn'.memo[i].call, turn'.memo[i].result)
    BY DEF EntitledInv
  <2>1. CASE i = new BY <1>4, <1>5, <2>1 DEF Sound
  <2>2. CASE i \in DOMAIN turn.memo /\ turn'.memo[i] = turn.memo[i]
    BY <1>1, <1>2, <2>2, EntitledStays DEF EntitledInv
  <2> QED BY <1>5, <2>1, <2>2
<1> QED BY <1>3, <1>6, <1>7, <1>8, <1>9, <1>10, <1>11 DEF ToolsInv, ToldInv

LEMMA RunStep == ASSUME ToolsHypothesis, ToolsInv, RunTool PROVE ToolsInv'
<1> DEFINE call == Head(turn.calls)
           last == Len(turn.calls) = 1
           at == IF ~last THEN "run" ELSE IF turn.ctx.channel = "mcp" THEN "done" ELSE "ask"
           round == IF last THEN turn.round + 1 ELSE turn.round
           then == [turn EXCEPT !.at = at, !.calls = Tail(@), !.round = round]
<1>1. turn.at = "run" /\ hour' = hour BY DEF RunTool
<1>2. at \in {"run", "ask"} \/ (at = "done" /\ turn.ctx.channel = "mcp") OBVIOUS
<1>3. then = [turn EXCEPT !.at = at, !.calls = Tail(@), !.round = round] OBVIOUS
<1>4. \/ Remembered(call) /\ turn' = then /\ salon' = salon
      \/ /\ ~Remembered(call)
         /\ \E o \in Execute(call) :
               /\ salon' = o.salon
               /\ turn' = [then EXCEPT
                             !.offers = @ \o o.offers,
                             !.memo = Append(@, [key |-> firmaDeLlamada(call), call |-> call,
                                                 result |-> o.result]),
                             !.cards = IF o.result.card = NoCard \/ o.result.card \in ToSet(@)
                                       THEN @ ELSE Append(@, o.result.card)]
  BY DEF RunTool
<1> HIDE DEF call, last, at, round, then
<1>5. /\ IsTurn(then) /\ then.at = at /\ then.ctx = turn.ctx /\ then.memo = turn.memo
      /\ then.cards = turn.cards /\ then.offers = turn.offers
  <2>1. IsTurn(turn) BY DEF ToolsInv, ToldInv, TurnInv
  <2> QED BY ONLY <1>3, <2>1 DEF IsTurn
<1>6. CASE turn' = then /\ salon' = salon
  <2>1. SalonInv' /\ NoticeInv' /\ Kept(salon') BY <1>1, <1>6, SameSalon
  <2>2. ToldInv' /\ EntitledInv' /\ OfferInv'
    BY <1>1, <1>2, <1>5, <1>6, <2>1, SameDeeds DEF ToolsInv
  <2> QED BY <2>1, <2>2 DEF ToolsInv
<1>7. ASSUME ~Remembered(call), NEW o \in Execute(call), salon' = o.salon,
             turn' = [then EXCEPT
                        !.offers = @ \o o.offers,
                        !.memo = Append(@, [key |-> firmaDeLlamada(call), call |-> call,
                                            result |-> o.result]),
                        !.cards = IF o.result.card = NoCard \/ o.result.card \in ToSet(@)
                                  THEN @ ELSE Append(@, o.result.card)]
      PROVE  ToolsInv'
  <2> DEFINE offers == then.offers \o o.offers
             memo == Append(then.memo, [key |-> firmaDeLlamada(call), call |-> call,
                                        result |-> o.result])
             cards == IF o.result.card = NoCard \/ o.result.card \in ToSet(then.cards)
                      THEN then.cards ELSE Append(then.cards, o.result.card)
  <2>1. turn' = [then EXCEPT !.offers = offers, !.memo = memo, !.cards = cards] BY <1>7
  <2> HIDE DEF offers, memo, cards
  <2>0. IsTurn(then) BY <1>5
  <2>2. /\ IsTurn(turn') /\ turn'.at = then.at /\ turn'.ctx = then.ctx /\ turn'.memo = memo
        /\ turn'.cards = cards /\ turn'.offers = offers
    BY ONLY <2>0, <2>1 DEF IsTurn
  <2>3. Serving BY <1>1 DEF Serving, ToolsInv, ToldInv, TurnInv, SalonInv
  <2>4. Sound(call, o) BY <1>7, <2>3, ExecuteIsSound
  <2> QED BY <1>1, <1>2, <1>5, <1>7, <2>2, <2>4, EffectStep DEF offers, memo, cards
<1> QED BY <1>4, <1>6, <1>7

LEMMA StutterStep == ASSUME ToolsInv, UNCHANGED toolVars PROVE ToolsInv'
<1>1. SalonInv' /\ NoticeInv' BY DEF toolVars, ToolsInv, SalonInv, NoticeInv
<1>2. ToldInv'
  BY DEF toolVars, ToolsInv, ToldInv, TurnInv, MemoInv, CardsInv, ReplyInv
<1>3. EntitledInv' /\ OfferInv' BY DEF toolVars, ToolsInv, EntitledInv, OfferInv
<1> QED BY <1>1, <1>2, <1>3 DEF ToolsInv

LEMMA NextInv ==
    ASSUME ToolsHypothesis, ToolsInv, [ToolsNext \/ \E ctx \in Contexts : Start(ctx)]_toolVars
    PROVE  ToolsInv'
<1>1. CASE Answer BY <1>1, AnswerStep
<1>2. CASE Unavailable BY <1>2, UnavailableStep
<1>3. CASE AskForTools BY <1>3, AskStep
<1>4. CASE RunTool BY <1>4, RunStep
<1>5. CASE Rest BY <1>5, RestStep
<1>6. CASE HourPasses BY <1>6, HourStep
<1>7. CASE Restart BY <1>7, RestartStep
<1>8. CASE \E ctx \in Contexts : Start(ctx) BY <1>8, StartStep
<1>9. CASE UNCHANGED toolVars BY <1>9, StutterStep
<1> QED BY <1>1, <1>2, <1>3, <1>4, <1>5, <1>6, <1>7, <1>8, <1>9 DEF ToolsNext

LEMMA Invariance == ASSUME ToolsHypothesis PROVE ToolsSpec => []ToolsInv
<1>1. ToolsInit => ToolsInv BY InitInv
<1>2. ToolsInv /\ [ToolsNext \/ \E ctx \in Contexts : Start(ctx)]_toolVars => ToolsInv'
  BY NextInv
<1> QED BY <1>1, <1>2, PTL DEF ToolsSpec

-----------------------------------------------------------------------------
(* A turn runs no call twice, whatever the order of its arguments; it gives *)
(* the model every result before it replies; without words of the model it  *)
(* asks the first question a tool left; and no card comes twice             *)
(* (SendMessageUseCase, resultadosDelTurno and preguntaPendiente).          *)
THEOREM ToldOnce == ASSUME ToolsHypothesis PROVE ToolsSpec => []EffectsToldOnce
<1>1. ToolsInv => EffectsToldOnce BY ToldImplies DEF ToolsInv
<1> QED BY <1>1, Invariance, PTL

(* Whatever the model asks for and whatever role the adapter claims, what a *)
(* turn writes, shows or proposes belongs to who asked, a refused booking   *)
(* is not made, and the owner hears of one number once per window while the *)
(* process lives (the tools' guards, canActOn, the cooldown of contact).    *)
THEOREM Owners == ASSUME ToolsHypothesis PROVE ToolsSpec => []EffectsHaveAnOwner
<1>1. ToolsInv => EffectsHaveAnOwner BY OwnersImply DEF ToolsInv
<1> QED BY <1>1, Invariance, PTL
=============================================================================
