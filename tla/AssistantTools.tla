---------------------------- MODULE AssistantTools ----------------------------
(***************************************************************************)
(* The assistant's tools and the loop that runs them in one turn           *)
(* (SendMessageUseCase, from the first call to the model to the reply),    *)
(* for the web, for WhatsApp and, one tool and no model, for MCP.          *)
(*                                                                         *)
(* A call is a tool's name and its arguments, a sequence of <<key, value>> *)
(* pairs: the provider gives them in any order. The use cases on a         *)
(* reservation are single steps here; what happens between their reads and *)
(* writes is in Reservations, and the table of proposals in                *)
(* PendingBookings. What a judge answers is in TurnScreening: here the     *)
(* verdict on a booking is chosen with the turn, and the one on the loop's *)
(* progress when it is asked for. Reading tools other than the two that    *)
(* show reservations are one tool, listarServicios.                        *)
(***************************************************************************)
EXTENDS DomainErrors, FiniteSets

CONSTANTS
    People,         \* web users with a session
    Administrator,  \* the one of them with the role admin
    Numbers,        \* WhatsApp numbers
    Foreign,        \* those that are not Colombian mobiles
    Salon,          \* SALON_OWNER_WHATSAPP
    None,           \* no user, no number
    Slots,          \* the hours a visit may start at; the salon has one stylist
    Before,         \* the reservations there are at the start
    MaxAgenda,      \* reservations there may ever be (bound)
    LastHour,       \* the clock stops here (bound)
    MaxTurns,       \* turns and calls to MCP there may ever be (bound)
    ENFRIAMIENTO_CONTACTO,
    MAX_TOOL_ITERATIONS,
    MAX_VUELTAS_SIN_NOVEDAD,
    PRIMERA_VUELTA_QUE_SE_JUZGA,
    Asked           \* what the model may ask for: sequences of calls

\* Assumed of the constants by the module that gives them values.
ToolsAssumption ==
    /\ Before \in Seq([user : People \union {None}, phone : Numbers \union {None}, slot : Slots,
                       state : {"pendiente", "confirmada", "cancelada"}])
    /\ Administrator \in People /\ Salon \in Numbers /\ Foreign \subseteq Numbers \ {Salon}
    /\ None \notin People \union Numbers
    /\ {MAX_TOOL_ITERATIONS, MAX_VUELTAS_SIN_NOVEDAD, PRIMERA_VUELTA_QUE_SE_JUZGA} \subseteq Nat \ {0}
    /\ {LastHour, ENFRIAMIENTO_CONTACTO, MaxAgenda, MaxTurns} \subseteq Nat

VARIABLES
    hour,
    salon,          \* what outlives a turn: the agenda, the notices to the owner
    turn            \* the local variables of the turn that is running

toolVars == <<hour, salon, turn>>

Active == {"pendiente", "confirmada"}

(* Who asks, and whether the judge lets a booking of this turn pass. *)
Nobody == [channel |-> "web", user |-> None, phone |-> None,
           admin |-> FALSE, conversation |-> FALSE, permits |-> TRUE]

Resting == [at |-> "idle", ctx |-> Nobody, round |-> 0, calls |-> <<>>, memo |-> <<>>,
            stale |-> 0, seen |-> 0, cards |-> <<>>, offers |-> <<>>, reply |-> ""]

-----------------------------------------------------------------------------
(* Who is asking. *)

normalizeCoPhoneToE164(phone) == IF phone \in Foreign THEN None ELSE phone

(* Who may ask: the web's role is the session's, and the webhook gives the owner's *)
(* role to her number; validarQueEsLaDuena is there in case it gives it to others. *)
IsContext(ctx) ==
    /\ ctx \in [channel : {"web", "whatsapp", "mcp"}, user : People \union {None},
                phone : Numbers \union {None}, admin : BOOLEAN, conversation : BOOLEAN,
                permits : BOOLEAN]
    /\ ctx.admin /\ ctx.channel # "whatsapp" => ctx.user = Administrator
    /\ ctx.phone = Salon => ctx.admin

(* The channel and the identity must agree: a WhatsApp message brings a number and *)
(* neither a user nor a conversation, a web message no number. *)
validarIdentidad(ctx) ==
    IF ctx.channel = "whatsapp"
    THEN ctx.phone # None /\ ctx.user = None /\ ~ctx.conversation
    ELSE ctx.phone = None

(* MUTANT of validarQueEsLaDuena: the adapter's word is enough. *)
validarQueEsLaDuenaFiada(ctx) == TRUE

(* The role the webhook gives is checked against the number once more. *)
validarQueEsLaDuena(ctx) ==
    ctx.channel = "whatsapp" /\ ctx.admin => normalizeCoPhoneToE164(ctx.phone) = Salon

actorDelContexto(ctx) ==
    CASE ctx.channel = "whatsapp" /\ ctx.phone = None -> [kind |-> "none", who |-> None]
      [] ctx.channel = "whatsapp" /\ ctx.phone # None ->
            IF ctx.admin THEN [kind |-> "admin", who |-> None] ELSE [kind |-> "phone", who |-> ctx.phone]
      [] ctx.channel # "whatsapp" /\ ctx.user = None -> [kind |-> "none", who |-> None]
      [] OTHER -> IF ctx.admin THEN [kind |-> "admin", who |-> None] ELSE [kind |-> "user", who |-> ctx.user]

canActOn(visit, actor) ==
    \/ actor.kind = "admin"
    \/ actor.kind = "user" /\ visit.user # None /\ visit.user = actor.who
    \/ actor.kind = "phone" /\ normalizeCoPhoneToE164(visit.phone) \notin {None} /\ visit.phone = actor.who

esLaDuenaPorWhatsApp(ctx) == ctx.channel = "whatsapp" /\ ctx.admin /\ ctx.phone # None

-----------------------------------------------------------------------------
(* What a tool answers: whether it worked, why not, whether it leaves a    *)
(* question for the client, the card the widget may show, what it changed  *)
(* and the reservations it acted on or showed.                             *)

NoCard == <<>>
Yes(effect, card, visits) ==
    [ok |-> TRUE, reason |-> "", ask |-> FALSE, card |-> card, effect |-> effect, visits |-> visits]
No(reason) ==
    [ok |-> FALSE, reason |-> reason, ask |-> FALSE, card |-> NoCard, effect |-> "none", visits |-> {}]
Asking(reason) == [No(reason) EXCEPT !.ask = TRUE]
Fine == Yes("none", NoCard, {})

(* The early returns of a tool: each answers or passes; the first answer counts. *)
When(applies, answer) == IF applies THEN <<answer>> ELSE <<>>
FirstOf(checks, otherwise) ==
    LET hits == {i \in DOMAIN checks : checks[i] # <<>>}
    IN  IF hits = {} THEN otherwise ELSE Head(checks[Min(hits)])

(* An argument of a call; 0 is one that is missing or malformed.            *)
Arg(call, key) ==
    LET hits == SelectSeq(call.args, LAMBDA pair : pair[1] = key)
    IN  IF hits = <<>> THEN 0 ELSE Head(hits)[2]

(* CreateReservationArgsDto, whitelisted; identidadParaCrear took the name out. *)
ValidArguments(call) ==
    LET keys == {pair[1] : pair \in ToSet(call.args)}
        named == IF turn.ctx.channel = "whatsapp" THEN {"nombre"} ELSE {}
    IN  /\ keys \ named \subseteq {"fechaHoraIso", "serviciosIds"}
        /\ Arg(call, "fechaHoraIso") # 0 /\ Arg(call, "serviciosIds") # 0

(* A list of services in a call: they exist, one comes twice, one does not exist. *)
Known == 1
Repeated == 2
Unknown == 3

identidadParaCrear(call) ==
    LET ctx == turn.ctx IN
    IF ctx.channel # "whatsapp"
    THEN IF ctx.user = None THEN No("sesion_requerida") ELSE Fine
    ELSE FirstOf(<<When(ctx.admin, No("solo_clientas")),
                   When(normalizeCoPhoneToE164(ctx.phone) = None, No("numero_no_soportado")),
                   When(Arg(call, "nombre") # 1, Asking("nombre_requerido"))>>, Fine)

(* What a tool leaves: its result, the proposals it saved, what it changed. *)
Only(result) == {[result |-> result, offers |-> <<>>, salon |-> salon]}
Change(result, visit, as) ==
    {[result |-> result, offers |-> <<>>, salon |-> [salon EXCEPT !.agenda[visit] = as]]}

-----------------------------------------------------------------------------
(* The use cases the tools call, and the error each may throw. *)

Taken(slot, except) ==
    \E v \in DOMAIN salon.agenda \ {except} :
        salon.agenda[v].slot = slot /\ salon.agenda[v].state \in Active

CreateError(call) ==
    FirstOf(<<When(Arg(call, "serviciosIds") = Repeated, "DuplicateServices"),
              When(Arg(call, "serviciosIds") = Unknown, "InvalidReservation"),
              When(Taken(Arg(call, "fechaHoraIso"), 0), "WorkerOverlap")>>, "")

Missing(id) == id \notin DOMAIN salon.agenda
Foreigner(id, actor) == \A v \in DOMAIN salon.agenda : v = id => ~canActOn(salon.agenda[v], actor)
Ended(id) == \A v \in DOMAIN salon.agenda : v = id => salon.agenda[v].state \notin Active

CancelError(id, actor) ==
    FirstOf(<<When(Missing(id), "ReservationNotFound"), When(Foreigner(id, actor), "ReservationOwnership"),
              When(Ended(id), "InvalidStatusTransition")>>, "")

RescheduleError(id, slot, actor) ==
    FirstOf(<<When(Missing(id), "ReservationNotFound"), When(Foreigner(id, actor), "ReservationOwnership"),
              When(Ended(id), "ReservationNotReschedulable"), When(Taken(slot, id), "WorkerOverlap")>>, "")

ConfirmError(id) ==
    FirstOf(<<When(Missing(id), "ReservationNotFound"),
              When(\A v \in DOMAIN salon.agenda : v = id => salon.agenda[v].state # "pendiente",
                "InvalidStatusTransition")>>, "")

-----------------------------------------------------------------------------
(* The tools that write, of the web and of MCP. *)

Reserve(call, verified) ==
    LET refusal ==
            FirstOf(<<When(turn.ctx.channel = "whatsapp", No("requiere_boton")),
                      When(~identidadParaCrear(call).ok, identidadParaCrear(call)),
                      When(~ValidArguments(call), No("argumentos_invalidos")),
                      When(~verified, Asking("confirmacion_requerida"))>>, Fine)
        error == CreateError(call)
        visit == [user |-> turn.ctx.user, phone |-> None,
                  slot |-> Arg(call, "fechaHoraIso"), state |-> "pendiente"]
    IN  IF ~refusal.ok THEN Only(refusal)
        ELSE IF error # "" THEN Only(No(mapDomainErrorToReason(error)))
        ELSE {[result |-> Yes("created", NoCard, {Len(salon.agenda) + 1}), offers |-> <<>>,
               salon |-> [salon EXCEPT !.agenda = Append(@, visit)]]}

(* The judge's verdict counts in a conversation: not for MCP, not for a package. *)
crearReserva(call) == Reserve(call, turn.ctx.channel = "web" => turn.ctx.permits)
reservarPaquete(call) == Reserve(call, TRUE)

cancelarReserva(call) ==
    LET id == Arg(call, "reservaId")
        actor == actorDelContexto(turn.ctx)
        refusal == FirstOf(<<When(turn.ctx.channel = "whatsapp", No("requiere_boton")),
                             When(actor.kind = "none", No("sesion_requerida")),
                             When(id = 0, No("argumentos_invalidos"))>>, Fine)
        error == CancelError(id, actor)
    IN  IF ~refusal.ok THEN Only(refusal)
        ELSE IF error # "" THEN Only(No(mapCancelErrorToReason(error)))
        ELSE Change(Yes("cancelled", NoCard, {id}), id,
                    [salon.agenda[id] EXCEPT !.state = "cancelada"])

reprogramarReserva(call) ==
    LET id == Arg(call, "reservaId")
        slot == Arg(call, "nuevaFecha")
        actor == actorDelContexto(turn.ctx)
        refusal == FirstOf(<<When(turn.ctx.channel = "whatsapp", No("requiere_boton")),
                             When(actor.kind = "none", No("sesion_requerida")),
                             When(id = 0 \/ slot = 0, No("argumentos_invalidos"))>>, Fine)
        error == RescheduleError(id, slot, actor)
    IN  IF ~refusal.ok THEN Only(refusal)
        ELSE IF error # "" THEN Only(No(mapRescheduleErrorToReason(error)))
        ELSE Change(Yes("moved", NoCard, {id}), id, [salon.agenda[id] EXCEPT !.slot = slot])

(* The owner's, on WhatsApp only. *)
confirmarReserva(call) ==
    LET id == Arg(call, "reservaId")
        refusal == FirstOf(<<When(~esLaDuenaPorWhatsApp(turn.ctx), No("solo_administracion")),
                             When(id = 0, No("argumentos_invalidos"))>>, Fine)
        error == ConfirmError(id)
    IN  IF ~refusal.ok THEN Only(refusal)
        ELSE IF error # "" THEN Only(No(mapConfirmErrorToReason(error)))
        ELSE Change(Yes("confirmed", NoCard, {id}), id,
                    [salon.agenda[id] EXCEPT !.state = "confirmada"])

-----------------------------------------------------------------------------
(* The tools of WhatsApp propose: what writes is the button. *)

ProposeBooking(call) ==
    LET refusal ==
            FirstOf(<<When(turn.ctx.channel # "whatsapp", No("solo_whatsapp")),
                      When(~identidadParaCrear(call).ok, identidadParaCrear(call)),
                      When(~ValidArguments(call), No("argumentos_invalidos")),
                      When(Arg(call, "serviciosIds") = Unknown, No("servicio_invalido"))>>, Fine)
        offer == [phone |-> turn.ctx.phone, slot |-> Arg(call, "fechaHoraIso")]
    IN  IF ~refusal.ok THEN Only(refusal)
        ELSE {[result |-> Yes("proposed", <<"confirmar-reserva", Len(turn.offers) + 1>>, {}),
               offers |-> <<offer>>, salon |-> salon]}

(* citaParaConfirmar: the reservation, if whoever writes may see it.        *)
ToConfirm(id, card) ==
    LET actor == actorDelContexto(turn.ctx)
    IN  FirstOf(<<When(actor.kind = "none", No("sesion_requerida")),
                  When(Missing(id), No("reserva_no_encontrada")),
                  When(Foreigner(id, actor), No("no_es_tu_reserva"))>>, Yes("none", card, {id}))

ProposeCancel(call) ==
    LET id == Arg(call, "reservaId")
    IN  Only(FirstOf(<<When(turn.ctx.channel # "whatsapp", No("solo_whatsapp")),
                       When(id = 0, No("argumentos_invalidos"))>>,
                     ToConfirm(id, <<"confirmar-cancelacion", id>>)))

ProposeReschedule(call) ==
    LET id == Arg(call, "reservaId")
        slot == Arg(call, "nuevaFecha")
    IN  Only(FirstOf(<<When(turn.ctx.channel # "whatsapp", No("solo_whatsapp")),
                       When(id = 0 \/ slot = 0, No("argumentos_invalidos"))>>,
                     ToConfirm(id, <<"confirmar-cambio", id, slot>>)))

-----------------------------------------------------------------------------
(* The tools that read. presentar may fail: then there is no card.          *)

listarServicios(call) ==
    Only(Yes("none", <<"servicios", 0>>, {})) \union Only(Yes("none", NoCard, {}))

misReservas(call) ==
    LET ctx == turn.ctx
        mine == IF ctx.channel = "whatsapp"
                THEN {v \in DOMAIN salon.agenda : salon.agenda[v].phone = ctx.phone /\ ~Ended(v)}
                ELSE {v \in DOMAIN salon.agenda : salon.agenda[v].user = ctx.user}
    IN  Only(IF ctx.channel # "whatsapp" /\ ctx.user = None THEN No("sesion_requerida")
             ELSE Yes("none", NoCard, mine))

verAgenda(call) ==
    Only(IF ~esLaDuenaPorWhatsApp(turn.ctx) THEN No("solo_administracion")
         ELSE Yes("none", NoCard, {v \in DOMAIN salon.agenda : ~Ended(v)}))

-----------------------------------------------------------------------------
(* The notice to the owner, at most one per number and window: noted only  *)
(* when it went out. The hour does not pass while a turn runs.             *)

Never == -1
puede(phone) == salon.ultimos[phone] # Never => hour - salon.ultimos[phone] >= ENFRIAMIENTO_CONTACTO

anotar(phone) ==
    LET stale(n) == salon.ultimos[n] # Never /\ hour - salon.ultimos[n] >= ENFRIAMIENTO_CONTACTO
    IN  [n \in Numbers |-> IF n = phone THEN hour ELSE IF stale(n) THEN Never ELSE salon.ultimos[n]]

hablarConLaDuena(call) ==
    LET phone == turn.ctx.phone
        refusal ==
            FirstOf(<<When(turn.ctx.channel # "whatsapp" \/ turn.ctx.admin, No("solo_clientas_whatsapp")),
                      When(Arg(call, "motivo") = 0, Asking("sin_motivo"))>>, Fine)
        notice == [phone |-> phone, at |-> hour, boot |-> salon.boot]
    IN  IF ~refusal.ok THEN Only(refusal)
        ELSE IF ~puede(phone) THEN Only(Yes("none", NoCard, {}))
        ELSE Only(Asking("sin_aviso"))
             \union {[result |-> Yes("notified", NoCard, {}), offers |-> <<>>,
                      salon |-> [salon EXCEPT !.ultimos = anotar(phone),
                                              !.notices = Append(@, notice)]]}

-----------------------------------------------------------------------------
(* Which tools a turn has: another role's do not exist for it. *)

WebTools == {"listarServicios", "crearReserva", "misReservas", "cancelarReserva",
             "reprogramarReserva", "reservarPaquete"}
ClientTools == WebTools \union {"hablarConLaDuena"}
OwnerTools == {"listarServicios", "verAgenda", "confirmarReserva", "cancelarReserva",
               "reprogramarReserva"}

juegoDelTurno(ctx) ==
    IF ctx.channel # "whatsapp" THEN WebTools ELSE IF ctx.admin THEN OwnerTools ELSE ClientTools

Execute(call) ==
    LET proposes == turn.ctx.channel = "whatsapp" IN
    IF call.tool \notin juegoDelTurno(turn.ctx) THEN Only(No("herramienta_desconocida"))
    ELSE CASE call.tool = "listarServicios" -> listarServicios(call)
           [] call.tool = "misReservas" -> misReservas(call)
           [] call.tool = "verAgenda" -> verAgenda(call)
           [] call.tool = "hablarConLaDuena" -> hablarConLaDuena(call)
           [] call.tool = "confirmarReserva" -> confirmarReserva(call)
           [] call.tool = "crearReserva" -> IF proposes THEN ProposeBooking(call) ELSE crearReserva(call)
           [] call.tool = "reservarPaquete" -> IF proposes THEN ProposeBooking(call) ELSE reservarPaquete(call)
           [] call.tool = "cancelarReserva" -> IF proposes THEN ProposeCancel(call) ELSE cancelarReserva(call)
           [] call.tool = "reprogramarReserva" ->
                 IF proposes THEN ProposeReschedule(call) ELSE reprogramarReserva(call)

-----------------------------------------------------------------------------
(* The loop. memo is resultadosDelTurno, in the order of insertion. *)

(* MUTANT of firmaDeLlamada: the arguments as the provider wrote them. *)
firmaSinOrdenar(call) == <<call.tool, call.args>>

(* A call's identity: its tool and its arguments, whatever their order.     *)
firmaDeLlamada(call) == <<call.tool, ToSet(call.args)>>

Remembered(call) == \E i \in DOMAIN turn.memo : turn.memo[i].key = firmaDeLlamada(call)

(* The first question a tool left, or an apology. *)
preguntaPendiente ==
    LET left == {i \in DOMAIN turn.memo : turn.memo[i].result.ask}
    IN  IF left = {} THEN "courtesy" ELSE turn.memo[Min(left)].result.reason

Reply(said) ==
    [turn EXCEPT !.at = "done", !.seen = Len(turn.memo), !.calls = <<>>,
                 !.reply = IF said THEN "text" ELSE preguntaPendiente,
                 !.cards = IF said THEN @ ELSE <<>>]

(* A message of the web or of WhatsApp, or a call to MCP, arrives.          *)
Start(ctx) ==
    /\ turn.at = "idle" /\ salon.turns < MaxTurns
    /\ validarIdentidad(ctx) /\ validarQueEsLaDuena(ctx)
    /\ \/ /\ ctx.channel # "mcp"
          /\ turn' = [Resting EXCEPT !.at = "ask", !.ctx = ctx, !.round = 1]
       \/ /\ ctx.channel = "mcp"
          /\ \E calls \in Asked : /\ Len(calls) = 1
                                  /\ turn' = [Resting EXCEPT !.at = "run", !.ctx = ctx, !.calls = calls]
    /\ salon' = [salon EXCEPT !.turns = @ + 1]
    /\ UNCHANGED hour

(* The model answers, with words or with nothing at all. *)
Answer ==
    /\ turn.at = "ask"
    /\ \E said \in BOOLEAN : turn' = Reply(said)
    /\ UNCHANGED <<hour, salon>>

(* The provider fails: the turn is lost, what its tools did is not.         *)
Unavailable ==
    /\ turn.at = "ask"
    /\ turn' = [turn EXCEPT !.at = "failed"]
    /\ UNCHANGED <<hour, salon>>

(* Neither the last round nor the second in a row that asks for nothing new. *)
GoesOn(calls, stale) ==
    turn.round < MAX_TOOL_ITERATIONS /\ stale < MAX_VUELTAS_SIN_NOVEDAD

(* The model asks for tools. `advances` is the judge's answer (turnoAvanza). *)
AskForTools ==
    /\ turn.at = "ask"
    /\ \E calls \in Asked, advances \in BOOLEAN :
         LET stale == IF \A i \in DOMAIN calls : Remembered(calls[i]) THEN turn.stale + 1 ELSE 0
             judged == turn.round >= PRIMERA_VUELTA_QUE_SE_JUZGA
         IN  /\ Len(salon.agenda) + Len(calls) <= MaxAgenda     \* bound
             /\ judged \/ advances
             /\ turn' = IF GoesOn(calls, stale) /\ advances
                        THEN [turn EXCEPT !.at = "run", !.calls = calls, !.stale = stale,
                                          !.seen = Len(turn.memo)]
                        ELSE Reply(FALSE)
    /\ UNCHANGED <<hour, salon>>

(* One call of the round: repeated to the letter, it is not run again.      *)
RunTool ==
    /\ turn.at = "run"
    /\ LET call == Head(turn.calls)
           last == Len(turn.calls) = 1
           next == IF ~last THEN "run" ELSE IF turn.ctx.channel = "mcp" THEN "done" ELSE "ask"
           then == [turn EXCEPT !.at = next, !.calls = Tail(@), !.round = IF last THEN @ + 1 ELSE @]
       IN  \/ /\ Remembered(call)
              /\ turn' = then
              /\ UNCHANGED salon
           \/ /\ ~Remembered(call)
              /\ \E o \in Execute(call) :
                   /\ salon' = o.salon
                   /\ turn' = [then EXCEPT
                                 !.offers = @ \o o.offers,
                                 !.memo = Append(@, [key |-> firmaDeLlamada(call), call |-> call,
                                                     result |-> o.result]),
                                 !.cards = IF o.result.card = NoCard \/ o.result.card \in ToSet(@)
                                           THEN @ ELSE Append(@, o.result.card)]
    /\ UNCHANGED hour

Rest ==
    /\ turn.at \in {"done", "failed"}
    /\ turn' = Resting
    /\ UNCHANGED <<hour, salon>>

-----------------------------------------------------------------------------
(* Around the turns. *)

HourPasses ==
    /\ turn.at = "idle" /\ hour < LastHour
    /\ hour' = hour + 1
    /\ UNCHANGED <<salon, turn>>

(* The process restarts and forgets whom it gave notice of. *)
Restart ==
    /\ turn.at = "idle" /\ salon.boot = 0       \* bound
    /\ salon' = [salon EXCEPT !.boot = 1, !.ultimos = [n \in Numbers |-> Never]]
    /\ UNCHANGED <<hour, turn>>

Opened == [agenda |-> Before, turns |-> 0, notices |-> <<>>, boot |-> 0,
           ultimos |-> [n \in Numbers |-> Never]]

ToolsInit == hour = 0 /\ salon = Opened /\ turn = Resting

(* Start is left out: it is where the module that composes this one begins. *)
ToolsNext == Answer \/ Unavailable \/ AskForTools \/ RunTool \/ Rest \/ HourPasses \/ Restart

-----------------------------------------------------------------------------
Results == {turn.memo[i].result : i \in DOMAIN turn.memo}

(* A turn does nothing twice and tells what it did: no two calls it ran    *)
(* have the same tool and arguments, in whatever order; by the time it     *)
(* replies the model has been given every result; when the model has no    *)
(* words and a tool left a question, that is what the client reads, and no *)
(* card contradicts an apology; no card comes twice.                       *)
EffectsToldOnce ==
    LET memo == turn.memo IN
    /\ \A i, j \in DOMAIN memo :
          (memo[i].call.tool = memo[j].call.tool
             /\ ToSet(memo[i].call.args) = ToSet(memo[j].call.args)) => i = j
    /\ (turn.at = "done" /\ turn.ctx.channel # "mcp") =>
          /\ turn.seen = Len(memo)
          /\ turn.reply = "courtesy" => \A r \in Results : ~r.ask
          /\ turn.reply # "text" => turn.cards = <<>>
    /\ \A i, j \in DOMAIN turn.cards : turn.cards[i] = turn.cards[j] => i = j

(* Whatever the model asks for and whatever role the adapter claims: the   *)
(* agenda is written by a session, over its own reservations or as         *)
(* administrator, or by the owner's number when she confirms; a proposal   *)
(* is for the number that writes; a refused booking is not made in a       *)
(* conversation; nobody is shown a reservation of someone else; and the    *)
(* owner hears of one number once per window, unless the process restarted. *)
EffectsHaveAnOwner ==
    LET ctx == turn.ctx
        owns(v) == \/ ctx.user # None /\ salon.agenda[v].user = ctx.user
                   \/ ctx.channel = "whatsapp" /\ salon.agenda[v].phone = ctx.phone
        rules == (ctx.user = Administrator /\ ctx.admin) \/ (ctx.channel = "whatsapp" /\ ctx.phone = Salon)
    IN  /\ \A i \in DOMAIN turn.memo :
             LET r == turn.memo[i].result IN
             /\ \A v \in r.visits : owns(v) \/ rules
             /\ r.effect \in {"created", "cancelled", "moved"} => ctx.user # None
             /\ r.effect = "created" =>
                   /\ \A v \in r.visits : owns(v)
                   /\ (ctx.channel = "web" /\ turn.memo[i].call.tool = "crearReserva") => ctx.permits
             /\ r.effect = "confirmed" => ctx.phone = Salon
        /\ \A i \in DOMAIN turn.offers : turn.offers[i].phone = ctx.phone /\ ctx.phone \notin {None, Salon}
        /\ \A i, j \in DOMAIN salon.notices :
             LET a == salon.notices[i]   b == salon.notices[j] IN
             (i < j /\ a.phone = b.phone /\ a.boot = b.boot) => b.at - a.at >= ENFRIAMIENTO_CONTACTO
=============================================================================
