--------------------------- MODULE TurnScreening ---------------------------
(***************************************************************************)
(* The judgements asked of the classifier during a turn of the assistant    *)
(* (turn-screen.ts), who asks them (preguntar-con-seguridad.ts,             *)
(* typesafe-judge.adapter.ts), how the environment turns each one off, to   *)
(* shadow or on (judgment-settings.ts), and what an answer may change.      *)
(* Pure operators.                                                          *)
(*                                                                         *)
(* A text is a string, "" one that is empty or blank.  A probability is     *)
(* counted in tenths.  An answer is [type, noul, choice].  The arguments of *)
(* a call are the sequence of their leaves, in the order they are visited.  *)
(***************************************************************************)
EXTENDS Integers, SequencesExt

CONSTANT Identifiers      \* the texts that are UUIDs

NoProb == -1              \* null: no probability can be read
NotANumber == -2          \* a value Number() reads as NaN
NullValue == -3           \* JSON null, which Number() reads as 0
NoAnswer == [type |-> "none", noul |-> NotANumber, choice |-> ""]

RECIENTES_EN_EL_ESTADO == 4
UMBRAL_PERTINENCIA == 1
UMBRAL_CORRESPONDENCIA == 5
UMBRAL_PROGRESO == 5
INTENCIONES == {"precio_o_catalogo", "disponibilidad", "reservar", "gestionar_reserva", "recomendacion",
                "paquete_de_evento", "informacion_del_salon", "otro"}

esTexto(t) == t # ""

(***************************************************************************)
(* What is sent.  NoRequest stands for null: nothing to ask.                *)
(***************************************************************************)
NoRequest == [state |-> <<>>, asked |-> <<>>]

recientesDelEstado(recents) ==
    LET written == SelectSeq(recents, LAMBDA m : esTexto(m.text))
        from == IF Len(written) > RECIENTES_EN_EL_ESTADO THEN Len(written) - RECIENTES_EN_EL_ESTADO ELSE 0
    IN  SubSeq(written, from + 1, Len(written))

\* The identifiers of a call, by the order they were first met in the trace.
AliasesAfter(seen, leaves) ==
    FoldLeft(LAMBDA known, v : IF v \in Identifiers /\ ~Contains(known, v) THEN Append(known, v) ELSE known, seen, leaves)
AliasOf(aliases, v) == "id_" \o ToString(CHOOSE i \in DOMAIN aliases : aliases[i] = v)
sinIdentificadores(leaves, aliases) ==
    [i \in DOMAIN leaves |-> IF leaves[i] \in Identifiers THEN AliasOf(aliases, leaves[i]) ELSE leaves[i]]

llamadasDelEstado(trace) ==
    LET aliases == AliasesAfter(<<>>, FlattenSeq([i \in DOMAIN trace |-> trace[i].arguments]))
    IN  [i \in DOMAIN trace |-> [tool |-> trace[i].tool, result |-> trace[i].result,
                                 arguments |-> sinIdentificadores(trace[i].arguments, aliases)]]

construirPertinencia(message, recents) ==
    IF ~esTexto(message) THEN NoRequest
    ELSE [state |-> <<[recent |-> recientesDelEstado(recents), message |-> message]>>, asked |-> <<"pertinencia">>]

construirCorrespondencia(services, date, time, recents) ==
    LET names == SelectSeq(services, esTexto)
        context == recientesDelEstado(recents)
    IN  IF names = <<>> \/ context = <<>> THEN NoRequest
        ELSE [state |-> <<[recent |-> context, services |-> names, date |-> date, time |-> time]>>,
              asked |-> <<"correspondencia">>]

construirProgreso(request, trace) ==
    IF ~esTexto(request) \/ trace = <<>> THEN NoRequest
    ELSE [state |-> <<[request |-> request, calls |-> llamadasDelEstado(trace)]>>, asked |-> <<"progreso">>]

construirBalance(request, reply, trace) ==
    IF ~esTexto(request) \/ ~esTexto(reply) THEN NoRequest
    ELSE [state |-> <<[request |-> request, reply |-> reply, calls |-> llamadasDelEstado(trace)]>>,
          asked |-> <<"intencion", "resuelta">>]

construirRelevancia(query, candidates) ==
    IF ~esTexto(query) \/ Len(candidates) < 2 THEN NoRequest
    ELSE [state |-> <<[query |-> query, services |-> candidates]>>,
          asked |-> [i \in DOMAIN candidates |-> "r" \o ToString(i - 1)]]

TypeAsked(id) == IF id = "intencion" THEN "choice" ELSE "noul"

(***************************************************************************)
(* What is read.  `answers' is a function from the ids answered.            *)
(***************************************************************************)
AnswerTo(answers, id) == IF id \in DOMAIN answers THEN answers[id] ELSE NoAnswer

probabilidadNoul(answer) ==
    IF answer.type # "noul" \/ answer.noul = NotANumber THEN NoProb
    ELSE IF answer.noul = NullValue THEN 0 ELSE answer.noul

\* MUTANT of leerNoulUnico: an answer that cannot be read says no.
leerNoulUnicoCerrado(answers, asked, threshold) ==
    LET prob == probabilidadNoul(AnswerTo(answers, asked[1]))
    IN  [cumple |-> prob >= threshold, prob |-> prob]

leerNoulUnico(answers, asked, threshold) ==
    LET prob == probabilidadNoul(AnswerTo(answers, asked[1]))
    IN  [cumple |-> prob = NoProb \/ prob >= threshold, prob |-> prob]

leerPertinencia(answers, asked) == leerNoulUnico(answers, asked, UMBRAL_PERTINENCIA)
leerCorrespondencia(answers, asked) == leerNoulUnico(answers, asked, UMBRAL_CORRESPONDENCIA)
leerProgreso(answers, asked) == leerNoulUnico(answers, asked, UMBRAL_PROGRESO)

leerBalance(answers) ==
    LET chosen == AnswerTo(answers, "intencion")
    IN  [intencion |-> IF chosen.type = "choice" /\ chosen.choice \in INTENCIONES THEN chosen.choice ELSE "",
         resuelta |-> probabilidadNoul(AnswerTo(answers, "resuelta"))]

\* <<>> stands for null: one that cannot be read spoils them all.
leerRelevancia(answers, asked) ==
    LET probs == [i \in DOMAIN asked |-> probabilidadNoul(AnswerTo(answers, asked[i]))]
    IN  IF \E i \in DOMAIN probs : probs[i] = NoProb THEN <<>> ELSE probs

ordenarPorRelevancia(items, probs) ==
    IF probs = <<>> \/ Len(probs) # Len(items) THEN items
    ELSE LET before(i, j) == probs[i] > probs[j] \/ (probs[i] = probs[j] /\ i < j)
             order == SetToSortSeq(DOMAIN items, before)
         IN  [i \in DOMAIN items |-> items[order[i]]]

(***************************************************************************)
(* Asking.  `reply' is what the service does with one request: [kind,       *)
(* status, answers].                                                        *)
(***************************************************************************)
fallo(error) == [ok |-> FALSE, error |-> error, answers |-> <<>>]

errorDeEstado(status) ==
    CASE status \in {401, 403} -> "auth"
      [] status = 429 -> "rate"
      [] status \in 400..499 \ {401, 403, 429} -> "invalid"
      [] OTHER -> "network"

esperadoYCompleto(answers, asked) ==
    \A i \in DOMAIN asked : AnswerTo(answers, asked[i]).type = TypeAsked(asked[i])

ask(disponible, reply, asked) ==
    CASE ~disponible -> fallo("auth")
      [] disponible /\ reply.kind \in {"timeout", "network"} -> fallo(reply.kind)
      [] disponible /\ reply.kind = "answer" /\ reply.status # 200 -> fallo(errorDeEstado(reply.status))
      [] disponible /\ reply.kind = "answer" /\ reply.status = 200 /\ ~esperadoYCompleto(reply.answers, asked) -> fallo("invalid")
      [] OTHER -> [ok |-> TRUE, error |-> "", answers |-> reply.answers]

\* A client that throws instead of answering counts as a failed network.
preguntarConSeguridad(disponible, reply, asked) ==
    IF reply.kind = "throws" THEN fallo("network") ELSE ask(disponible, reply, asked)

(***************************************************************************)
(* The three judgements that may change a turn.                             *)
(***************************************************************************)
sinJuicio == [permitir |-> TRUE, prob |-> NoProb, habriaFrenado |-> FALSE]

verificarReservaPropuesta(disponible, reply, mode, services, date, time, recents) ==
    LET request == construirCorrespondencia(services, date, time, recents)
        answer == preguntarConSeguridad(disponible, reply, request.asked)
        read == leerCorrespondencia(answer.answers, request.asked)
    IN  IF mode = "off" \/ request = NoRequest \/ ~answer.ok THEN sinJuicio
        ELSE [permitir |-> mode = "shadow" \/ read.cumple, prob |-> read.prob, habriaFrenado |-> ~read.cumple]

turnoAvanza(disponible, reply, mode, message, trace, requested) ==
    LET request == construirProgreso(message, trace \o requested)
        answer == preguntarConSeguridad(disponible, reply, request.asked)
    IN  \/ mode = "off" \/ request = NoRequest \/ ~answer.ok \/ mode = "shadow"
        \/ leerProgreso(answer.answers, request.asked).cumple

reordenados(disponible, reply, mode, conversational, services, query, byPrice) ==
    LET request == construirRelevancia(query, services)
        answer == preguntarConSeguridad(disponible, reply, request.asked)
    IN  IF \/ mode = "off" \/ ~conversational \/ Len(services) < 2 \/ ~esTexto(query) \/ byPrice
           \/ request = NoRequest \/ ~answer.ok \/ mode = "shadow"
        THEN services
        ELSE ordenarPorRelevancia(services, leerRelevancia(answer.answers, request.asked))

(***************************************************************************)
(* The settings.  `raw' is the variable, trimmed and in lower case, or      *)
(* "unset".                                                                 *)
(***************************************************************************)
MODOS == {"off", "shadow", "on"}
modoDeEntorno(raw, default) == IF raw = "unset" THEN default ELSE IF raw \in MODOS THEN raw ELSE "off"
TODO_APAGADO == [reserva |-> "off", bucle |-> "off", orden |-> "off", diferido |-> FALSE]
ajustesDeJuicioDeEntorno(env, disponible) ==
    IF ~disponible THEN TODO_APAGADO
    ELSE [reserva |-> modoDeEntorno(env.reserva, "off"), bucle |-> modoDeEntorno(env.bucle, "off"),
          orden |-> modoDeEntorno(env.orden, "off"), diferido |-> modoDeEntorno(env.diferido, "off") # "off"]

(***************************************************************************)
(* Nothing a classifier answers, or fails to answer, can stop the salon from *)
(* working: it changes a turn only when its variable says "on", a provider   *)
(* is configured and a whole answer to every question came back; what it     *)
(* changes is then a reservation held back, a loop cut or an order, never    *)
(* which services are listed; and nothing that leaves for it names a row of  *)
(* the database, yet two calls about the same row still look alike.          *)
(***************************************************************************)
JudgesOnlyAdvise(env, disponible, reply, services, recents, trace) ==
    LET settings == ajustesDeJuicioDeEntorno(env, disponible)
        verdict == verificarReservaPropuesta(disponible, reply, settings.reserva, services, "d", "t", recents)
        goes == turnoAvanza(disponible, reply, settings.bucle, "m", trace, <<>>)
        listed == reordenados(disponible, reply, settings.orden, TRUE, services, "q", FALSE)
        readable(id) == /\ disponible /\ reply.kind = "answer" /\ reply.status = 200
                        /\ id \in DOMAIN reply.answers /\ reply.answers[id].type = "noul"
                        /\ reply.answers[id].noul # NotANumber
        tenths(id) == IF reply.answers[id].noul = NullValue THEN 0 ELSE reply.answers[id].noul
        ids == [i \in DOMAIN services |-> "r" \o ToString(i - 1)]
        sent == construirProgreso("m", trace)
        deferred == leerBalance(reply.answers)
    IN  /\ ~verdict.permitir => env.reserva = "on" /\ readable("correspondencia") /\ tenths("correspondencia") < 5
        /\ ~goes => env.bucle = "on" /\ readable("progreso") /\ tenths("progreso") < 5
        /\ listed # services => env.orden = "on" /\ \A i \in DOMAIN ids : readable(ids[i])
        /\ env.reserva = "on" /\ services # <<>> /\ recents # <<>> /\ readable("correspondencia") =>
              verdict.permitir = (tenths("correspondencia") >= 5)
        /\ ToSet(listed) = ToSet(services) /\ Len(listed) = Len(services)
        /\ (Len(services) > 1 /\ settings.orden = "on" /\ \A i \in DOMAIN ids : readable(ids[i])) =>
              \E place \in [DOMAIN services -> DOMAIN services] :
                 /\ \A i \in DOMAIN services : listed[i] = services[place[i]]
                 /\ \A i, j \in DOMAIN services : i < j =>
                       \/ tenths(ids[place[i]]) > tenths(ids[place[j]])
                       \/ tenths(ids[place[i]]) = tenths(ids[place[j]]) /\ place[i] < place[j]
        /\ deferred.intencion \in INTENCIONES \union {""}
        /\ \A request \in {construirPertinencia("m", recents), construirBalance("m", "r", trace)} : request # NoRequest
        /\ leerPertinencia(<<>>, <<"pertinencia">>).cumple
        /\ sent # NoRequest =>
              LET calls == sent.state[1].calls IN
              \A i, j \in DOMAIN calls : \A k \in DOMAIN calls[i].arguments, l \in DOMAIN calls[j].arguments :
                 /\ calls[i].arguments[k] \notin Identifiers
                 /\ (calls[i].arguments[k] = calls[j].arguments[l]) = (trace[i].arguments[k] = trace[j].arguments[l])
=============================================================================
