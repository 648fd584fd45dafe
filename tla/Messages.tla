------------------------------- MODULE Messages -------------------------------
(***************************************************************************)
(* What the WhatsApp channel says: the payload each button carries and how *)
(* it is read back, the lists and questions of HandleInboundMessage, the   *)
(* messages an answer of the assistant becomes, and what the sender takes. *)
(*                                                                         *)
(* A payload is the sequence of the parts the code joins with "|".  A text *)
(* is a sequence of characters, a URL [url, https, host, path, ext].       *)
(***************************************************************************)
EXTENDS Integers, SequencesExt

CONSTANTS Uuids, Ymds,
          Hhmms,         \* the hours of a day, in order
          Versions,      \* the segments of a path that match /^v\d+$/
          MAX_TEXTO,     \* characters of a text
          MAX_FILAS, FILAS_CON_PAGINACION       \* rows of a list

\* Assumed of the constants by the module that gives them values.
MessagesAssumption ==
    {MAX_TEXTO, MAX_FILAS, FILAS_CON_PAGINACION} \subseteq Nat \ {0}

-----------------------------------------------------------------------------
(* Buttons. *)

CODIGOS == [cancel |-> "CANCEL", cancel_ok |-> "CANCEL_OK", confirm |-> "CONFIRM", reschedule |-> "RESCHED",
            reschedule_day |-> "RSDAY", reschedule_at |-> "RSAT", reservation |-> "RESV",
            book_ok |-> "BOOK_OK", book_no |-> "BOOK_NO", noop |-> "NOOP"]

AboutBooking == {"book_ok", "book_no"}
AboutVisit == {"cancel", "cancel_ok", "confirm", "reschedule", "reservation"}
Unread == [action |-> "null"]
NotANumber == -1

YmdHm(ymd, hhmm) == ymd \o "T" \o hhmm
YmdHms == {YmdHm(ymd, Hhmms[k]) : ymd \in Ymds, k \in DOMAIN Hhmms}
VisitButton(action, id) == [action |-> action, reservationId |-> id]
BookingButton(action, id) == [action |-> action, bookingId |-> id]

encodeButtonPayload(p) ==
    <<CODIGOS[p.action]>> \o
    CASE p.action = "noop" -> <<>>
      [] p.action = "reschedule_day" ->
            <<p.reservationId, p.dateYmd>> \o (IF "offset" \in DOMAIN p THEN <<ToString(p.offset)>> ELSE <<>>)
      [] p.action = "reschedule_at" -> <<p.reservationId, p.whenYmdHm>>
      [] p.action \in AboutBooking -> <<p.bookingId>>
      [] OTHER -> <<p.reservationId>>

(* Number() of a word that may be an offset: JavaScript reads a whole number *)
(* of zero or more from plain decimals and from words of these forms too.    *)
Number(word) ==
    CASE \E n \in 0 .. 99 : ToString(n) = word -> CHOOSE n \in 0 .. 99 : ToString(n) = word
      [] word \in {"", "-0"} -> 0
      [] word \in {"09", "+9", " 9", "9.0", "0x9"} -> 9
      [] word = "1e1" -> 10
      [] OTHER -> NotANumber

(* Names the object ACCIONES has without being given them.                  *)
Inherited == {"constructor", "toString", "valueOf", "hasOwnProperty", "__proto__"}

(* The parts of the text without the blanks around it.                      *)
parseButtonPayload(partes) ==
    LET n == Len(partes)
        Is(actions, count) == /\ n = count /\ \E a \in actions : CODIGOS[a] = partes[1]
                              /\ n > 1 => partes[2] \in Uuids
        accion == CHOOSE a \in DOMAIN CODIGOS : CODIGOS[a] = partes[1]
        Day == [action |-> accion, reservationId |-> partes[2], dateYmd |-> partes[3]]
    IN  CASE Is({"noop"}, 1) -> [action |-> accion]
          [] Is(AboutBooking, 2) -> BookingButton(accion, partes[2])
          [] Is(AboutVisit, 2) -> VisitButton(accion, partes[2])
          [] n = 2 /\ partes[1] \in Inherited /\ partes[2] \in Uuids -> VisitButton(partes[1], partes[2])
          [] Is({"reschedule_day"}, 3) /\ partes[3] \in Ymds -> Day
          [] Is({"reschedule_day"}, 4) /\ partes[3] \in Ymds /\ Number(partes[4]) \in Nat ->
                Day @@ [offset |-> Number(partes[4])]
          [] Is({"reschedule_at"}, 3) /\ partes[3] \in YmdHms ->
                [action |-> accion, reservationId |-> partes[2], whenYmdHm |-> partes[3]]
          [] OTHER -> Unread

-----------------------------------------------------------------------------
(* Messages, and what the sender and Meta take. *)

Text(body) == [kind |-> "text", body |-> body]
Buttons(payloads) == [kind |-> "interactive-buttons", ids |-> [k \in DOMAIN payloads |-> encodeButtonPayload(payloads[k])]]
List(payloads) == [kind |-> "interactive-list", ids |-> [k \in DOMAIN payloads |-> encodeButtonPayload(payloads[k])]]
Image(url) == [kind |-> "image", link |-> url]

NoUrl == [url |-> FALSE, https |-> FALSE, host |-> "", path |-> <<>>, ext |-> ""]
CLOUDINARY_HOST == "res.cloudinary.com"
TRANSFORMACION_WHATSAPP == "f_jpg,w_800,c_limit"

toWhatsAppImageUrl(u) ==
    LET segmentos == SubSeq(u.path, 4, Len(u.path))
        version == SelectInSeq(segmentos, LAMBDA s : s \in Versions)
    IN  IF ~u.url \/ ~u.https \/ u.host # CLOUDINARY_HOST \/ Len(u.path) < 4 \/ SubSeq(u.path, 2, 3) # <<"image", "upload">>
        THEN NoUrl
        ELSE IF Contains(segmentos, TRANSFORMACION_WHATSAPP) THEN u
        ELSE [u EXCEPT !.path = InsertAt(u.path, 3 + (IF version = 0 THEN 1 ELSE version), TRANSFORMACION_WHATSAPP)]

MetaTakesImage(u) == u.https /\ (Contains(u.path, TRANSFORMACION_WHATSAPP) \/ u.ext \in {"jpg", "jpeg", "png"})

(* The limits the code quotes. *)
MetaTakes(m) ==
    CASE m.kind = "text" -> Len(m.body) \in 1 .. MAX_TEXTO
      [] m.kind = "image" -> MetaTakesImage(m.link)
      [] m.kind = "interactive-buttons" -> Len(m.ids) \in 1 .. 3
      [] m.kind = "interactive-list" -> Len(m.ids) \in 1 .. MAX_FILAS
      [] OTHER -> TRUE

(* What the adapter refuses before it calls Meta. *)
toGraphPayloadThrows(m) ==
    \/ m.kind = "template" /\ m.template = ""
    \/ m.kind = "interactive-list" /\ Len(m.ids) > MAX_FILAS

-----------------------------------------------------------------------------
(* The lists and questions of HandleInboundMessage. *)

Shown(s, n) == SubSeq(s, 1, IF Len(s) < n THEN Len(s) ELSE n)

mostrarOpciones(id, esDuena) ==
    Buttons((IF esDuena THEN <<VisitButton("confirm", id)>> ELSE <<>>)
            \o <<VisitButton("cancel", id), VisitButton("reschedule", id)>>)

ofrecerSusCitas(citas, esDuena) ==
    CASE esDuena -> Text(<<"panel">>)
      [] ~esDuena /\ citas = <<>> -> Text(<<"ninguna">>)
      [] ~esDuena /\ Len(citas) = 1 -> mostrarOpciones(citas[1], esDuena)
      [] OTHER -> List([k \in 1 .. Len(Shown(citas, MAX_FILAS)) |-> VisitButton("reservation", citas[k])])

pedirConfirmacionDeCancelar(id) == Buttons(<<VisitButton("cancel_ok", id), [action |-> "noop"]>>)

DayButton(id, ymd) == [action |-> "reschedule_day", reservationId |-> id, dateYmd |-> ymd]

ofrecerDias(id, dias) ==
    IF dias = <<>> THEN Text(<<"ninguno">>)
    ELSE List([k \in 1 .. Len(Shown(dias, MAX_FILAS)) |-> DayButton(id, dias[k])])

(* MUTANT of ofrecerHoras: the next page starts after a full list.         *)
ofrecerHorasDeDiez(id, ymd, horas, offset) ==
    LET restantes == SubSeq(horas, offset + 1, Len(horas))
        hayMas == Len(restantes) > MAX_FILAS
        visibles == Shown(restantes, IF hayMas THEN FILAS_CON_PAGINACION ELSE MAX_FILAS)
    IN  IF restantes = <<>> THEN Text(<<"lleno">>)
        ELSE List([k \in DOMAIN visibles |->
                      [action |-> "reschedule_at", reservationId |-> id, whenYmdHm |-> YmdHm(ymd, visibles[k])]]
                  \o IF hayMas THEN <<DayButton(id, ymd) @@ [offset |-> offset + MAX_FILAS]>> ELSE <<>>)

(* If not all fit, the last row leads to the next ones. *)
ofrecerHoras(id, ymd, horas, offset) ==
    LET restantes == SubSeq(horas, offset + 1, Len(horas))
        hayMas == Len(restantes) > MAX_FILAS
        visibles == Shown(restantes, IF hayMas THEN FILAS_CON_PAGINACION ELSE MAX_FILAS)
    IN  IF restantes = <<>> THEN Text(<<"lleno">>)
        ELSE List([k \in DOMAIN visibles |->
                      [action |-> "reschedule_at", reservationId |-> id, whenYmdHm |-> YmdHm(ymd, visibles[k])]]
                  \o IF hayMas THEN <<DayButton(id, ymd) @@ [offset |-> offset + FILAS_CON_PAGINACION]>> ELSE <<>>)

(* Pressing a row that asks for the hours of a day. *)
pressed(payload, horas) ==
    ofrecerHoras(payload.reservationId, payload.dateYmd, horas,
                 IF "offset" \in DOMAIN payload THEN payload.offset ELSE 0)

-----------------------------------------------------------------------------
(* An answer of the assistant. *)

Blank == {" ", "\n"}
TrimStart(t) == LET k == SelectInSeq(t, LAMBDA c : c \notin Blank)
                IN  IF k = 0 THEN <<>> ELSE SubSeq(t, k, Len(t))
TrimEnd(t) == SubSeq(t, 1, SelectLastInSeq(t, LAMBDA c : c \notin Blank))

RECURSIVE Parts(_)
Parts(resto) ==
    IF Len(resto) <= MAX_TEXTO THEN IF resto = <<>> THEN <<>> ELSE <<resto>>
    ELSE LET corte == SelectLastInSeq(SubSeq(resto, 1, MAX_TEXTO + 1), LAMBDA c : c \in Blank) - 1
             donde == IF corte > 0 THEN corte ELSE MAX_TEXTO
         IN  <<TrimEnd(SubSeq(resto, 1, donde))>> \o Parts(TrimStart(SubSeq(resto, donde + 1, Len(resto))))

partirTexto(texto) == Parts(TrimStart(TrimEnd(texto)))

(* The buttons of a proposal; a card of the portal has none here.          *)
mensajeDeConfirmacion(p) ==
    CASE p.tipo = "confirmar-reserva" ->
            <<Buttons(<<BookingButton("book_ok", p.propuestaId), BookingButton("book_no", p.propuestaId)>>)>>
      [] p.tipo = "confirmar-cancelacion" -> <<pedirConfirmacionDeCancelar(p.reservaId)>>
      [] p.tipo = "confirmar-cambio" ->
            <<Buttons(<<[action |-> "reschedule_at", reservationId |-> p.reservaId, whenYmdHm |-> p.cuandoLocal],
                        [action |-> "noop"]>>)>>
      [] OTHER -> <<>>

(* Of the proposals of a booking only the last has buttons: the others are dead. *)
conBotones(presentaciones) ==
    LET ultima == SelectLastInSeq(presentaciones, LAMBDA p : p.tipo = "confirmar-reserva")
        vivas == [k \in DOMAIN presentaciones |->
                    IF presentaciones[k].tipo = "confirmar-reserva" /\ k # ultima THEN <<>> ELSE <<presentaciones[k]>>]
    IN  FlattenSeq(vivas)

fotoDelServicio(presentaciones) ==
    LET listas == SelectSeq(presentaciones, LAMBDA p : p.tipo = "servicios")
        foto == IF Len(listas) = 1 /\ Len(listas[1].imagenes) = 1
                THEN toWhatsAppImageUrl(listas[1].imagenes[1]) ELSE NoUrl
    IN  IF foto = NoUrl THEN <<>> ELSE <<Image(foto)>>

SIN_RESPUESTA == <<"?">>

mensajesDeLaRespuesta(reply, presentaciones, aviso) ==
    LET partes == partirTexto(reply)
        vivas == conBotones(presentaciones)
        botones == FlattenSeq([k \in DOMAIN vivas |-> mensajeDeConfirmacion(vivas[k])])
        dicho == IF partes = <<>> /\ botones = <<>> THEN <<SIN_RESPUESTA>> ELSE partes
    IN  (IF aviso THEN <<Text(<<"!">>)>> ELSE <<>>)
        \o [k \in DOMAIN dicho |-> Text(dicho[k])]
        \o fotoDelServicio(presentaciones)
        \o botones

-----------------------------------------------------------------------------
(***************************************************************************)
(* What the channel sends comes back as what it meant, whatever the payload, *)
(* and what it reads as an action of its own is written in the payload: the  *)
(* same action on the same visit or booking and the same date, with no part  *)
(* more or less; only the offset may be written in another way.  The one      *)
(* other thing it reads is a name every object has, for which the handler    *)
(* has no case.                                                             *)
(***************************************************************************)
PayloadsKeepTheirMeaning(partes) ==
    LET p == parseButtonPayload(partes)
        sent == encodeButtonPayload(p)
    IN  \/ p = Unread
        \/ p.action \notin DOMAIN CODIGOS /\ p.action = partes[1] /\ p.action \in Inherited
        \/ /\ p.action \in DOMAIN CODIGOS
           /\ parseButtonPayload(sent) = p
           /\ Len(sent) = Len(partes)
           /\ \A k \in DOMAIN sent : sent[k] = partes[k] \/ k = 4

ButtonsOf(m) == IF m.kind \in {"interactive-buttons", "interactive-list"}
                THEN [k \in DOMAIN m.ids |-> parseButtonPayload(m.ids[k])] ELSE <<>>
Sendable(m) == /\ MetaTakes(m) /\ ~toGraphPayloadThrows(m)
               /\ \A k \in DOMAIN ButtonsOf(m) : ButtonsOf(m)[k] # Unread

(* The lists a client who asks for more goes through, the agenda being     *)
(* `horas` when she opens the day and `luego` for every list after it.     *)
RECURSIVE PagesFrom(_, _)
PagesFrom(m, luego) ==
    LET last == Last(ButtonsOf(m))
    IN  IF ButtonsOf(m) # <<>> /\ last.action = "reschedule_day"
        THEN <<m>> \o PagesFrom(pressed(last, luego), luego) ELSE <<m>>

HoursOf(m) == {b.whenYmdHm : b \in {x \in ToSet(ButtonsOf(m)) : x.action = "reschedule_at"}}

(***************************************************************************)
(* Every list can be sent, and the client who reads to the end of a day     *)
(* finds each of its free hours, once; if hours were taken meanwhile, she    *)
(* misses no more hours than were taken, and is never shown, after the       *)
(* first list, one that is not free any more.                               *)
(***************************************************************************)
EveryHourIsOffered(id, ymd, horas, luego) ==
    LET pages == PagesFrom(pressed(DayButton(id, ymd), horas), luego)
        seen == UNION {HoursOf(pages[k]) : k \in DOMAIN pages}
        free(h) == {YmdHm(ymd, h[k]) : k \in DOMAIN h}
    IN  /\ \A k \in DOMAIN pages : Sendable(pages[k])
        /\ \A i, j \in DOMAIN pages : i # j => HoursOf(pages[i]) \intersect HoursOf(pages[j]) = {}
        /\ Cardinality(free(luego) \ seen) <= Cardinality(free(horas) \ free(luego))
        /\ UNION {HoursOf(pages[k]) : k \in 2 .. Len(pages)} \subseteq free(luego)

(***************************************************************************)
(* The questions about a visit, its days and a client's visits can be sent, *)
(* and each of their buttons is about that visit.                          *)
(***************************************************************************)
QuestionsAreSendable(citas, dias, esDuena) ==
    /\ Sendable(ofrecerSusCitas(citas, esDuena))
    /\ \A b \in ToSet(ButtonsOf(ofrecerSusCitas(citas, esDuena))) : b.reservationId \in ToSet(citas)
    /\ \A id \in ToSet(citas) :
          \A m \in {mostrarOpciones(id, esDuena), pedirConfirmacionDeCancelar(id), ofrecerDias(id, dias)} :
              /\ Sendable(m)
              /\ \A b \in ToSet(ButtonsOf(m)) : b.action = "noop" \/ b.reservationId = id

Visible(t) == SelectSeq(t, LAMBDA c : c \notin Blank)
Proposes(p) == p.tipo \in {"confirmar-reserva", "confirmar-cancelacion", "confirmar-cambio"}

(***************************************************************************)
(* An answer loses nothing on its way: it says something besides the legal  *)
(* notice; its text arrives whole, in pieces Meta takes, no word that fits  *)
(* is cut; every question of the turn has its buttons, after all the rest,  *)
(* but of several proposed bookings only the last, the one still alive.     *)
(***************************************************************************)
AnswersAreComplete(reply, presentaciones, aviso) ==
    LET ms == mensajesDeLaRespuesta(reply, presentaciones, aviso)
        texts == SelectSeq(ms, LAMBDA m : m.kind = "text")
        said == IF aviso THEN Tail(texts) ELSE texts
        asked == SelectSeq(ms, LAMBDA m : m.kind = "interactive-buttons")
        bookings == SelectSeq(presentaciones, LAMBDA p : p.tipo = "confirmar-reserva")
        others == SelectSeq(presentaciones, LAMBDA p : Proposes(p) /\ p.tipo # "confirmar-reserva")
        offered == SelectSeq(asked, LAMBDA m : ButtonsOf(m)[1].action = "book_ok")
    IN  /\ \A k \in DOMAIN ms : Sendable(ms[k])
        /\ said # <<>> \/ asked # <<>>
        /\ Visible(reply) # <<>> => Visible(FlattenSeq([k \in DOMAIN said |-> said[k].body])) = Visible(reply)
        /\ \A k \in 1 .. Len(said) - 1 :
              \/ Len(said[k].body) = MAX_TEXTO /\ \A i \in 1 .. MAX_TEXTO : said[k].body[i] \notin Blank
              \/ \E i \in 1 .. Len(reply) - 1 :
                    /\ reply[i] \in Blank
                    /\ Len(Visible(SubSeq(reply, 1, i))) =
                          Len(Visible(FlattenSeq([j \in 1 .. k |-> said[j].body])))
        /\ \A i, j \in DOMAIN ms : i < j /\ ms[i].kind = "interactive-buttons" => ms[j].kind = "interactive-buttons"
        /\ IF bookings = <<>> THEN offered = <<>>
           ELSE Len(offered) = 1 /\ ButtonsOf(offered[1])[1].bookingId = Last(bookings).propuestaId
        /\ Len(asked) - Len(offered) = Len(others)
        /\ \A u \in {m.link : m \in {x \in ToSet(ms) : x.kind = "image"}} : toWhatsAppImageUrl(u) = u
=============================================================================
