------------------------------- MODULE MCOffice -------------------------------
(***************************************************************************)
(* The rest of the backend on one instance each: the assistant's tools, the *)
(* board of questions, the catalogue, the staff, and the parts that keep no *)
(* state of their own and only answer questions (the calendar, the          *)
(* availability, the judges, the search, the errors, the messages, the      *)
(* notices). They share no state, so a behaviour visits one of them: `desk` *)
(* is which.                                                                *)
(***************************************************************************)
EXTENDS AssistantTools, FaqBoard, CatalogueDesk, StaffDesk, TLC

VARIABLES
    desk,
    question        \* the one that is asked, of the parts that keep no state

Symmetry == Permutations(Clerks) \union Permutations(Actors)

-----------------------------------------------------------------------------
(* The assistant's tools: a client with a session, an administrator, two    *)
(* mobiles, a foreign number and the salon's own.                           *)

Call(tool, args) == [tool |-> tool, args |-> args]

\* What the model may ask for in a round: alone, twice in another order,
\* without an argument, or on a visit of somebody else.
AskedFor ==
    LET book == Call("crearReserva", <<<<"fechaHoraIso", 3>>, <<"serviciosIds", 1>>>>)
        again == Call("crearReserva", <<<<"serviciosIds", 1>>, <<"fechaHoraIso", 3>>>>)
        pack == Call("reservarPaquete", <<<<"fechaHoraIso", 2>>, <<"serviciosIds", 2>>>>)
    IN  {<<book, again, pack>>, <<again>>,
         <<Call("crearReserva", <<<<"nombre", 1>>, <<"fechaHoraIso", 2>>, <<"serviciosIds", 1>>>>)>>,
         <<Call("cancelarReserva", <<<<"reservaId", 1>>>>), Call("misReservas", <<>>)>>,
         <<Call("reprogramarReserva", <<<<"reservaId", 2>>, <<"nuevaFecha", 1>>>>)>>,
         <<Call("confirmarReserva", <<<<"reservaId", 2>>>>), Call("verAgenda", <<>>)>>,
         <<Call("hablarConLaDuena", <<<<"motivo", 1>>>>)>>,
         <<Call("hablarConLaDuena", <<>>), Call("listarServicios", <<>>)>>}

BookedBefore ==
    <<[user |-> "ana", phone |-> "none", slot |-> 1, state |-> "pendiente"],
      [user |-> "none", phone |-> "p1", slot |-> 2, state |-> "pendiente"]>>

Context(channel, user, phone, admin, permits) ==
    [channel |-> channel, user |-> user, phone |-> phone, admin |-> admin,
     conversation |-> FALSE, permits |-> permits]

\* Who may ask; on WhatsApp the adapter may claim the owner's role for anyone.
Contexts ==
    {Context("web", "ana", "none", FALSE, TRUE), Context("web", "ana", "none", FALSE, FALSE),
     Context("web", "none", "none", FALSE, TRUE), Context("web", "adm", "none", TRUE, TRUE),
     Context("mcp", "none", "none", FALSE, TRUE), Context("mcp", "ana", "none", FALSE, FALSE),
     Context("whatsapp", "none", "p1", FALSE, TRUE), Context("whatsapp", "none", "p1", TRUE, TRUE),
     Context("whatsapp", "none", "p2", FALSE, TRUE), Context("whatsapp", "none", "boss", TRUE, TRUE),
     Context("whatsapp", "none", "fx", FALSE, TRUE)}

-----------------------------------------------------------------------------
(* The board: two questions created before orders were given, with the      *)
(* same order, one more that may come, two administrators.                  *)

OldestOrders == <<0, 0>>

-----------------------------------------------------------------------------
(* The catalogue: one name a service may take by hand, two the script       *)
(* inserts, three images. The staff starts from an empty table.             *)

TagNames == {"Género", "Mujer", "Uñas"}
GenderTag == "Género"

ResolvedServices ==
    <<[name |-> "corte", tags |-> {"Mujer", "Uñas"}], [name |-> "pies", tags |-> {"Uñas", "Mujer"}]>>

SeededTree ==
    <<[tag |-> GenderTag, parent |-> "none"], [tag |-> "Mujer", parent |-> "Género"],
      [tag |-> "Uñas", parent |-> "none"]>>

Image(image, principal) == [image |-> image, principal |-> principal]

ListedImages ==
    {<<>>, <<Image("i1", FALSE)>>, <<Image("i1", FALSE), Image("i2", TRUE)>>,
     <<Image("i3", TRUE)>>, <<Image("i2", TRUE), Image("i3", TRUE)>>}

-----------------------------------------------------------------------------
(* The questions. *)

\* Five hours behind UTC, as in Bogotá; four for a time, so that the salon's
\* clock jumps forth and back as in a zone with summer time.
Offset(instant) == IF instant >= 30000000 /\ instant < 30100000 THEN -240 ELSE -300

Calendar == INSTANCE Availability WITH
    OffsetAt <- Offset, DefaultWorker <- "none", Fallback <- 3

\* A Friday, and the instants at which the salon's clock shows a time of it.
Day == <<2026, 10, 23>>
At(h, min) == Calendar!DateUTC(Day) * 1440 + 300 + 60 * h + min

\* A quarter to nine of it, and after closing; the evening before, with no time
\* left for a long visit; the day after; and the first day it may be asked
\* about, and the last one it may not.
Morning == At(8, 45)
Clocks ==
    {Morning, At(20, 30), At(18, 40) - 1440, At(10, 0) + 1440,
     At(10, 0) - 90 * 1440, At(23, 59) - 91 * 1440}

Slot(worker, from, minutes, status) ==
    [worker |-> worker, date |-> Day, startMin |-> from, duration |-> minutes, status |-> status]

\* The visits of one stylist that a day may hold: none, one, or two apart.
Visits(worker) ==
    LET blocks == {<<480, 30>>, <<510, 60>>, <<570, 45>>, <<525, 60>>}
    IN  {{Slot(worker, b[1], b[2], "pendiente") : b \in day} :
            day \in {d \in SUBSET blocks :
                        /\ Cardinality(d) <= 2
                        /\ \A b, c \in d : b = c \/ b[1] + b[2] <= c[1] \/ c[1] + c[2] <= b[1]}}

AgendaQuestions ==
    LET ofNobody == {{}, {Slot("none", 520, 20, "cancelada")}, {Slot("none", 520, 20, "pendiente")}}
    IN  [kind : {"agenda"}, ana : Visits("ana"),
         bea : {{}, {Slot("bea", 510, 60, "confirmada")}, {Slot("bea", 525, 60, "cancelada")}},
         nobody : ofNobody, staff : {{"ana", "bea"}}, now : Clocks]
        \union [kind : {"agenda"}, ana : {{}}, bea : {{}}, nobody : ofNobody, staff : {{}}, now : Clocks]

YearQuestions == [kind : {"year"}, year : 2024..2063]

ClockQuestions ==
    [kind : {"clock"}, now : {29999999, 30000000, 30099999, 30100030, Morning, Morning + 900}]

Noul(value) == [type |-> "noul", noul |-> value, choice |-> ""]
Choice(value) == [type |-> "choice", noul |-> 0, choice |-> value]

\* A list of two, so that most searches leave something out.
Search == INSTANCE Catalogue WITH
    Identifiers <- {"u1", "u2"}, MAX_RESULTS <- 2, PALABRAS_VACIAS <- {"quiero", "para"}

\* What the judge's provider may come back with: nothing, a refusal, numbers
\* in and out of range or not numbers, answers to some of what was asked.
JudgeReplies ==
    LET values == {0, 3, 5, 8, Search!NotANumber, Search!NullValue}
        some == UNION {[asked -> {Noul(v) : v \in values}] :
                          asked \in {{}, {"r0", "r1"}, {"r0", "r1", "r2"}}}
        about == {[i \in {"correspondencia", "progreso"} |-> Noul(v)] : v \in values}
        kinds == {[i \in {"intencion", "resuelta"} |->
                      IF i = "intencion" THEN Choice(c) ELSE Noul(4)] : c \in {"reservar", "zzz"}}
    IN  {[kind |-> k, status |-> 0, answers |-> <<>>] : k \in {"timeout", "network", "throws"}}
        \union {[kind |-> "answer", status |-> s, answers |-> <<>>] : s \in {401, 404, 429, 500}}
        \union {[kind |-> "answer", status |-> 200, answers |-> a] : a \in some \union about \union kinds}

JudgeQuestions ==
    [kind : {"judge"},
     env : {[reserva |-> m, bucle |-> m, orden |-> m, diferido |-> "on"] :
               m \in {"unset", "off", "shadow", "on", "onn"}},
     hasKey : BOOLEAN, reply : JudgeReplies, asked : {<<>>, <<"A", "B", "C">>},
     trace : {<<>>, <<[tool |-> "a", arguments |-> <<"u1", "x", "u2">>, result |-> "ok"],
                      [tool |-> "b", arguments |-> <<"u2", "u1">>, result |-> "pendiente"]>>}]

Service(id, price, categories, named, tagged) ==
    [id |-> id, price |-> price, minutes |-> 30, tags |-> categories, named |-> named,
     tagged |-> tagged, promotion |-> IF id = 2 THEN 10 ELSE 0,
     images |-> Search!selectPrincipalImage(
                   <<[principal |-> FALSE, blank |-> id = 1], [principal |-> id = 2, blank |-> FALSE]>>)]

Services ==
    {Service(1, 2000, {"Recogidos", "Manicure", "Mujer"}, {"corte", "mechas"}, {"manicure"}),
     Service(2, 3000, {"Novia", "Manicure", "Unisex"}, {"corte"}, {"manicure", "unas"}),
     Service(3, 4000, {"Manicure", "Hombre"}, {"unas", "corte"}, {"manicure"}),
     Service(4, 2000, {"Pedicure", "Recogidos", "Mujer"}, {"mechas"}, {"pedicure"}),
     Service(5, 5000, {"Manicure", "Quinceañera", "Niños"}, {"corte", "manicure"}, {"manicure"})}

Caps == {[kind |-> "none", n |-> 0], [kind |-> "number", n |-> 4000], [kind |-> "numeral", n |-> 9000]}

SearchQuestions ==
    [kind : {"search"}, catalogue : {s \in SUBSET Services : Cardinality(s) > 2}, cap : Caps,
     text : {<<>>, <<"corte">>, <<"unas", "mechas">>, <<"quiero", "unas">>,
             <<"corte", "de", "hombre", "barato">>, <<"manicure", "mujer", "hombre">>,
             <<"manicure", "barata">>, <<"manicure">>},
     gender : {"", "mujer"}, event : {"boda", "grado", "fiesta"},
     reply : {[kind |-> "timeout", status |-> 0, answers |-> <<>>],
              [kind |-> "answer", status |-> 200,
               answers |-> [i \in {"r0"} |-> Noul(2)] @@ [i \in {"r1"} |-> Noul(8)]]}]

Page == [tags |-> {"Manicure", "Mujer"}, range |-> TRUE, min |-> 2, max |-> 3,
         promotions |-> FALSE, page |-> 1, limit |-> 2]

ErrorQuestions == [kind : {"error"}, error : Errors]

-----------------------------------------------------------------------------
(* Messages and notices. *)

HourNames == [k \in 1..24 |-> ToString(100 + k)]
FirstIds(letter, n) == [k \in 1..n |-> letter \o ToString(k)]
RangeOf(s) == {s[i] : i \in DOMAIN s}

Said == INSTANCE Notices WITH
    Uuids <- RangeOf(FirstIds("r", 12)) \union RangeOf(FirstIds("p", 2)),
    Ymds <- RangeOf(FirstIds("d", 12)), Hhmms <- HourNames, Versions <- {"v1"},
    MAX_TEXTO <- 3, MAX_FILAS <- 10, FILAS_CON_PAGINACION <- 9, Mobiles <- {"m1", "m2"}

Url(path, ext) ==
    [url |-> TRUE, https |-> TRUE, host |-> "res.cloudinary.com", path |-> path, ext |-> ext]

Good == Url(<<"n", "image", "upload", "v1", "a">>, "webp")
Other == [Url(<<"x", "a">>, "jpg") EXCEPT !.host = "otro"]

Urls ==
    {Said!NoUrl, Good, Other, Url(<<"n", "image", "upload", "w_300", "v1", "a">>, "jpg"),
     Url(<<"n", "image", "upload", "dir", "a">>, "png"), Url(<<"n", "image", "upload">>, ""),
     [Other EXCEPT !.https = FALSE]}

Cards ==
    {[tipo |-> "paquete"], [tipo |-> "servicios", imagenes |-> <<>>],
     [tipo |-> "confirmar-cancelacion", reservaId |-> "r1"],
     [tipo |-> "confirmar-cambio", reservaId |-> "r1", cuandoLocal |-> Said!YmdHm("d1", "101")]}
    \union {[tipo |-> "confirmar-reserva", propuestaId |-> p] : p \in {"p1", "p2"}}
    \union {[tipo |-> "servicios", imagenes |-> <<u>>] : u \in Urls}

Upto(S, n) == UNION {[1..k -> S] : k \in 0..n}

AnswerQuestions ==
    [kind : {"answer"}, reply : Upto({"a", " "}, 9) \union Upto({"a", " ", "\n"}, 5),
     cards : {<<>>}, notice : BOOLEAN]
    \union [kind : {"answer"}, reply : {<<>>, <<"a">>}, cards : Upto(Cards, 3), notice : {TRUE}]

PayloadQuestions ==
    LET words == {"r1", "d1", "d1T101", "9", "09", "1e1", "-1", "", "HOLA"}
    IN  [kind : {"payload"},
         parts : {<<code>> \o rest : code \in {"RSDAY", "RSAT", "RESV", "BOOK_OK", "NOOP", "HOLA", "constructor", ""},
                                    rest \in Upto(words, 3)}
                 \union {<<"RSDAY", "r1", "d1", "9", word>> : word \in words}]

HoursQuestions ==
    UNION {[kind : {"hours"}, n : {n}, taken : SUBSET ({1, 3, 9, 10, 11, 19} \intersect 1..n)] :
              n \in 0..24}

ListQuestions == [kind : {"lists"}, visits : 0..12, days : 0..12, owner : BOOLEAN]

Sockets == [token : {"valid", "none"}, active : BOOLEAN, admin : BOOLEAN]

Environments ==
    [mail : {"console", "no key", "resend"}, whatsapp : {"console", "cloud", "no number"},
     templates : {Said!Types, {}}, ownerTemplate : BOOLEAN, ownerPhone : {"m1", ""},
     fallback : {Said!NoUrl, Good, Other}, down : SUBSET {"correo", "whatsapp"}, panels : {{}}]
    \union
    [mail : {"resend"}, whatsapp : {"cloud"}, templates : {Said!Types}, ownerTemplate : {TRUE},
     ownerPhone : {"m1"}, fallback : {Good}, down : {{}},
     panels : {p \in SUBSET Sockets : Cardinality(p) < 3}]

Changes ==
    {c \in [type : Said!Types, id : {"r1"}, byAdmin : BOOLEAN, workerChanged : BOOLEAN,
            phone : {"m2", "fijo"}, pictures : {<<>>, <<<<>>, <<Other, Good>>>>},
            broken : {"none", "name", "pictures"}] :
        /\ c.type = "confirmed" => c.byAdmin
        /\ c.workerChanged => c.type = "rescheduled"
        /\ c.type # "created" => c.pictures = <<>>}

NoticeQuestions == [kind : {"notice"}, change : Changes, env : Environments]

-----------------------------------------------------------------------------
QuestionKinds ==
    {"agenda", "year", "clock", "judge", "search", "error", "answer", "payload", "hours",
     "lists", "notice"}

Ask ==
    /\ \/ question.kind = "agenda?" /\ question' \in AgendaQuestions
       \/ question.kind = "year?" /\ question' \in YearQuestions
       \/ question.kind = "clock?" /\ question' \in ClockQuestions
       \/ question.kind = "judge?" /\ question' \in JudgeQuestions
       \/ question.kind = "search?" /\ question' \in SearchQuestions
       \/ question.kind = "error?" /\ question' \in ErrorQuestions
       \/ question.kind = "answer?" /\ question' \in AnswerQuestions
       \/ question.kind = "payload?" /\ question' \in PayloadQuestions
       \/ question.kind = "hours?" /\ question' \in HoursQuestions
       \/ question.kind = "lists?" /\ question' \in ListQuestions
       \/ question.kind = "notice?" /\ question' \in NoticeQuestions
    /\ UNCHANGED desk

Init ==
    /\ desk \in {"tools", "faqs", "catalogue", "staff", "questions"}
    /\ IF desk = "questions"
       THEN question \in {[kind |-> k \o "?"] : k \in QuestionKinds}
       ELSE question = [kind |-> "none"]
    /\ ToolsInit /\ FaqInit /\ DeskInit /\ StaffInit

Next ==
    \/ /\ desk = "tools"
       /\ ToolsNext \/ \E ctx \in Contexts : Start(ctx)
       /\ UNCHANGED <<desk, question, faqVars, deskVars, staffVars>>
    \/ /\ desk = "faqs"
       /\ FaqNext
       /\ UNCHANGED <<desk, question, toolVars, deskVars, staffVars>>
    \/ /\ desk = "catalogue"
       /\ DeskNext
       /\ UNCHANGED <<desk, question, toolVars, faqVars, staffVars>>
    \/ /\ desk = "staff"
       /\ StaffNext
       /\ UNCHANGED <<desk, question, toolVars, faqVars, deskVars>>
    \/ Ask /\ UNCHANGED <<toolVars, faqVars, deskVars, staffVars>>

Spec == Init /\ [][Next]_<<desk, question, toolVars, faqVars, deskVars, staffVars>>

ASSUME ToolsAssumption
ASSUME \A ctx \in Contexts : IsContext(ctx)
ASSUME FaqAssumption
ASSUME DeskAssumption
ASSUME StaffAssumption
ASSUME Said!MessagesAssumption

-----------------------------------------------------------------------------
(* Every view of the agenda agrees with every other one and with what a     *)
(* booking is checked against; the holidays are those of the law; and the   *)
(* salon's clock and the instants agree.                                    *)
TimeAgrees(q) ==
    /\ q.kind = "agenda" =>
          Calendar!AgendasAgree(Day, q.ana \union q.bea \union q.nobody, q.staff, q.now)
    /\ q.kind = "year" => Calendar!HolidaysAreRight(q.year)
    /\ q.kind = "clock" => Calendar!ClockIsRight(q.now)

SalonTimeAgrees == [][TimeAgrees(question')]_question

(* A search answers what was asked for, in an order that does not depend on *)
(* the judge's whims, and a package adds up.                                *)
SearchIsRight(q) ==
    q.kind = "search" =>
        /\ Search!SearchKeepsItsWord(
              q.catalogue, [text |-> q.text, gender |-> q.gender, cap |-> q.cap], q.reply, Page)
        /\ Search!PackagesAddUp(q.catalogue, q.event, q.cap)

SearchKeepsItsWord == [][SearchIsRight(question')]_question

(* Whatever the judge answers, the turn goes on, and a judge that is off or *)
(* in shadow decides nothing.                                               *)
AdviceIsRight(q) ==
    q.kind = "judge" =>
        Search!JudgesOnlyAdvise(q.env, q.hasKey, q.reply, q.asked,
                                <<[role |-> "client", text |-> "x"]>>, q.trace)

JudgesOnlyAdvise == [][AdviceIsRight(question')]_question

(* What the salon says keeps its meaning on the way: an error through each  *)
(* edge, a button's payload, a list's pages, an answer cut to WhatsApp's    *)
(* limits, and a change through each channel of notice.                     *)
WordsAreRight(q) ==
    /\ q.kind = "error" => ErrorsKeepTheirMeaning(q.error)
    /\ q.kind = "payload" => Said!PayloadsKeepTheirMeaning(q.parts)
    /\ q.kind = "hours" =>
          LET at(n) == SubSeq(HourNames, 1, n)
          IN  Said!EveryHourIsOffered("r1", "d1", at(q.n),
                 SelectSeq(at(q.n), LAMBDA h : h \notin {HourNames[k] : k \in q.taken}))
    /\ q.kind = "lists" =>
          Said!QuestionsAreSendable(FirstIds("r", q.visits), FirstIds("d", q.days), q.owner)
    /\ q.kind = "answer" => Said!AnswersAreComplete(q.reply, q.cards, q.notice)
    /\ q.kind = "notice" => Said!NoticesAreTold(q.change, q.env)

WordsKeepTheirMeaning == [][WordsAreRight(question')]_question
=============================================================================
