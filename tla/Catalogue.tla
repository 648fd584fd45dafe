----------------------------- MODULE Catalogue ------------------------------
(***************************************************************************)
(* The catalogue as it is searched: the filters of the portal               *)
(* (service.service.ts, precio-filtro.ts), the search of the assistant      *)
(* (service-catalog-query.adapter.ts), and the three tools that list,       *)
(* recommend and compose (list-services, recommend-services and             *)
(* compose-package.tool.ts, package-composer.ts).  Pure operators.          *)
(*                                                                         *)
(* A service is [id, price, minutes, tags, named, tagged, promotion,        *)
(* images]: `named' are the words its name contains, `tagged' those the     *)
(* name of one of its tags contains.  Names sort as ids do.  A text is the  *)
(* sequence of its words, folded.                                           *)
(***************************************************************************)
EXTENDS TurnScreening

CONSTANTS MAX_RESULTS,         \* services a search lists at most
          PALABRAS_VACIAS      \* words of a request that say nothing of what is looked for

NoCap == -1           \* undefined: no price limit
Sorted(S, Before(_, _)) == SetToSortSeq(S, Before)
FirstOf(s, n) == SubSeq(s, 1, IF Len(s) < n THEN Len(s) ELSE n)
ByName(s, t) == s.id < t.id
Cheaper(s, t) == s.price < t.price \/ (s.price = t.price /\ s.id < t.id)

(***************************************************************************)
(* Images: one of a service's list is the principal one.                    *)
(***************************************************************************)
selectPrincipalImage(images) ==
    LET marked == SelectInSeq(images, LAMBDA image : image.principal)
    IN  [i \in DOMAIN images |-> [images[i] EXCEPT !.principal = (i = (IF marked = 0 THEN 1 ELSE marked))]]

\* One usable image per service, the principal one before the others.
findPrincipalImages(services) ==
    LET usable(s) == {i \in DOMAIN s.images : ~s.images[i].blank}
        best(s) == {i \in usable(s) : s.images[i].principal}
    IN  [s \in {t \in services : usable(t) # {}} |-> IF best(s) # {} THEN best(s) ELSE usable(s)]

(***************************************************************************)
(* The assistant's search.                                                  *)
(***************************************************************************)
ADJETIVOS_DE_PRECIO == {"barata", "baratas", "barato", "baratos", "economica", "economicas", "economico", "economicos"}
PALABRAS_AMBIGUAS == {"unas"}
LONGITUD_MINIMA == 3
GendersOf == [hombre |-> {"Hombre", "Unisex"}, mujer |-> {"Mujer", "Unisex"}, unisex |-> {"Unisex"},
              ninos |-> {"Niños"}, nino |-> {"Niños"}, nina |-> {"Niños"}, ninas |-> {"Niños"}]
etiquetasDeGenero(gender) == IF gender \in DOMAIN GendersOf THEN GendersOf[gender] ELSE {}

pidePrecioAscendente(text) == \E i \in DOMAIN text : text[i] \in ADJETIVOS_DE_PRECIO

analizarBusqueda(text) ==
    LET long == SelectSeq(text, LAMBDA w : Len(w) >= LONGITUD_MINIMA)
        words == ToSet(long)
        genders == SelectSeq(long, LAMBDA w : w \in DOMAIN GendersOf)
        rest == words \ (ADJETIVOS_DE_PRECIO \union DOMAIN GendersOf \union PALABRAS_VACIAS)
    IN  [palabras |-> rest \ PALABRAS_AMBIGUAS, ambiguas |-> rest \intersect PALABRAS_AMBIGUAS,
         genero |-> IF genders = <<>> THEN "" ELSE genders[1],
         porPrecio |-> words \intersect ADJETIVOS_DE_PRECIO # {}]

\* MUTANT of Precedes: the precedence of the name comes before the price that was asked for.
PrecedesByName(words, byPrice, s, t) ==
    LET inName(u) == words \subseteq u.named
    IN  IF inName(s) # inName(t) THEN inName(s) ELSE IF byPrice THEN Cheaper(s, t) ELSE ByName(s, t)

\* The order of a search: what has all the words in its name before what has
\* them in a tag, unless the cheapest was asked for.
Precedes(words, byPrice, s, t) ==
    LET inName(u) == words \subseteq u.named
    IN  IF byPrice THEN Cheaper(s, t) ELSE IF inName(s) # inName(t) THEN inName(s) ELSE ByName(s, t)

ejecutar(services, words, genderTags, cap, byPrice, limit) ==
    LET found == {s \in services : /\ words \subseteq s.named \union s.tagged
                                  /\ (genderTags # {} => s.tags \intersect genderTags # {})
                                  /\ (cap # NoCap => s.price <= cap)}
    IN  FirstOf(Sorted(found, LAMBDA s, t : Precedes(words, byPrice, s, t)), limit)

search(services, criteria, limit) ==
    LET a == analizarBusqueda(criteria.text)
        explicit == etiquetasDeGenero(criteria.gender)
        genderTags == IF explicit # {} THEN explicit ELSE etiquetasDeGenero(a.genero)
        run(words) == ejecutar(services, words, genderTags, criteria.cap, a.porPrecio, limit)
        strict == run(a.palabras \union a.ambiguas)
    IN  IF strict = <<>> /\ a.ambiguas # {} /\ a.palabras # {} THEN run(a.palabras) ELSE strict

groupCandidatesByTag(rows, tags, limit) ==
    [t \in tags |-> FirstOf(Sorted({s \in rows : t \in s.tags}, Cheaper), limit)]
findByTagNames(services, tags, limit) ==
    groupCandidatesByTag({s \in services : s.tags \intersect tags # {}}, tags, limit)

\* A number, a text that reads as one, or nothing.
coerceOptionalNumber(value) == IF value.kind \in {"number", "numeral"} THEN value.n ELSE NoCap

(***************************************************************************)
(* The tools.                                                               *)
(***************************************************************************)
MAX_POR_CATEGORIA == 3
CANDIDATOS_POR_CATEGORIA == 5

\* The cards of what was listed: the same services, with an image if any.
Cards(listed) ==
    LET images == findPrincipalImages(ToSet(listed))
    IN  [i \in DOMAIN listed |-> [service |-> listed[i].id,
                                  image |-> IF listed[i] \in DOMAIN images THEN images[listed[i]] ELSE {}]]

listarServicios(services, args, disponible, reply, mode, conversational) ==
    LET found == search(services, [text |-> args.text, gender |-> args.gender, cap |-> coerceOptionalNumber(args.cap)], MAX_RESULTS)
        query == IF args.text = <<>> THEN "" ELSE "query"
        listed == reordenados(disponible, reply, mode, conversational, found, query, pidePrecioAscendente(args.text))
    IN  [servicios |-> listed, sugerencias |-> listed = <<>>, cards |-> Cards(listed)]

recomendarServicios(services, args) ==
    LET tags == ToSet(args.tags)
        budget == coerceOptionalNumber(args.cap)
        byTag == findByTagNames(services, tags, MAX_POR_CATEGORIA)
        known == {t \in tags : byTag[t] # <<>>}
        offered == [t \in known |-> FirstOf(SelectSeq(byTag[t], LAMBDA s : budget = NoCap \/ s.price <= budget), MAX_POR_CATEGORIA)]
    IN  [ok |-> tags # {}, recomendaciones |-> offered, desconocidas |-> tags \ known,
         cards |-> UNION {ToSet(offered[t]) : t \in known}]

Slot(tag, mandatory) == [categoria |-> tag, obligatoria |-> mandatory]
EVENT_TEMPLATES ==         \* by priority
    [boda |-> <<Slot("Recogidos", TRUE), Slot("Novia", TRUE), Slot("Manicure", FALSE), Slot("Pedicure", FALSE),
                Slot("Cejas y pestañas", FALSE)>>,
     quinceanera |-> <<Slot("Recogidos", TRUE), Slot("Quinceañera", TRUE), Slot("Manicure", FALSE), Slot("Pedicure", FALSE)>>,
     grado |-> <<Slot("Peinados", TRUE), Slot("Social y fotográfico", TRUE), Slot("Manicure", FALSE)>>]

compose(template, byTag, budget) ==
    LET add(p, slot) ==
            LET free == SelectSeq(byTag[slot.categoria], LAMBDA s : \A i \in DOMAIN p.lineas : p.lineas[i].service # s)
                cheapest == CHOOSE s \in ToSet(free) : \A t \in ToSet(free) : ~Cheaper(t, s)
                omit(reason) == [p EXCEPT !.omitidas = @ \union {[categoria |-> slot.categoria, motivo |-> reason]},
                                          !.completa = @ /\ ~slot.obligatoria]
            IN  IF free = <<>> THEN omit("sin_candidatos")
                ELSE IF budget # NoCap /\ cheapest.price > budget - p.total THEN omit("presupuesto_insuficiente")
                ELSE [p EXCEPT !.lineas = Append(@, [service |-> cheapest, categoria |-> slot.categoria]),
                               !.total = @ + cheapest.price, !.minutos = @ + cheapest.minutes]
    IN  FoldLeft(add, [lineas |-> <<>>, total |-> 0, minutos |-> 0, omitidas |-> {}, completa |-> TRUE], template)

NoPackage == [lineas |-> <<>>, total |-> 0, minutos |-> 0, omitidas |-> {}, completa |-> FALSE]
componerPaquete(services, event, budget) ==
    IF event \notin DOMAIN EVENT_TEMPLATES THEN NoPackage
    ELSE LET template == EVENT_TEMPLATES[event]
             tags == {template[i].categoria : i \in DOMAIN template}
         IN  compose(template, findByTagNames(services, tags, CANDIDATOS_POR_CATEGORIA), coerceOptionalNumber(budget))

(***************************************************************************)
(* The portal's filters.                                                    *)
(***************************************************************************)
PESOS_POR_UNIDAD_DE_FILTRO == 1000
rangoEnPesos(min, max) ==
    LET pesos == {min * PESOS_POR_UNIDAD_DE_FILTRO, max * PESOS_POR_UNIDAD_DE_FILTRO}
    IN  [min |-> Min(pesos), max |-> Max(pesos)]

applyFilters(services, f) ==
    LET range == rangoEnPesos(f.min, f.max)
    IN  {s \in services : /\ f.tags \subseteq s.tags
                       /\ (f.range => s.price \in range.min .. range.max)
                       /\ (f.promotions => s.promotion > 0)}

\* One page of what passes the filters, by name from the last, and how many there are.
searchPortal(services, f) ==
    LET all == Sorted(applyFilters(services, f), LAMBDA s, t : ByName(t, s))
        from == (f.page - 1) * f.limit
    IN  <<SubSeq(all, from + 1, Min({Len(all), from + f.limit})), Len(all)>>

(***************************************************************************)
(* A search gives what was asked for and only that.  Whatever is listed     *)
(* costs no more than the client's limit, is for the public she named (the  *)
(* gender argument before the first such word of her text) and has each      *)
(* word that says something in its name or in a tag, an ambiguous word too   *)
(* unless that leaves nothing.  The list is as long as its cap allows and no *)
(* service is in it twice.  When the cap leaves services out, they are no    *)
(* cheaper than any listed if she asked for the cheapest, and else none of   *)
(* them has her words in its name while a listed one only has them in a tag; *)
(* the price order is not undone by a judge.  The portal's pages partition    *)
(* its list.                                                                *)
(***************************************************************************)
SearchKeepsItsWord(services, args, reply, f) ==
    LET result == listarServicios(services, args, TRUE, reply, "on", TRUE)
        listed == result.servicios
        silent == ADJETIVOS_DE_PRECIO \union PALABRAS_VACIAS \union DOMAIN GendersOf \union PALABRAS_AMBIGUAS
        says == {w \in ToSet(args.text) : Len(w) > 2} \ silent
        doubtful == ToSet(args.text) \intersect PALABRAS_AMBIGUAS
        gendered == {i \in DOMAIN args.text : args.text[i] \in DOMAIN GendersOf}
        public == IF args.gender \in DOMAIN GendersOf THEN GendersOf[args.gender]
                  ELSE IF gendered = {} THEN {} ELSE GendersOf[args.text[Min(gendered)]]
        matching(words) == {s \in services : /\ (args.cap.kind # "none" => s.price <= args.cap.n)
                                             /\ (public # {} => s.tags \intersect public # {})
                                             /\ \A w \in words : w \in s.named \/ w \in s.tagged}
        words == IF says # {} /\ matching(says \union doubtful) = {} THEN says ELSE says \union doubtful
        leftOut == matching(words) \ ToSet(listed)
        cheapest == \E w \in ToSet(args.text) : w \in ADJETIVOS_DE_PRECIO
    IN  /\ ToSet(listed) \subseteq matching(words) /\ Cardinality(ToSet(listed)) = Len(listed)
        /\ Len(listed) = Min({MAX_RESULTS, Cardinality(matching(words))})
        /\ result.sugerencias = (matching(words) = {})
        /\ cheapest =>
              /\ \A i, j \in DOMAIN listed : i < j => listed[i].price <= listed[j].price
              /\ \A s \in ToSet(listed), u \in leftOut : s.price <= u.price
        /\ ~cheapest =>
              \A s \in ToSet(listed), u \in leftOut : words \subseteq u.named => words \subseteq s.named
        /\ \A i \in DOMAIN listed :
              LET card == result.cards[i] IN
              /\ card.service = listed[i].id
              /\ \A k \in card.image : ~listed[i].images[k].blank
              /\ \A k \in DOMAIN listed[i].images :
                    listed[i].images[k].principal /\ ~listed[i].images[k].blank => card.image = {k}
        /\ LET pages == {searchPortal(services, [f EXCEPT !.page = p]) : p \in 1..4}
           IN  /\ UNION {ToSet(p[1]) : p \in pages} = applyFilters(services, f)
               /\ MapThenSumSet(LAMBDA p : Len(p[1]), pages) = Cardinality(applyFilters(services, f))
               /\ f.range => searchPortal(services, f) = searchPortal(services, [f EXCEPT !.min = f.max, !.max = f.min])

(***************************************************************************)
(* A package can be paid for and reserved as it is told: no service twice,  *)
(* its total within the budget, complete exactly when every mandatory part  *)
(* is in it; a part is missing for the reason given (every service of that  *)
(* category is already in the package, or none that is not fits in what is  *)
(* left); and a recommendation within a budget shows the cheapest of each   *)
(* category, telling a category that does not exist from one too dear.      *)
(***************************************************************************)
PackagesAddUp(services, event, budget) ==
    LET p == componerPaquete(services, event, budget)
        chosen == {p.lineas[i].service : i \in DOMAIN p.lineas}
        template == IF event \in DOMAIN EVENT_TEMPLATES THEN EVENT_TEMPLATES[event] ELSE <<>>
        covered == {p.lineas[i].categoria : i \in DOMAIN p.lineas}
        tags == {"Manicure", "Recogidos", "Nada"}
        r == recomendarServicios(services, [tags |-> SetToSeq(tags), cap |-> budget])
        fits(s) == budget.kind = "none" \/ s.price <= budget.n
    IN  /\ Cardinality(chosen) = Len(p.lineas)
        /\ p.total = MapThenSumSet(LAMBDA s : s.price, chosen)
        /\ budget.kind # "none" => p.total <= budget.n
        /\ template # <<>> => p.completa = \A i \in DOMAIN template : template[i].obligatoria => template[i].categoria \in covered
        /\ \A o \in p.omitidas :
              LET ofTag == {s \in services : o.categoria \in s.tags} IN
              /\ o.motivo = "sin_candidatos" => ofTag \subseteq chosen
              /\ o.motivo = "presupuesto_insuficiente" =>
                    /\ ofTag \ chosen # {}
                    /\ \A s \in ofTag \ chosen : p.total + s.price > budget.n
        /\ r.desconocidas = {t \in tags : \A s \in services : t \notin s.tags}
        /\ \A t \in tags \ r.desconocidas :
              LET shown == ToSet(r.recomendaciones[t])
                  payable == {s \in services : t \in s.tags /\ fits(s)}
              IN  /\ shown \subseteq payable /\ shown \subseteq r.cards
                  /\ Cardinality(shown) = Min({3, Cardinality(payable)})
                  /\ \A s \in shown, u \in payable \ shown : s.price <= u.price
=============================================================================
