------------------------------- MODULE Notices -------------------------------
(***************************************************************************)
(* Who is told of a change to a reservation, and what: the use cases' call *)
(* to ReservationNotifierAdapter, the dispatcher, its four notifiers and   *)
(* the senders under them, as the environment variables set them up.       *)
(*                                                                         *)
(* A change is [type, id, byAdmin, workerChanged, phone, pictures, broken]:*)
(* the pictures of each of its services in order, principal first, and     *)
(* which of the two readings fails.  An environment is [mail, whatsapp,    *)
(* templates, ownerTemplate, ownerPhone, fallback, down, panels].          *)
(***************************************************************************)
EXTENDS Messages

CONSTANTS Mobiles        \* what normalizeCoPhoneToE164 does not refuse

Types == {"created", "cancelled", "rescheduled", "confirmed"}
Channels == <<"correo", "websocket", "whatsapp", "whatsapp-duena">>
Nothing == [kind |-> "nothing"]
NoTemplate == ""

-----------------------------------------------------------------------------
(* The environment. *)

imagenDeRespaldo(raw) ==
    CASE toWhatsAppImageUrl(raw) # NoUrl -> toWhatsAppImageUrl(raw)
      [] toWhatsAppImageUrl(raw) = NoUrl /\ raw.https /\ raw.ext \in {"jpg", "jpeg", "png"} -> raw
      [] OTHER -> NoUrl

(* A transport takes a message or throws.                                  *)
MailFails(env) ==
    /\ env.mail # "console"
    /\ env.mail \in {"no key", "no from"} \/ "correo" \in env.down

WhatsAppFails(env, m) ==
    /\ env.whatsapp # "console"
    /\ env.whatsapp = "no number" \/ toGraphPayloadThrows(m) \/ "whatsapp" \in env.down

(* A socket joins the room of the panel if its token is an active administrator's. *)
handleConnection(socket) == socket.token = "valid" /\ socket.active /\ socket.admin

-----------------------------------------------------------------------------
(* The event. *)

pickNotificationImage(pictures) ==
    LET urls == FlattenSeq(pictures)
        good == SelectInSeq(urls, LAMBDA u : toWhatsAppImageUrl(u) # NoUrl)
    IN  IF good = 0 THEN NoUrl ELSE toWhatsAppImageUrl(urls[good])

imagenDelAviso(change) == IF change.broken = "pictures" THEN NoUrl ELSE pickNotificationImage(change.pictures)

EventOf(change) ==
    [type |-> change.type, reservationId |-> change.id, byAdmin |-> change.byAdmin,
     workerChanged |-> change.workerChanged, phone |-> change.phone,
     image |-> IF change.type = "created" THEN imagenDelAviso(change) ELSE NoUrl]

-----------------------------------------------------------------------------
(* The notifiers: what each sends. *)

Template(name, header, payloads) ==
    [kind |-> "template", template |-> name, header |-> header,
     ids |-> [k \in DOMAIN payloads |-> encodeButtonPayload(payloads[k])]]

redactar(event) ==
    [kind |-> "mail", subject |-> event.type,
     who |-> IF event.type \in {"cancelled", "rescheduled"} THEN event.byAdmin ELSE TRUE]

emitted(event, env) ==
    IF \E s \in env.panels : handleConnection(s) THEN [kind |-> "event", type |-> event.type] ELSE Nothing

(* The client is told of what she did not do herself, and of a change of stylist. *)
clientNotice(event, env) ==
    LET fallback == imagenDeRespaldo(env.fallback)
        header == IF event.type # "created" \/ fallback = NoUrl THEN NoUrl
                  ELSE IF event.image # NoUrl THEN event.image ELSE fallback
        buttons == IF event.type = "created"
                   THEN <<VisitButton("cancel", event.reservationId), VisitButton("reschedule", event.reservationId)>>
                   ELSE <<>>
        silent == \/ event.phone \notin Mobiles
                  \/ event.type = "cancelled" /\ ~event.byAdmin
                  \/ event.type = "rescheduled" /\ ~event.byAdmin /\ ~event.workerChanged
    IN  IF silent THEN Nothing
        ELSE Template(IF event.type \in env.templates THEN event.type ELSE NoTemplate, header, buttons)

botones(event) ==
    IF event.type \in {"cancelled", "confirmed"} THEN <<>>
    ELSE [k \in 1 .. 3 |-> VisitButton(<<"confirm", "cancel", "reschedule">>[k], event.reservationId)]

ownerNotice(event, env) ==
    IF env.ownerPhone \notin Mobiles \/ ~env.ownerTemplate THEN Nothing
    ELSE Template("owner", NoUrl, botones(event))

(* Promise.allSettled: each channel by itself, and what one throws is only logged. *)
notify(event, env) ==
    LET sent == [c \in ToSet(Channels) |->
                    CASE c = "correo" -> redactar(event)
                      [] c = "websocket" -> emitted(event, env)
                      [] c = "whatsapp" -> clientNotice(event, env)
                      [] c = "whatsapp-duena" -> ownerNotice(event, env)]
        failed == {c \in ToSet(Channels) :
                    /\ sent[c] # Nothing
                    /\ \/ c = "correo" /\ MailFails(env)
                       \/ c \in {"whatsapp", "whatsapp-duena"} /\ WhatsAppFails(env, sent[c])}
    IN  [c \in ToSet(Channels) |-> IF c \in failed THEN Nothing ELSE sent[c]]

(* The name of the stylist is read first: if it cannot be, nobody is told. *)
Told(change, env) ==
    IF change.broken = "name" THEN [c \in ToSet(Channels) |-> Nothing] ELSE notify(EventOf(change), env)

-----------------------------------------------------------------------------
(* What of a visit is settled without the client: what the salon decides,  *)
(* and the stylist, who is given out again when a visit is moved.          *)
UnknownToHer(change) ==
    (IF change.byAdmin \/ change.type \in {"created", "confirmed"} THEN {"visit"} ELSE {})
    \union (IF change.workerChanged THEN {"stylist"} ELSE {})

Working(env) == env.whatsapp # "no number" /\ "whatsapp" \notin env.down

(***************************************************************************)
(* Nobody is left not knowing what she must, and nobody is bothered with    *)
(* what she did.  A client with a mobile hears exactly of the changes that   *)
(* settled something without her, if WhatsApp works and Meta approved the    *)
(* template; a channel that is down or not configured never silences        *)
(* another; the buttons of a notice are about its visit; a header goes with *)
(* the notice of a new visit if and only if the salon's template has one,    *)
(* and it is a picture Meta can show; only an administrator's panel hears.   *)
(* Pictures that cannot be read silence nobody; a stylist's name that cannot *)
(* be read silences everybody, and is all that does.                        *)
(***************************************************************************)
NoticesAreTold(change, env) ==
    LET told == Told(change, env)
        alone(c) == Told(change, [env EXCEPT !.down = IF c \in {"correo", "whatsapp"} THEN @ \intersect {c}
                                                        ELSE @ \ {"correo"},
                                             !.mail = IF c = "correo" THEN @ ELSE "console"])[c]
        hers == told["whatsapp"]
    IN  /\ \A c \in ToSet(Channels) : told[c] = alone(c)
        /\ IF change.broken = "name" THEN \A c \in ToSet(Channels) : told[c] = Nothing
           ELSE
              /\ (change.phone \in Mobiles /\ Working(env) /\ change.type \in env.templates) =>
                    ((hers # Nothing) <=> (UnknownToHer(change) # {}))
              /\ (env.mail \in {"console", "resend"} /\ "correo" \notin env.down) => told["correo"] # Nothing
              /\ (env.ownerPhone \in Mobiles /\ env.ownerTemplate /\ Working(env)) => told["whatsapp-duena"] # Nothing
              /\ (\E s \in env.panels : s.admin /\ s.active /\ s.token = "valid") <=> (told["websocket"] # Nothing)
        /\ \A c \in {"whatsapp", "whatsapp-duena"} :
              told[c] # Nothing =>
                  \A k \in DOMAIN told[c].ids : parseButtonPayload(told[c].ids[k]).reservationId = change.id
        /\ hers # Nothing =>
              /\ (hers.header # NoUrl) <=> (change.type = "created" /\ imagenDeRespaldo(env.fallback) # NoUrl)
              /\ hers.header # NoUrl => MetaTakesImage(hers.header)
=============================================================================
