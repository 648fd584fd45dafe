----------------------------- MODULE DomainErrors -----------------------------
(***************************************************************************)
(* The errors the two domains throw and what each edge makes of them: the  *)
(* HTTP filters, the reasons the assistant's tools give the model, and the *)
(* answers of the WhatsApp channel. An edge is a table of (class, answer), *)
(* tried from the top with instanceof: a more general class above a more   *)
(* specific one would swallow it. "Error" is what is not of the domain: a  *)
(* database or network failure.                                            *)
(***************************************************************************)
EXTENDS Integers, Sequences, SequencesExt

ReservationErrors ==
    {"OutOfBusinessHours", "WorkerOverlap", "ReservationNotFound", "InvalidReservation",
     "InvalidStatusTransition", "EmptyServices", "MissingContact", "CancellationTooLate",
     "ReservationInThePast", "DuplicateServices", "ReservationOwnership", "RescheduleTooLate",
     "ReservationNotReschedulable", "WorkerReassignmentNotAllowed"}

AuthErrors ==
    {"InvalidEmail", "InvalidCredentials", "UserNotFound", "EmailAlreadyInUse", "SameEmail",
     "SamePassword", "InactiveUser", "ExpiredAuthToken", "AuthTokenAlreadyUsed",
     "AuthTokenNotFound", "EmailAlreadyVerified", "InvalidRefreshToken",
     "RefreshTokenReuseDetected", "GoogleAccountNotVerified", "DataPolicyConsentRequired"}

(* The class each class extends. *)
Parent ==
    [c \in ReservationErrors |-> "DomainError"]
    @@ [c \in {"ChosenWorkerBusy"} |-> "WorkerOverlap"]
    @@ [c \in AuthErrors |-> "AuthDomainError"]

Errors == DOMAIN Parent \union {"Error"}

(* error instanceof class. *)
Ancestors(error) ==
    LET parent(c) == IF c \in DOMAIN Parent THEN {Parent[c]} ELSE {}
    IN  {error} \union parent(error) \union UNION {parent(c) : c \in parent(error)}

InstanceOf(error, class) == class \in Ancestors(error)

(* What a chain of `if (error instanceof ...) return` answers.             *)
FirstMatch(table, error, otherwise) ==
    LET fits == SelectSeq(table, LAMBDA row : InstanceOf(error, row[1]))
    IN  IF fits = <<>> THEN otherwise ELSE Head(fits)[2]

-----------------------------------------------------------------------------
(* The reasons the tools give the model. *)

ToReason ==
    <<<<"WorkerOverlap", "hora_ocupada">>, <<"OutOfBusinessHours", "fuera_de_horario">>,
      <<"ReservationInThePast", "fecha_pasada">>, <<"DuplicateServices", "servicios_duplicados">>,
      <<"EmptyServices", "sin_servicios">>, <<"MissingContact", "contacto_requerido">>,
      <<"InvalidReservation", "servicio_invalido">>, <<"DomainError", "no_disponible">>>>

mapDomainErrorToReason(error) == FirstMatch(ToReason, error, "error_desconocido")

RescheduleReasons ==
    <<<<"ReservationOwnership", "no_es_tu_reserva">>, <<"ReservationNotFound", "reserva_no_encontrada">>,
      <<"RescheduleTooLate", "fuera_de_plazo">>, <<"ReservationNotReschedulable", "estado_no_movible">>,
      <<"ChosenWorkerBusy", "estilista_ocupada">>, <<"WorkerOverlap", "hora_ocupada">>,
      <<"OutOfBusinessHours", "fuera_de_horario">>, <<"ReservationInThePast", "fecha_pasada">>,
      <<"DomainError", "no_disponible">>>>

mapRescheduleErrorToReason(error) == FirstMatch(RescheduleReasons, error, "error_desconocido")

CancelReasons ==
    <<<<"ReservationOwnership", "no_es_tu_reserva">>, <<"ForbiddenException", "no_es_tu_reserva">>,
      <<"ReservationNotFound", "reserva_no_encontrada">>, <<"CancellationTooLate", "fuera_de_plazo">>,
      <<"InvalidStatusTransition", "estado_no_cancelable">>, <<"DomainError", "no_disponible">>>>

mapCancelErrorToReason(error) == FirstMatch(CancelReasons, error, "error_desconocido")

ConfirmReasons ==
    <<<<"ReservationNotFound", "reserva_no_encontrada">>,
      <<"InvalidStatusTransition", "estado_no_confirmable">>, <<"DomainError", "no_disponible">>>>

mapConfirmErrorToReason(error) == FirstMatch(ConfirmReasons, error, "error_desconocido")

-----------------------------------------------------------------------------
(* The HTTP filters: the status, and the code the portal reads in a 409.   *)

motivoDelConflicto(error) ==
    FirstMatch(<<<<"ChosenWorkerBusy", "estilista_ocupada">>, <<"WorkerOverlap", "hora_ocupada">>>>,
               error, "")

ReservationStatus(error) ==
    FirstMatch(<<<<"WorkerOverlap", 409>>, <<"CancellationTooLate", 409>>,
                 <<"ReservationNotFound", 404>>, <<"ReservationOwnership", 403>>,
                 <<"DomainError", 400>>>>, error, 500)

AuthStatus(error) ==
    FirstMatch(<<<<"InvalidCredentials", 401>>, <<"InactiveUser", 401>>, <<"InvalidRefreshToken", 401>>,
                 <<"RefreshTokenReuseDetected", 401>>, <<"UserNotFound", 404>>,
                 <<"AuthDomainError", 400>>>>, error, 500)

(* What the WhatsApp channel answers to a button it could not carry out.   *)
explicar(error) ==
    FirstMatch(<<<<"ReservationOwnership", "ajena">>, <<"ReservationNotFound", "no_encuentro">>,
                 <<"CancellationTooLate", "ya_paso">>, <<"RescheduleTooLate", "ya_paso">>,
                 <<"ReservationNotReschedulable", "cerrada">>, <<"ChosenWorkerBusy", "tu_estilista">>,
                 <<"WorkerOverlap", "ocupada">>, <<"OutOfBusinessHours", "fuera_de_horario">>,
                 <<"ReservationInThePast", "hora_pasada">>>>, error, "algo_no_salio_bien")

(* mover offers the day again before it explains anything else.             *)
offersTheDayAgain(error) == InstanceOf(error, "WorkerOverlap")

-----------------------------------------------------------------------------
(* Every edge tells the same story of one error: no error of the domain    *)
(* becomes an unknown one or a 500; the client's own stylist being busy is *)
(* told from the salon being full wherever a visit is moved, and both are  *)
(* a conflict; a foreign reservation is never reported as missing or the   *)
(* other way round; what the code of the 409 says, the tool says too.      *)
ErrorsKeepTheirMeaning(error) ==
    LET reservation == InstanceOf(error, "DomainError")
        moved == mapRescheduleErrorToReason(error)
    IN  /\ reservation = (ReservationStatus(error) # 500)
        /\ InstanceOf(error, "AuthDomainError") = (AuthStatus(error) # 500)
        /\ \A reason \in {mapDomainErrorToReason(error), moved, mapCancelErrorToReason(error),
                          mapConfirmErrorToReason(error)} :
              reservation = (reason # "error_desconocido")
        /\ motivoDelConflicto(error) # "" => /\ moved = motivoDelConflicto(error)
                                             /\ ReservationStatus(error) = 409
                                             /\ offersTheDayAgain(error)
        /\ (moved = "estilista_ocupada") = (error = "ChosenWorkerBusy")
        /\ (explicar(error) = "tu_estilista") = (moved = "estilista_ocupada")
        /\ (moved = "no_es_tu_reserva") = (ReservationStatus(error) = 403)
        /\ (moved = "reserva_no_encontrada") = (ReservationStatus(error) = 404)
        /\ (moved = "fuera_de_plazo") => explicar(error) = "ya_paso"
        /\ mapCancelErrorToReason(error) = "fuera_de_plazo" => explicar(error) = "ya_paso"
=============================================================================
