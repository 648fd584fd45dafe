----------------------------- MODULE SenderQueue -----------------------------
(***************************************************************************)
(* How the webhook hands its messages over: PerSenderQueue chains one      *)
(* promise per delivery behind the sender's last one and forgets a sender  *)
(* whose last promise settled; the table of processed messages and the     *)
(* sliding window of each sender then decide whether a delivery is worked  *)
(* on. A delivery is a link: `prev` is the promise it was chained to, and  *)
(* it runs once that one has settled. Map and windows are process memory.  *)
(***************************************************************************)
EXTENDS Integers, FiniteSets

CONSTANTS
    Messages,       \* wamids Meta may deliver (bound)
    From,           \* the sender of each message
    Senders,
    MaxLinks,       \* deliveries ever received (bound)
    MaxPerWindow,   \* MAX_MENSAJES of the inbound limiter
    Window,         \* VENTANA_MS
    NoMessage

Links == 1 .. MaxLinks
NoLink == 0

ASSUME QueueAssumption ==
    /\ MaxLinks \in Nat /\ MaxPerWindow \in Nat \ {0} /\ Window \in Nat \ {0}
    /\ From \in [Messages -> Senders]
    /\ NoMessage \notin Messages

VARIABLES
    pc,             \* where each link is
    link,           \* [msg, prev] of each link
    colas,          \* the map of the queue: a sender's last link
    log,            \* the table whatsapp_inbound_messages: processed wamids
    marks,          \* the limiter's map: <<instant, link>> of the allowed ones
    handled         \* history: how often each message reached the handler

queueVars == <<pc, link, colas, log, marks, handled>>

(* A settled link keeps nothing: its task is over, or died with the process. *)
Settled == {"done"}
Idle == {"unborn"} \cup Settled
NoTask == [msg |-> NoMessage, prev |-> NoLink]

SenderOf(l) == From[link[l].msg]

Unsettled(s) == {l \in Links : pc[l] \notin Idle /\ SenderOf(l) = s}

(* `anterior.then(tarea)`: a link's task starts when its predecessor settled. *)
Running(l) ==
    /\ pc[l] \notin Idle
    /\ \A k \in Links : k = link[l].prev => pc[k] \in Settled

IsNextLink(l) == pc[l] = "unborn" /\ \A k \in Links : k < l => pc[k] # "unborn"

-----------------------------------------------------------------------------
(* MUTANTS *)

(* of Forget: the entry is deleted whoever is last. *)
ForgetAlways(l) == [colas EXCEPT ![SenderOf(l)] = NoLink]
(* of Forget: the entry is never deleted. *)
ForgetNever(l) == colas
(* of IsNew: the echo of the inserted key is taken for an inserted row. *)
IsNewByIdentifiers(l) == TRUE
(* of Allowed: one more than the window holds. *)
AllowedOffByOne(l, now) ==
    Cardinality({t \in marks[SenderOf(l)] : t[1] > now - Window}) <= MaxPerWindow

-----------------------------------------------------------------------------

(* receive: every message of the webhook's body is chained, not awaited. *)
Receive(m) ==
    \E l \in Links :
        /\ IsNextLink(l)
        /\ pc' = [pc EXCEPT ![l] = "queued"]
        /\ link' = [link EXCEPT ![l] = [msg |-> m, prev |-> colas[From[m]]]]
        /\ colas' = [colas EXCEPT ![From[m]] = l]
        /\ UNCHANGED <<log, marks, handled>>

(* The map once link l settles: it goes only if nothing was chained to it.   *)
Forget(l) ==
    IF colas[SenderOf(l)] = l THEN [colas EXCEPT ![SenderOf(l)] = NoLink] ELSE colas

(* A task ends, with or without an error: `eslabon` swallows it. *)
Settle(l) ==
    /\ pc' = [pc EXCEPT ![l] = "done"]
    /\ colas' = Forget(l)
    /\ link' = [link EXCEPT ![l] = NoTask]

(* INSERT ... ON CONFLICT DO NOTHING RETURNING: a row came back. *)
IsNew(l) == link[l].msg \notin log

(* allow: what is left of the window before this instant. *)
Allowed(l, now) ==
    Cardinality({t \in marks[SenderOf(l)] : t[1] > now - Window}) < MaxPerWindow

(* procesar, as far as the handler: mark, then the limiter, then `step`;     *)
(* "done" when the handler has nothing to wait for.                          *)
TakeNew(l, step, now) ==
    /\ IsNew(l) /\ Allowed(l, now)
    /\ log' = log \cup {link[l].msg}
    /\ marks' = [marks EXCEPT ![SenderOf(l)] =
                    {t \in @ : t[1] > now - Window} \cup {<<now, l>>}]
    /\ handled' = [handled EXCEPT ![link[l].msg] = @ + 1]
    /\ IF step = "done" THEN Settle(l) ELSE pc' = [pc EXCEPT ![l] = step] /\ UNCHANGED <<link, colas>>

(* A redelivery, or a message over the limit: marked, and nothing is done.   *)
TakeNothing(l, now) ==
    /\ ~(IsNew(l) /\ Allowed(l, now))
    /\ log' = log \cup {link[l].msg}
    /\ Settle(l)
    /\ marks' = IF IsNew(l) THEN [marks EXCEPT ![SenderOf(l)] = {t \in @ : t[1] > now - Window}]
                           ELSE marks
    /\ UNCHANGED handled

(* The hourly prune of the limiter's map. *)
Prune(now) ==
    /\ marks' = [s \in Senders |-> {t \in marks[s] : t[1] > now - Window}]
    /\ UNCHANGED <<pc, link, colas, log, handled>>

(* The process dies: the table stays, queue and windows are gone. *)
Lose ==
    /\ pc' = [l \in Links |-> IF pc[l] \in Idle THEN pc[l] ELSE "done"]
    /\ link' = [l \in Links |-> NoTask]
    /\ colas' = [s \in Senders |-> NoLink]
    /\ marks' = [s \in Senders |-> {}]
    /\ UNCHANGED <<log, handled>>

QueueInit ==
    /\ pc = [l \in Links |-> "unborn"]
    /\ link = [l \in Links |-> NoTask]
    /\ colas = [s \in Senders |-> NoLink]
    /\ log = {}
    /\ marks = [s \in Senders |-> {}]
    /\ handled = [m \in Messages |-> 0]

QueueTypeOK(steps) ==
    /\ pc \in [Links -> steps \cup Idle \cup {"queued"}]
    /\ link \in [Links -> [msg : Messages \cup {NoMessage}, prev : Links \cup {NoLink}]]
    /\ \A l \in Links : pc[l] \notin Idle => link[l].msg \in Messages
    /\ colas \in [Senders -> Links \cup {NoLink}]
    /\ log \subseteq Messages
    /\ marks \in [Senders -> SUBSET (Nat \X Links)]
    /\ handled \in [Messages -> Nat]

-----------------------------------------------------------------------------
(* Of one sender one delivery is worked on at a time, whatever failed before *)
(* it, and a sender is in the map exactly while it has work: no leak.        *)
OneAtATime ==
    \A s \in Senders :
        /\ \A l, k \in Unsettled(s) : Running(l) /\ Running(k) => l = k
        /\ colas[s] = NoLink <=> Unsettled(s) = {}

(* A message reaches the handler once at most, however often Meta delivers   *)
(* it and wherever the process died in between.                              *)
HandledOnce == \A m \in Messages : handled[m] <= 1

(* The limiter lets no more than its maximum through within one window.      *)
RateHeld ==
    \A s \in Senders : \A t \in marks[s] :
        Cardinality({u \in marks[s] : u[1] <= t[1] /\ u[1] > t[1] - Window})
            <= MaxPerWindow
=============================================================================
