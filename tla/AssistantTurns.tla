---------------------------- MODULE AssistantTurns ----------------------------
(***************************************************************************)
(* The assistant's turns (SendMessageUseCase): how a message is admitted   *)
(* under the installation's daily token ceiling (DailyTokenLedger), which  *)
(* conversation it joins, the limits per conversation, user and phone, the *)
(* bounded loop of calls to the model, and how conversation and messages   *)
(* are stored. The ledger is process memory and is seeded from the         *)
(* messages table after a restart and on each new day.                     *)
(*                                                                         *)
(* A turn is a process that runs once; every step is the code between two  *)
(* awaits. A message is the pair (user, assistant) one INSERT writes, and  *)
(* is numbered as its turn. One tick is a whole day, so "the last 24       *)
(* hours" are the days not before yesterday. A call to the model costs one *)
(* token. What the tools do is in the modules of what they touch.          *)
(***************************************************************************)
EXTENDS Integers, FiniteSets, Functions

CONSTANTS
    Turns,          \* messages ever sent to the assistant (bound)
    Users,          \* web users with a session
    Phones,         \* WhatsApp numbers
    Owner,          \* SALON_OWNER_WHATSAPP
    Nobody,         \* no user, no number: an anonymous web visitor
    MaxConversations, \* conversations there may ever be (bound)
    MaxDay,         \* last day (bound)
    Ceiling,        \* ASSISTANT_MAX_TOKENS_PER_DAY; 0, no ceiling, is left out
    Reserve,        \* RESERVA_POR_TURNO
    MaxIterations,  \* MAX_TOOL_ITERATIONS
    SummaryEvery,   \* SUMMARY_EVERY, in messages
    MaxMessages,    \* maxMessagesPerConversation; 0, nobody may write, is left out
    MaxPerDay       \* maxMessagesPerUserPerDay, maxMessagesPerPhonePerDay

ASSUME TurnsAssumption ==
    /\ IsFiniteSet(Turns) /\ Turns \subseteq Nat
    /\ Owner \in Phones /\ Nobody \notin Users \cup Phones
    /\ Users \cap Phones = {}
    /\ MaxConversations \in Nat /\ MaxDay \in Nat
    /\ Ceiling \in Nat \ {0} /\ Reserve \in Nat
    /\ MaxIterations \in Nat \ {0} /\ SummaryEvery \in Nat \ {0}
    /\ MaxMessages \in Nat \ {0} /\ MaxPerDay \in Nat

VARIABLES
    today,
    pc,             \* where each turn is
    turn,           \* the local variables of each turn
    conv,           \* the table assistant_conversations
    msg,            \* the table assistant_messages, by the turn that wrote it
    ledger,         \* DailyTokenLedger: [day, spent]
    seed            \* siembraEnVuelo: [at, day, total]

vars == <<today, pc, turn, conv, msg, ledger, seed>>

Visitors == Users \cup Phones \cup {Nobody}
Conversations == 1 .. MaxConversations
NoConversation == 0
NoDay == -1
Days == 0 .. MaxDay
Idle == {"unborn", "done"}

(* `conv` is the id the visitor sent, then the loaded conversation; `owner`  *)
(* and `count` are the loaded aggregate's; `calls` is the turn's usage.      *)
Turn == [who : Visitors, day : Days \cup {NoDay}, conv : Conversations \cup {NoConversation},
         owner : Users \cup {Nobody}, count : Nat, calls : Nat]
NoTurn == [who |-> Nobody, day |-> NoDay, conv |-> NoConversation, owner |-> Nobody,
           count |-> 0, calls |-> 0]

Conversation == [owner : Users \cup {Nobody}, phone : Phones \cup {Nobody},
                 updated : Days \cup {NoDay}]
NoRow == [owner |-> Nobody, phone |-> Nobody, updated |-> NoDay]
Stored(c) == conv[c].updated # NoDay
IsNew(c) == ~Stored(c) /\ \A d \in Conversations : d < c => Stored(d)

Message == [conv : Conversations \cup {NoConversation}, at : Days \cup {NoDay}, tokens : Nat]
NoMessage == [conv |-> NoConversation, at |-> NoDay, tokens |-> 0]
Written(p) == msg[p].at # NoDay

NoSeed == [at |-> "none", day |-> NoDay, total |-> 0]

InFlight(p) == pc[p] \notin {"unborn", "seeding", "seeded", "done"}

-----------------------------------------------------------------------------
(* Queries *)

(* sumTokensSince *)
Tokens == [p \in Turns |-> msg[p].tokens]
TokensSince(day) == SumFunctionOnSet(Tokens, {p \in Turns : msg[p].at >= day})

MessagesOf(c) == 2 * Cardinality({p \in Turns : msg[p].conv = c})

(* countMessagesOfUserSince and countMessagesOfPhoneSince *)
CountSince(who, day) ==
    Cardinality({p \in Turns : /\ Written(p) /\ msg[p].at >= day
                               /\ who \in {conv[msg[p].conv].owner, conv[msg[p].conv].phone}})

(* findActiveByPhone: the most recently updated. *)
ActiveByPhone(phone, day) ==
    LET recent == {c \in Conversations :
                      Stored(c) /\ conv[c].phone = phone /\ conv[c].updated >= day - 1}
    IN  {c \in recent : \A d \in recent : conv[d].updated <= conv[c].updated}

-----------------------------------------------------------------------------
(* The ledger. *)

(* MUTANT of Liquidated: a turn that failed before its first call keeps its reserve. *)
LiquidatedIfSpent(day, calls) ==
    IF ledger.day # day \/ calls = 0 THEN ledger
    ELSE [ledger EXCEPT !.spent = @ - Reserve + calls]

(* sembrar: a day already seeded is left as it is. *)
Seeded(day, total) == IF ledger.day = day THEN ledger ELSE [day |-> day, spent |-> total]

(* liquidar: the bill of another day is dropped. *)
Liquidated(day, calls) ==
    IF ledger.day # day THEN ledger
    ELSE [ledger EXCEPT !.spent = IF @ - Reserve + calls > 0 THEN @ - Reserve + calls ELSE 0]

Goto(p, step) == pc' = [pc EXCEPT ![p] = step]

(* What a turn leaves behind: its bill. *)
Ended(t) == [NoTurn EXCEPT !.day = t.day, !.calls = t.calls]

(* The turn ends, well or badly: `finally` settles its reserve. *)
End(p) ==
    /\ Goto(p, "done")
    /\ turn' = [turn EXCEPT ![p] = Ended(@)]
    /\ ledger' = Liquidated(turn[p].day, turn[p].calls)

(* MUTANT of Reservar: checked now, charged when the turn is over. *)
ReservarLater(p, day) ==
    /\ UNCHANGED ledger
    /\ Goto(p, IF ledger.day = day /\ ledger.spent < Ceiling THEN "load" ELSE "done")

(* reservar: the reserve is set aside, or the message is refused. *)
Reservar(p, day) ==
    IF ledger.day = day /\ ledger.spent < Ceiling
    THEN ledger' = [ledger EXCEPT !.spent = @ + Reserve] /\ Goto(p, "load")
    ELSE UNCHANGED ledger /\ Goto(p, "done")

-----------------------------------------------------------------------------
(* Admission. *)

(* A message arrives. The web sends the id of a conversation it remembers or *)
(* none; a number has its messages handled one at a time (SenderQueue).      *)
Begin(p, who, c) ==
    /\ pc[p] = "unborn" /\ \A q \in Turns : q < p => pc[q] # "unborn"
    /\ who \in Phones => /\ c = NoConversation
                         /\ \A q \in Turns : turn[q].who = who => pc[q] \in Idle
    /\ turn' = [turn EXCEPT ![p] = [NoTurn EXCEPT !.who = who, !.day = today, !.conv = c]]
    /\ IF ledger.day = today
       THEN Reservar(p, today) /\ UNCHANGED seed
       ELSE /\ Goto(p, "seeding")
            /\ seed' = IF seed.at = "none" THEN [at |-> "asked", day |-> today, total |-> 0]
                                           ELSE seed
            /\ UNCHANGED ledger
    /\ UNCHANGED <<today, conv, msg>>

(* sembrarUnaSolaVez: the sum is taken, its answer arrives, or it fails.     *)
SeedRead ==
    /\ seed.at = "asked"
    /\ seed' = [seed EXCEPT !.at = "read", !.total = TokensSince(seed.day)]
    /\ UNCHANGED <<today, pc, turn, conv, msg, ledger>>

(* MUTANT of SeedFail: those who wait are not told. *)
SeedFailSilently ==
    /\ seed.at # "none"
    /\ seed' = NoSeed
    /\ UNCHANGED <<today, pc, turn, conv, msg, ledger>>

Waiters(step) == [p \in Turns |-> IF pc[p] = "seeding" THEN step ELSE pc[p]]

SeedLand ==
    /\ seed.at = "read"
    /\ ledger' = Seeded(seed.day, seed.total)
    /\ seed' = NoSeed
    /\ pc' = Waiters("seeded")
    /\ UNCHANGED <<today, turn, conv, msg>>

SeedFail ==
    /\ seed.at # "none"
    /\ seed' = NoSeed
    /\ pc' = Waiters("done")
    /\ UNCHANGED <<today, turn, conv, msg, ledger>>

(* The waiters go on one by one. *)
Resume(p) ==
    /\ pc[p] = "seeded"
    /\ Reservar(p, turn[p].day)
    /\ UNCHANGED <<today, turn, conv, msg, seed>>

-----------------------------------------------------------------------------
(* The conversation. *)

(* MUTANT of Findable: full conversations of the number are found as well. *)
FindableFull(p) == ActiveByPhone(turn[p].who, turn[p].day)

Findable(p) == {c \in ActiveByPhone(turn[p].who, turn[p].day) : MessagesOf(c) < MaxMessages}

(* loadOrStart refuses another's conversation, and a number's. *)
MayJoin(p, c) == conv[c].phone = Nobody /\ conv[c].owner \in {Nobody, turn[p].who}

(* The aggregate in memory: claimBy makes an anonymous one the user's. *)
Loaded(p, c) ==
    [turn[p] EXCEPT !.conv = c, !.count = MessagesOf(c),
                    !.owner = IF conv[c].owner = Nobody /\ turn[p].who \in Users
                              THEN turn[p].who ELSE conv[c].owner]
Started(p) ==
    [turn[p] EXCEPT !.conv = NoConversation, !.count = 0,
                    !.owner = IF turn[p].who \in Users THEN turn[p].who ELSE Nobody]

(* loadOrStart, and the limit per conversation. *)
LoadPhone(p) ==
    /\ pc[p] = "load" /\ turn[p].who \in Phones
    /\ IF Findable(p) = {} THEN turn' = [turn EXCEPT ![p] = Started(p)]
       ELSE \E c \in Findable(p) : turn' = [turn EXCEPT ![p] = Loaded(p, c)]
    /\ Goto(p, "count")
    /\ UNCHANGED <<today, conv, msg, ledger, seed>>

LoadWeb(p) ==
    LET c == turn[p].conv
    IN  /\ pc[p] = "load" /\ turn[p].who \notin Phones
        /\ IF c = NoConversation
           THEN turn' = [turn EXCEPT ![p] = Started(p)] /\ Goto(p, "count") /\ UNCHANGED ledger
           ELSE IF MayJoin(p, c) /\ MessagesOf(c) < MaxMessages
           THEN turn' = [turn EXCEPT ![p] = Loaded(p, c)] /\ Goto(p, "count") /\ UNCHANGED ledger
           ELSE End(p)
        /\ UNCHANGED <<today, conv, msg, seed>>

WithinDay(p) == CountSince(turn[p].who, turn[p].day - 1) < MaxPerDay

(* The limit per user or number and day; nobody's and the owner's are exempt. *)
Count(p) ==
    /\ pc[p] = "count"
    /\ IF turn[p].who \in {Nobody, Owner} \/ WithinDay(p)
       THEN Goto(p, "ask") /\ UNCHANGED <<turn, ledger>>
       ELSE End(p)
    /\ UNCHANGED <<today, conv, msg, seed>>

-----------------------------------------------------------------------------
(* The loop of calls to the model. *)

Summarises(t) == (t.count + 2) % SummaryEvery = 0

(* MUTANT of Iterates: one iteration more. *)
IteratesOnce(calls) == calls <= MaxIterations

(* The tools ran and the model is asked again. *)
Iterates(calls) == calls < MaxIterations

(* One call. The model wants tools and the loop goes on, or it answers, or   *)
(* the loop is cut: by the last iteration, by rounds that only repeat calls, *)
(* by the judge. A cut turn answers with the courtesy reply.                 *)
Ask(p) ==
    /\ pc[p] = "ask"
    /\ turn' = [turn EXCEPT ![p].calls = @ + 1]
    /\ \/ Iterates(turn'[p].calls) /\ Goto(p, "ask")
       \/ Goto(p, IF Summarises(turn[p]) THEN "summarise" ELSE "save")
    /\ UNCHANGED <<today, conv, msg, ledger, seed>>

Summarise(p) ==
    /\ pc[p] = "summarise"
    /\ turn' = [turn EXCEPT ![p].calls = @ + 1]
    /\ Goto(p, "save")
    /\ UNCHANGED <<today, conv, msg, ledger, seed>>

-----------------------------------------------------------------------------
(* repository.save *)

PhoneOf(p) == IF turn[p].who \in Phones THEN turn[p].who ELSE Nobody
MessageOf(p, c) == [conv |-> c, at |-> today, tokens |-> turn[p].calls]

(* A new conversation and its messages are one transaction. *)
SaveNew(p) ==
    /\ pc[p] = "save" /\ turn[p].conv = NoConversation
    /\ \E c \in Conversations :
         /\ IsNew(c)
         /\ conv' = [conv EXCEPT ![c] = [owner |-> turn[p].owner, phone |-> PhoneOf(p),
                                         updated |-> today]]
         /\ msg' = [msg EXCEPT ![p] = MessageOf(p, c)]
    /\ Goto(p, "saved")
    /\ UNCHANGED <<today, turn, ledger, seed>>

(* A known one: its scalars, the loaded owner among them, ... *)
SaveScalars(p) ==
    /\ pc[p] = "save" /\ turn[p].conv # NoConversation
    /\ conv' = [conv EXCEPT ![turn[p].conv].owner = turn[p].owner,
                            ![turn[p].conv].updated = today]
    /\ Goto(p, "insert")
    /\ UNCHANGED <<today, turn, msg, ledger, seed>>

(* ... and in a second statement its messages. *)
InsertMessages(p) ==
    /\ pc[p] = "insert"
    /\ msg' = [msg EXCEPT ![p] = MessageOf(p, turn[p].conv)]
    /\ Goto(p, "saved")
    /\ UNCHANGED <<today, turn, conv, ledger, seed>>

(* The stored conversation is read again and the reply goes out. *)
Reply(p) ==
    /\ pc[p] = "saved"
    /\ End(p)
    /\ UNCHANGED <<today, conv, msg, seed>>

(* A query, a tool or the model fails: the turn is lost, and settled. *)
Fail(p) ==
    /\ InFlight(p)
    /\ End(p)
    /\ UNCHANGED <<today, conv, msg, seed>>

Step(p) ==
    \/ Resume(p) \/ LoadPhone(p) \/ LoadWeb(p) \/ Count(p)
    \/ Ask(p) \/ Summarise(p)
    \/ SaveNew(p) \/ SaveScalars(p) \/ InsertMessages(p) \/ Reply(p)
    \/ Fail(p)

Sembrar == SeedRead \/ SeedLand \/ SeedFail

-----------------------------------------------------------------------------

Tick ==
    /\ today < MaxDay
    /\ today' = today + 1
    /\ UNCHANGED <<pc, turn, conv, msg, ledger, seed>>

(* The process dies and starts again: the ledger and the turns are gone. *)
Crash ==
    /\ pc' = [p \in Turns |-> IF pc[p] \in Idle THEN pc[p] ELSE "done"]
    /\ turn' = [p \in Turns |-> Ended(turn[p])]
    /\ ledger' = [day |-> NoDay, spent |-> 0]
    /\ seed' = NoSeed
    /\ UNCHANGED <<today, conv, msg>>

Init ==
    /\ today = 0
    /\ pc = [p \in Turns |-> "unborn"]
    /\ turn = [p \in Turns |-> NoTurn]
    /\ conv = [c \in Conversations |-> NoRow]
    /\ msg = [p \in Turns |-> NoMessage]
    /\ ledger = [day |-> NoDay, spent |-> 0]
    /\ seed = NoSeed

Next ==
    \/ \E p \in Turns : Step(p)
    \/ \E p \in Turns, who \in Visitors :
          \E c \in {NoConversation} \cup {d \in Conversations : Stored(d)} : Begin(p, who, c)
    \/ Sembrar \/ Tick \/ Crash

(* Queries and the model answer or time out. Nobody must write. *)
Spec == Init /\ [][Next]_vars /\ WF_vars(Sembrar) /\ \A p \in Turns : WF_vars(Step(p))

-----------------------------------------------------------------------------
(* Properties *)

TypeOK ==
    /\ today \in Days
    /\ pc \in [Turns -> Idle \cup {"seeding", "seeded", "load", "count", "ask", "summarise",
                                   "save", "insert", "saved"}]
    /\ turn \in [Turns -> Turn]
    /\ conv \in [Conversations -> Conversation]
    /\ msg \in [Turns -> Message]
    /\ ledger \in [day : Days \cup {NoDay}, spent : Nat]
    /\ seed \in [at : {"none", "asked", "read"}, day : Days \cup {NoDay}, total : Nat]
    /\ \A p \in Turns : pc[p] = "seeding" => seed.at # "none"

(* A turn is admitted only while what the day's settled turns stored and the *)
(* reserves of those in flight are under the ceiling: a burst of messages    *)
(* sees itself, and a restart gives no token of the day away.                *)
Admitted(p) == ~InFlight(p) /\ InFlight(p)'
OfDay(p, day) == turn[p].day = day
AdmittedUnderCeiling ==
    [][\A p \in Turns : Admitted(p) =>
         LET day == turn'[p].day
             stored == SumFunctionOnSet(Tokens, {q \in Turns : OfDay(q, day) /\ pc[q] = "done"})
             flying == Cardinality({q \in Turns : OfDay(q, day) /\ InFlight(q)})
         IN  stored + Reserve * flying < Ceiling]_vars

(* No reserve outlives its turn: the ledger never holds more than the calls  *)
(* of the day's turns, what turns of other days stored since that day began, *)
(* and a reserve for each turn in flight. A leak would silence the assistant *)
(* early. (The query of the seeding has no upper bound: one answered after   *)
(* midnight counts what was stored since.)                                   *)
Calls == [p \in Turns |-> turn[p].calls]
NoReserveLeaks ==
    LET day == ledger.day
        mine == {p \in Turns : OfDay(p, day)}
    IN  day # NoDay =>
        ledger.spent <=
            SumFunctionOnSet(Calls, mine)
            + SumFunctionOnSet(Tokens, {p \in Turns \ mine : msg[p].at >= day})
            + Reserve * Cardinality({p \in mine : InFlight(p)})

(* "Un turno son hasta seis llamadas al modelo": five iterations, a summary. *)
CallsAreBounded == \A p \in Turns : turn[p].calls <= MaxIterations + 1

(* A client's number never has more messages in 24 hours than its limit, nor *)
(* more in a conversation than one holds (they come in pairs, so one more if *)
(* the limit is odd), however many arrive at once.                           *)
PhoneLimitsHold ==
    /\ \A p \in Turns : LET phone == conv[msg[p].conv].phone IN
          Written(p) /\ phone \in Phones \ {Owner} =>
              Cardinality({q \in Turns : /\ Written(q) /\ conv[msg[q].conv].phone = phone
                                         /\ msg[q].at \in (msg[p].at - 1) .. msg[p].at})
                  <= MaxPerDay
    /\ \A c \in Conversations : conv[c].phone # Nobody => MessagesOf(c) <= MaxMessages + (MaxMessages % 2)

(* Every message is answered, refused or lost: no turn waits for ever, not   *)
(* even for a seeding that another turn started.                             *)
TurnsEnd == []<>(\A p \in Turns : pc[p] \in Idle)

(* "La propiedad, una vez establecida, no cambia de manos". *)
OwnerIsForGood ==
    [][\A c \in Conversations : conv[c].owner \in Users => conv'[c].owner = conv[c].owner]_vars
=============================================================================
