---------------------------- MODULE Reservations ----------------------------
(***************************************************************************)
(* The reservations bounded context: the four use cases that change a      *)
(* reservation (create, cancel, confirm, reschedule), the two cron jobs    *)
(* (settle, purge) and the staff they assign, over one Postgres table.     *)
(*                                                                         *)
(* The backend is one Node process: code between two awaits is atomic, and *)
(* every await is a point where other requests run. A request is a process *)
(* p \in Procs; it holds in memory the aggregate it read (agg[p]) and      *)
(* writes ALL its scalar columns back at the end, with no version check.   *)
(* Time is counted in slots, a day has DayLen of them.                     *)
(***************************************************************************)
EXTENDS Integers, FiniteSets

CONSTANTS
    Ids,            \* reservation ids that may ever be issued (bound)
    Procs,          \* requests that may be in flight at once (bound)
    Workers,        \* stylists that may ever be hired, ordered like their ids
    Default,        \* the default worker, "Sin preferencia"
    NoWorker,       \* a create request that names no stylist
    NoId,           \* target of a request that is not running
    Clients,        \* identities that can own a reservation: a user, a phone
    Admin,          \* the salon's own actor
    Ops,            \* kinds of request the instance issues (bound)
    Starts,         \* start slots the requests ask for
    Durations,      \* total durations of the services asked for
    DayLen, Open, Close,    \* slots of a day, opening and closing slot
    MinLead,        \* RESCHEDULE_MIN_LEAD_MINUTES
    PurgeAge,       \* age at which an ended reservation is deleted (1 month)
    MaxTime,        \* last instant of the clock (bound)
    MaxRestarts     \* restarts of the process (bound)

Staffable == Workers \cup {Default}

ASSUME IdAssumption == NoId \notin Ids
ASSUME WorkerAssumption ==
    Workers \subseteq Nat /\ Default \notin Workers /\ NoWorker \notin Staffable
ASSUME ActorAssumption == Admin \notin Clients
ASSUME TimeAssumption ==
    /\ Starts \subseteq Nat
    /\ Durations \subseteq Nat \ {0}
    /\ DayLen \in Nat \ {0} /\ Open \in Nat /\ Close \in Nat
    /\ MinLead \in Nat /\ PurgeAge \in Nat /\ MaxTime \in Nat
    /\ MaxRestarts \in Nat

VARIABLES
    now,        \* the clock
    row,        \* the table reservations, by id
    staffing,   \* the table workers, without the default worker
    pc,         \* where a request awaits
    op,         \* what it is
    target,     \* the id it works on
    agg,        \* its in-memory Reservation aggregate
    cands,      \* assigner: stylists still to try, as <<usedMinutes, id>>
    settling,   \* the settle job's `now` between its two UPDATEs
    confirmed,  \* history: ids some confirm request has written
    restarts    \* restarts so far

reqVars == <<pc, op, target, agg, cands>>
vars == <<now, row, staffing, reqVars, settling, confirmed, restarts>>

-----------------------------------------------------------------------------
(* Rows *)

Statuses == {"pendiente", "confirmada", "cumplida", "cancelada"}
Terminal == {"cumplida", "cancelada"}

Row == [status : Statuses \cup {"unborn", "purged"},
        start : Nat, dur : Nat, worker : Staffable, pinned : BOOLEAN,
        owner : SUBSET Clients]

(* An id without a row: not yet issued, or deleted. *)
Blank(status) ==
    [status |-> status, start |-> 0, dur |-> 0, worker |-> Default,
     pinned |-> FALSE, owner |-> {}]

Exists(id) == row[id].status \in Statuses

EndOf(r) == r.start + r.dur

Occupies(r) == r.status \in Statuses \ {"cancelada"}

(* Half-open windows: [start, end) of two rows share an instant. *)
Overlap(r, s) == r.start < EndOf(s) /\ s.start < EndOf(r)

(* ended_at < t *)
Ended(r, t) == EndOf(r) < t

-----------------------------------------------------------------------------
(* The database's answers *)

Staff == {w \in Workers : staffing[w] = "working"}

(* countOverlaps(w, window of r, exclude) = 0; a create excludes its own id *)
(* too, which has no row yet.                                               *)
IsFree(w, r, exclude) ==
    \A id \in Ids \ {exclude} :
        ~(Occupies(row[id]) /\ row[id].worker = w /\ Overlap(row[id], r))

(* MUTANT of Excluded: the constraint guards the INSERT only. *)
ExcludedOnInsertOnly(r, id) ==
    Occupies(r) /\ row[id].status = "unborn" /\ ~IsFree(r.worker, r, id)

(* EXCLUDE (worker_id WITH =, tstzrange WITH &&) WHERE status <> 'cancelada' *)
Excluded(r, id) == Occupies(r) /\ ~IsFree(r.worker, r, id)

(* The foreign key of reservations.worker_id. *)
WorkerGone(r) == r.worker \notin Staff \cup {Default}

(* usedMinutes of getAvailabilityByDate: the day's visits that are not       *)
(* cancelled; if the day is today, what is still ahead of them.              *)
UsedSlots(w, day) ==
    LET first == IF now \div DayLen = day THEN now ELSE day * DayLen
    IN  {t \in first .. (day * DayLen + DayLen - 1) :
            \E id \in Ids : /\ Occupies(row[id]) /\ row[id].worker = w
                            /\ row[id].start <= t /\ t < EndOf(row[id])}

Workloads(day) == {<<Cardinality(UsedSlots(w, day)), w>> : w \in Staff}

(* sort by usedMinutes, then by id: c comes first in S. *)
ComesFirst(c, S) ==
    \A d \in S : c[1] < d[1] \/ (c[1] = d[1] /\ c[2] <= d[2])

-----------------------------------------------------------------------------
(* The domain's rules *)

WithinBusinessHours(r) ==
    LET startMin == r.start % DayLen
    IN  Open <= startMin /\ startMin + r.dur <= Close

InThePast(r) == r.start < now

CanActOn(actor, r) == actor = Admin \/ actor \in r.owner

CanTransition(from, to) ==
    \/ from = "pendiente" /\ to \in {"confirmada", "cancelada"}
    \/ from = "confirmada" /\ to \in {"cumplida", "cancelada"}

TooLateToCancel(actor, r) == actor # Admin /\ now >= r.start

TooLateToReschedule(actor, r) == actor # Admin /\ now >= r.start - MinLead

(* MUTANT of KeepsWorker: every reschedule hands the visit out again. *)
KeepsNoWorker(r) == FALSE

(* Reservation.assignWorker refuses when the client chose the stylist. *)
KeepsWorker(r) == r.pinned

-----------------------------------------------------------------------------
(* Requests *)

Enter(p, step, kind, id, aggregate) ==
    /\ pc[p] = "idle"
    /\ kind \in Ops
    /\ pc' = [pc EXCEPT ![p] = step]
    /\ op' = [op EXCEPT ![p] = kind]
    /\ target' = [target EXCEPT ![p] = id]
    /\ agg' = [agg EXCEPT ![p] = aggregate]
    /\ UNCHANGED <<now, row, staffing, cands, settling, confirmed, restarts>>

(* MUTANT of Finish: the id of the last request is not cleared. *)
FinishKeepingTarget(p) ==
    /\ pc' = [pc EXCEPT ![p] = "idle"]
    /\ op' = [op EXCEPT ![p] = "none"]
    /\ agg' = [agg EXCEPT ![p] = Blank("unborn")]
    /\ cands' = [cands EXCEPT ![p] = {}]
    /\ UNCHANGED target

(* The request returned, with an answer or an exception. *)
Finish(p) ==
    /\ pc' = [pc EXCEPT ![p] = "idle"]
    /\ op' = [op EXCEPT ![p] = "none"]
    /\ target' = [target EXCEPT ![p] = NoId]
    /\ agg' = [agg EXCEPT ![p] = Blank("unborn")]
    /\ cands' = [cands EXCEPT ![p] = {}]

(* Reservation.schedule. Until the assigner decides, the worker of a draft   *)
(* that names none is a placeholder.                                         *)
Draft(start, dur, owner, w) ==
    [status |-> "pendiente", start |-> start, dur |-> dur,
     worker |-> IF w = NoWorker THEN Default ELSE w,
     pinned |-> w # NoWorker, owner |-> owner]

(* CreateReservationUseCase up to its first query about stylists: the draft  *)
(* is checked before anyone is looked for. The uuid the INSERT will generate *)
(* is picked here. A request the rules reject leaves no trace. Nobody owns a *)
(* reservation without user whose phone does not normalize.                  *)
BeginCreate(p) ==
    \E id \in Ids, start \in Starts, dur \in Durations,
       owner \in SUBSET Clients, w \in Staffable \cup {NoWorker} :
        LET borrador == Draft(start, dur, owner, w)
        IN  /\ row[id].status = "unborn"
            /\ \A q \in Procs : target[q] # id
            /\ WithinBusinessHours(borrador)
            /\ ~InThePast(borrador)
            /\ Enter(p, IF w = NoWorker THEN "assign" ELSE "check",
                     "create", id, borrador)

(* findById, assertCanActOn and the aggregate's own cancel. *)
BeginCancel(p) ==
    \E id \in Ids, actor \in Clients \cup {Admin} :
        /\ Exists(id)
        /\ CanActOn(actor, row[id])
        /\ ~TooLateToCancel(actor, row[id])
        /\ CanTransition(row[id].status, "cancelada")
        /\ Enter(p, "save", "cancel", id,
                 [row[id] EXCEPT !.status = "cancelada"])

(* No actor: only the salon's edges expose it. *)
BeginConfirm(p) ==
    \E id \in Ids :
        /\ Exists(id)
        /\ CanTransition(row[id].status, "confirmada")
        /\ Enter(p, "save", "confirm", id,
                 [row[id] EXCEPT !.status = "confirmada"])

(* The aggregate is moved and the moved window is checked; the status stays. *)
BeginReschedule(p) ==
    \E id \in Ids, actor \in Clients \cup {Admin}, start \in Starts :
        LET moved == [row[id] EXCEPT !.start = start]
        IN  /\ Exists(id)
            /\ CanActOn(actor, row[id])
            /\ row[id].status \notin Terminal
            /\ ~TooLateToReschedule(actor, row[id])
            /\ WithinBusinessHours(moved)
            /\ ~InThePast(moved)
            /\ Enter(p, IF KeepsWorker(moved) THEN "check" ELSE "assign",
                     "reschedule", id, moved)

(* WorkerAssigner.elegir returned w: a create still checks its overlaps, a   *)
(* reschedule goes straight to save.                                         *)
Assign(p, w) ==
    /\ agg' = [agg EXCEPT ![p].worker = w]
    /\ pc' = [pc EXCEPT ![p] = IF op[p] = "create" THEN "check" ELSE "save"]
    /\ cands' = [cands EXCEPT ![p] = {}]
    /\ UNCHANGED <<op, target>>

(* listAssignableWorkloads; without staff, the default worker. *)
ReadWorkloads(p) ==
    /\ pc[p] = "assign"
    /\ \/ Staff = {} /\ Assign(p, Default)
       \/ /\ Staff # {}
          /\ cands' = [cands EXCEPT
                          ![p] = Workloads(agg[p].start \div DayLen)]
          /\ pc' = [pc EXCEPT ![p] = "try"]
          /\ UNCHANGED <<op, target, agg>>
    /\ UNCHANGED <<now, row, staffing, settling, confirmed, restarts>>

(* MUTANT of TryCandidate: a candidate found busy is tried again. *)
TryCandidateAgain(p) ==
    /\ pc[p] = "try"
    /\ \E c \in cands[p] :
          /\ ComesFirst(c, cands[p])
          /\ \/ IsFree(c[2], agg[p], target[p]) /\ Assign(p, c[2])
             \/ /\ ~IsFree(c[2], agg[p], target[p])
                /\ UNCHANGED reqVars
    /\ UNCHANGED <<now, row, staffing, settling, confirmed, restarts>>

(* One countOverlaps of the loop: the first candidate is free, or is        *)
(* dropped, or was the last one.                                            *)
TryCandidate(p) ==
    /\ pc[p] = "try"
    /\ \E c \in cands[p] :
          /\ ComesFirst(c, cands[p])
          /\ \/ IsFree(c[2], agg[p], target[p]) /\ Assign(p, c[2])
             \/ /\ ~IsFree(c[2], agg[p], target[p])
                /\ cands[p] # {c}
                /\ cands' = [cands EXCEPT ![p] = @ \ {c}]
                /\ UNCHANGED <<pc, op, target, agg>>
             \/ /\ ~IsFree(c[2], agg[p], target[p])
                /\ cands[p] = {c}
                /\ Finish(p)
    /\ UNCHANGED <<now, row, staffing, settling, confirmed, restarts>>

(* countOverlaps of a create, or of a reschedule that keeps its stylist. *)
CheckOverlap(p) ==
    /\ pc[p] = "check"
    /\ \/ /\ IsFree(agg[p].worker, agg[p], target[p])
          /\ pc' = [pc EXCEPT ![p] = "save"]
          /\ UNCHANGED <<op, target, agg, cands>>
       \/ ~IsFree(agg[p].worker, agg[p], target[p]) /\ Finish(p)
    /\ UNCHANGED <<now, row, staffing, settling, confirmed, restarts>>

(* MUTANT of Accepts: save inserts a row it does not find. *)
AcceptsUpsert(p) == ~Excluded(agg[p], target[p]) /\ ~WorkerGone(agg[p])

(* The INSERT or UPDATE goes through. An UPDATE of a row deleted meanwhile   *)
(* does not: it touches nothing.                                            *)
Accepts(p) ==
    /\ op[p] = "create" \/ Exists(target[p])
    /\ ~Excluded(agg[p], target[p])
    /\ ~WorkerGone(agg[p])

(* repository.save, all scalar columns of the aggregate over whatever the    *)
(* row holds by now; then the request ends. A rejected write is a 409 or a   *)
(* 500 and changes nothing.                                                  *)
Save(p) ==
    /\ pc[p] = "save"
    /\ \/ /\ Accepts(p)
          /\ row' = [row EXCEPT ![target[p]] = agg[p]]
          /\ confirmed' = IF op[p] = "confirm"
                          THEN confirmed \cup {target[p]} ELSE confirmed
       \/ ~Accepts(p) /\ UNCHANGED <<row, confirmed>>
    /\ Finish(p)
    /\ UNCHANGED <<now, staffing, settling, restarts>>

-----------------------------------------------------------------------------
(* Cron jobs, staff, clock and restarts *)

(* MUTANT of SettleConfirmed: unconfirmed rows are fulfilled too. *)
SettleAny ==
    /\ settling = -1
    /\ settling' = now
    /\ row' = [id \in Ids |->
                  IF Occupies(row[id]) /\ Ended(row[id], now)
                  THEN [row[id] EXCEPT !.status = "cumplida"] ELSE row[id]]
    /\ UNCHANGED <<now, staffing, reqVars, confirmed, restarts>>

(* Every hour. First UPDATE: confirmed and ended rows are fulfilled. *)
SettleConfirmed ==
    /\ settling = -1
    /\ settling' = now
    /\ row' = [id \in Ids |->
                  IF row[id].status = "confirmada" /\ Ended(row[id], now)
                  THEN [row[id] EXCEPT !.status = "cumplida"] ELSE row[id]]
    /\ UNCHANGED <<now, staffing, reqVars, confirmed, restarts>>

(* MUTANT of SettlePending: the second UPDATE repeats the first one's filter. *)
SettleConfirmedAgain ==
    /\ settling # -1
    /\ settling' = -1
    /\ row' = [id \in Ids |->
                  IF row[id].status = "confirmada" /\ Ended(row[id], settling)
                  THEN [row[id] EXCEPT !.status = "cancelada"] ELSE row[id]]
    /\ UNCHANGED <<now, staffing, reqVars, confirmed, restarts>>

(* Second UPDATE, with the same `now`: pending ones expire. *)
SettlePending ==
    /\ settling # -1
    /\ settling' = -1
    /\ row' = [id \in Ids |->
                  IF row[id].status = "pendiente" /\ Ended(row[id], settling)
                  THEN [row[id] EXCEPT !.status = "cancelada"] ELSE row[id]]
    /\ UNCHANGED <<now, staffing, reqVars, confirmed, restarts>>

(* Every day at 4 a.m.: whatever ended a month ago is deleted, in any status. *)
Purge ==
    /\ row' = [id \in Ids |->
                  IF Exists(id) /\ Ended(row[id], now - PurgeAge)
                  THEN Blank("purged") ELSE row[id]]
    /\ UNCHANGED <<now, staffing, reqVars, settling, confirmed, restarts>>

(* A uuid is never reused: who leaves does not come back. *)
HireWorker(w) ==
    /\ staffing[w] = "unhired"
    /\ staffing' = [staffing EXCEPT ![w] = "working"]
    /\ UNCHANGED <<now, row, reqVars, settling, confirmed, restarts>>

(* MUTANT of HasReservations: cancelled rows do not keep their stylist. *)
HasVisits(w) == \E id \in Ids : Occupies(row[id]) /\ row[id].worker = w

HasReservations(w) == \E id \in Ids : Exists(id) /\ row[id].worker = w

(* Its count and, against a race with an INSERT, the foreign key's RESTRICT. *)
RemoveWorker(w) ==
    /\ staffing[w] = "working"
    /\ ~HasReservations(w)
    /\ staffing' = [staffing EXCEPT ![w] = "gone"]
    /\ UNCHANGED <<now, row, reqVars, settling, confirmed, restarts>>

Tick ==
    /\ now < MaxTime
    /\ now' = now + 1
    /\ UNCHANGED <<row, staffing, reqVars, settling, confirmed, restarts>>

(* The process dies: requests and a settle run between its UPDATEs are lost. *)
Restart ==
    /\ restarts < MaxRestarts
    /\ restarts' = restarts + 1
    /\ pc' = [p \in Procs |-> "idle"]
    /\ op' = [p \in Procs |-> "none"]
    /\ target' = [p \in Procs |-> NoId]
    /\ agg' = [p \in Procs |-> Blank("unborn")]
    /\ cands' = [p \in Procs |-> {}]
    /\ settling' = -1
    /\ UNCHANGED <<now, row, staffing, confirmed>>

-----------------------------------------------------------------------------
Init ==
    /\ now = 0
    /\ row = [id \in Ids |-> Blank("unborn")]
    /\ staffing \in [Workers -> {"unhired", "working"}]
    /\ pc = [p \in Procs |-> "idle"]
    /\ op = [p \in Procs |-> "none"]
    /\ target = [p \in Procs |-> NoId]
    /\ agg = [p \in Procs |-> Blank("unborn")]
    /\ cands = [p \in Procs |-> {}]
    /\ settling = -1
    /\ confirmed = {}
    /\ restarts = 0

Begin(p) ==
    BeginCreate(p) \/ BeginCancel(p) \/ BeginConfirm(p) \/ BeginReschedule(p)

(* What the event loop goes on with once a query is answered. *)
Continue(p) == ReadWorkloads(p) \/ TryCandidate(p) \/ CheckOverlap(p) \/ Save(p)

Next ==
    \/ \E p \in Procs : Begin(p) \/ Continue(p)
    \/ SettleConfirmed \/ SettlePending \/ Purge
    \/ \E w \in Workers : HireWorker(w) \/ RemoveWorker(w)
    \/ Tick \/ Restart

Spec == Init /\ [][Next]_vars

(* The hourly cron keeps firing. Nobody has to send a request, go on with   *)
(* one, hire, purge or let time pass.                                       *)
FairSpec == Spec /\ WF_vars(SettleConfirmed) /\ WF_vars(SettlePending)

-----------------------------------------------------------------------------
(* Properties *)

Kinds == {"create", "cancel", "confirm", "reschedule"}
Awaits == {"idle", "assign", "try", "check", "save"}

(* Every variable has its type; an idle request holds nothing. *)
TypeOK ==
    /\ now \in Nat
    /\ row \in [Ids -> Row]
    /\ staffing \in [Workers -> {"unhired", "working", "gone"}]
    /\ pc \in [Procs -> Awaits]
    /\ op \in [Procs -> Kinds \cup {"none"}]
    /\ target \in [Procs -> Ids \cup {NoId}]
    /\ agg \in [Procs -> Row]
    /\ cands \in [Procs -> SUBSET (Nat \X Workers)]
    /\ settling \in Nat \cup {-1}
    /\ confirmed \subseteq Ids
    /\ restarts \in Nat
    /\ \A p \in Procs : (pc[p] = "idle") <=> (target[p] = NoId)

(* No stylist is in two visits at once, whatever requests interleave between *)
(* countOverlaps and save, and also when a stale write brings a cancelled    *)
(* reservation back. (The exclusion constraint backs up the query.)          *)
NoWorkerOverlap ==
    \A i, j \in Ids :
        /\ i # j /\ Occupies(row[i]) /\ Occupies(row[j])
        /\ row[i].worker = row[j].worker
        => ~Overlap(row[i], row[j])

(* A reservation counts as confirmed or fulfilled only if the salon          *)
(* confirmed it at some time, and as fulfilled only once its visit is over:  *)
(* no stale write and no cron run turns pendiente into cumplida, or an       *)
(* early, moved visit into a fulfilled one.                                  *)
FulfilledIsEarned ==
    \A id \in Ids :
        /\ row[id].status \in {"confirmada", "cumplida"} => id \in confirmed
        /\ row[id].status = "cumplida" => Ended(row[id], now)

(* A reservation's stylist exists: one is removed only when no row refers to *)
(* her, and no in-flight request can bring one back.                         *)
WorkersExist ==
    \A id \in Ids : Exists(id) => row[id].worker \in Staff \cup {Default}

(* The part of a reservation no operation may change: its owner, its         *)
(* services and, if the client chose her, its stylist.                       *)
SameBooking(r, s) ==
    /\ r.owner = s.owner
    /\ r.dur = s.dur
    /\ r.pinned = s.pinned
    /\ s.pinned => r.worker = s.worker

(* While its row lives, a reservation keeps that part, whatever stale        *)
(* aggregates are written over it; a deleted id never comes back.            *)
BookingIsKept ==
    [][\A id \in Ids :
          /\ Exists(id) /\ Exists(id)' => SameBooking(row'[id], row[id])
          /\ row[id].status = "purged" => ~Exists(id)']_row

SnapshotAgrees(p) ==
    /\ op[p] # "none"
    /\ pc[p] \in {"assign", "try"} => ~agg[p].pinned
    /\ agg[p].status \in {"pendiente", "confirmada", "cancelada"}
    /\ agg[p].status = "confirmada" => op[p] = "confirm" \/ target[p] \in confirmed
    /\ op[p] = "create" =>
          /\ row[target[p]].status = "unborn"
          /\ agg[p].status = "pendiente"
          /\ \A q \in Procs \ {p} : target[q] # target[p]
    /\ op[p] # "create" =>
          /\ row[target[p]].status # "unborn"
          /\ Exists(target[p]) => SameBooking(agg[p], row[target[p]])

(* How stale an in-flight aggregate can be: never in what was booked, never  *)
(* fulfilled, confirmed only if the salon did, and alone on its id if it is  *)
(* being created. This is what makes the unconditional UPDATE harmless to    *)
(* everything but the status, the window and a stylist the system chose.     *)
SnapshotsAgree == \A p \in Procs : pc[p] # "idle" => SnapshotAgrees(p)

(* The reservations that are not cancelled, as visits of an agenda. *)
Visit(id) ==
    [id |-> id, worker |-> row[id].worker, from |-> row[id].start,
     to |-> EndOf(row[id]), pinned |-> row[id].pinned]

Calendar == INSTANCE WorkerCalendar
    WITH agenda <- {Visit(id) : id \in {i \in Ids : Occupies(row[i])}}

(* Every step writes one visit that clashes with nobody, or frees some. *)
ImplementsCalendar == Calendar!Spec

(* The answers a request may still have to wait for: one for the workloads,  *)
(* one for each stylist to try, one for its check and one for its write.     *)
AnswersAhead ==
    [p \in Procs |->
        CASE pc[p] = "idle" -> 0
          [] pc[p] = "save" -> 1
          [] pc[p] = "check" -> 2
          [] pc[p] = "try" -> 2 + Cardinality(cands[p])
          [] pc[p] = "assign" -> 3 + Cardinality(Workers)]

(* However the agenda and the staff change under it, a request is never      *)
(* stuck and never goes round in the assigner's loop: whatever it waits for, *)
(* the next answer leaves it with fewer to wait for, so that it ends after   *)
(* three answers and one per stylist at most, also when everybody is busy    *)
(* or its write is rejected.                                                 *)
RequestsAdvance ==
    \A p \in Procs :
        pc[p] # "idle" =>
            ENABLED (Continue(p) /\ AnswersAhead'[p] < AnswersAhead[p])

Overdue(id) ==
    row[id].status \in {"pendiente", "confirmada"} /\ Ended(row[id], now)

(* A reservation whose visit is over does not stay pending or confirmed: a   *)
(* row confirmed between the two UPDATEs, or left by a restart between them, *)
(* is settled by a later run.                                                *)
OverdueIsSettled == \A id \in Ids : Overdue(id) ~> ~Overdue(id)

(* reservation-status.ts:14: "`cumplida` y `cancelada` son estados           *)
(* terminales". A request that read the row before it ended writes it back.  *)
TerminalIsFinal ==
    [][\A id \in Ids : row[id].status \in Terminal =>
          row'[id].status \in {row[id].status, "purged"}]_row

(* reservation.ts:200: rescheduling "Conserva el estado". A confirmed        *)
(* reservation never goes back to pending, where the cron would cancel it.   *)
ConfirmationIsKept ==
    [][\A id \in Ids :
          row[id].status = "confirmada" => row'[id].status # "pendiente"]_row
=============================================================================
