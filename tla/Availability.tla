--------------------------- MODULE Availability ----------------------------
(***************************************************************************)
(* What the salon tells about its free time: the staff agenda of a day and  *)
(* of a week (workers.service.ts), the occupancy calendar of the portal     *)
(* (get-occupancy.use-case.ts), the free half hours of the assistant        *)
(* (availability-query.adapter.ts, check-availability.tool.ts) and the      *)
(* hours WhatsApp offers to move a visit (slot-options.ts,                  *)
(* reservation-actions.adapter.ts).  Pure operators over the rows read.     *)
(*                                                                         *)
(* A row is [worker, date, startMin, duration, status]; `staff' holds the   *)
(* stylists a client may be given, DefaultWorker the agenda of "Sin         *)
(* preferencia".  `now' is an instant.                                      *)
(***************************************************************************)
EXTENDS SalonCalendar, SequencesExt

CONSTANTS DefaultWorker,
          Fallback      \* SALON_PARALLEL_STYLISTS_FALLBACK

Everyone(staff) == staff \union {DefaultWorker}
\* MUTANT of Live: a cancelled visit still takes its hour.
LiveEvenCancelled(rows) == rows
Live(rows) == {r \in rows : r.status # "cancelada"}
EndOf(row) == row.startMin + row.duration

\* The part of a row still to come at minute `from' of its day.
Remaining(row, from) == IF EndOf(row) > from THEN EndOf(row) - Max({row.startMin, from}) ELSE 0

countParallelStylists(staff) == IF staff # {} THEN Cardinality(staff) ELSE Fallback

getAvailabilityByDate(date, rows, staff, now) ==
    LET salonNow == getSalonNow(now)
        bounds == getDayBounds(date, salonNow)
        ofDay == {r \in Live(rows) : r.date = date}
        of(w) == {r \in ofDay : r.worker = w}
        used(w) == MapThenSumSet(LAMBDA r : IF bounds.isToday THEN Remaining(r, salonNow.minOfDay) ELSE r.duration, of(w))
    IN  [dayBounds |-> bounds,
         workers |-> [w \in Everyone(staff) |->
            [assignable |-> w # DefaultWorker,
             usedMinutes |-> used(w),
             availableMinutes |-> Max({0, bounds.effectiveCapacityMin - used(w)}),
             reservations |-> {[startMin |-> r.startMin, endMin |-> EndOf(r)] : r \in of(w)}]]]

getWeekLoad(date, rows, staff) ==
    LET days == diasDeLaSemana(lunesDeLaSemana(date))
    IN  [w \in Everyone(staff) |-> [i \in 1..7 |->
            [date |-> days[i],
             usedMinutes |-> MapThenSumSet(LAMBDA r : r.duration, {r \in Live(rows) : r.worker = w /\ r.date = days[i]}),
             capacityMinutes |-> capacidadDelDia(days[i])]]]

\* An empty interval is refused before anything is read.
getOccupancy(from, to, rows, staff, now) ==
    LET salonNow == getSalonNow(now)
        effective(r) == IF r.date = salonNow.date THEN Remaining(r, salonNow.minOfDay) ELSE r.duration
    IN  [day \in DateUTC(from) .. DateUTC(to) |->
            [usedMinutes |-> MapThenSumSet(effective, {r \in Live(rows) : DateUTC(r.date) = day}),
             capacityMinutes |-> countParallelStylists(staff)
                                   * getDayBounds(CivilOf(day), salonNow).effectiveCapacityMin]]

(***************************************************************************)
(* The assistant's free half hours.                                         *)
(***************************************************************************)
Earlier(b1, b2) == b1.startMin < b2.startMin

\* The blocks of one agenda, those that touch or overlap made one.
fundir(blocks) ==
    LET extend(merged, b) ==
            IF merged # <<>> /\ b.startMin <= Last(merged).endMin
            THEN [merged EXCEPT ![Len(merged)].endMin = Max({@, b.endMin})]
            ELSE Append(merged, b)
    IN  FoldLeft(extend, <<>>, SetToSortSeq({b \in blocks : b.endMin > b.startMin}, Earlier))

\* The sweep over the minutes at which a block opens or closes.  What happens
\* within one minute is counted before a stretch is emitted.
ocupacionSimultanea(agendas) ==
    LET blocks == UNION {{[who |-> w, startMin |-> b.startMin, endMin |-> b.endMin] : b \in ToSet(fundir(agendas[w]))}
                            : w \in DOMAIN agendas}
        minutes == {b.startMin : b \in blocks} \union {b.endMin : b \in blocks}
        ocupados(m) == Cardinality({b \in blocks : b.startMin <= m}) - Cardinality({b \in blocks : b.endMin <= m})
    IN  {[startMin |-> m, endMin |-> Min({n \in minutes : n > m}), busyWorkers |-> ocupados(m)]
            : m \in {x \in minutes : ocupados(x) > 0}}

getDayAvailability(date, rows, staff, now) ==
    LET a == getAvailabilityByDate(date, rows, staff, now)
    IN  [effectiveStartMin |-> a.dayBounds.effectiveStartMin, closeMin |-> a.dayBounds.closeMin,
         assignableWorkers |-> Cardinality({w \in DOMAIN a.workers : a.workers[w].assignable}),
         busySegments |-> ocupacionSimultanea([w \in DOMAIN a.workers |-> a.workers[w].reservations])]

SlotMinutes == 30
Grid(start, close, length) == {t \in start .. close - length : t % SlotMinutes = 0}

freeSlots(day) ==
    {t \in Grid(day.effectiveStartMin, day.closeMin, SlotMinutes) :
        ~ \E s \in day.busySegments :
             /\ t < s.endMin /\ t + SlotMinutes > s.startMin
             /\ s.busyWorkers >= day.assignableWorkers}

HorizonDays == 90

consultarDisponibilidad(fecha, rows, staff, now) ==
    LET today == fechaDelSalon(now)
        ahead == DateUTC(fecha) - DateUTC(today)
    IN  CASE ~parseYmdEstricto(fecha) -> [motivo |-> "fecha_invalida"]
          [] parseYmdEstricto(fecha) /\ ahead < 0 -> [motivo |-> "fecha_pasada"]
          [] parseYmdEstricto(fecha) /\ ahead > HorizonDays -> [motivo |-> "fecha_muy_lejana"]
          [] OTHER -> LET day == getDayAvailability(fecha, rows, staff, now)
                      IN  [motivo |-> "ninguno", estilistas |-> day.assignableWorkers, libres |-> freeSlots(day)]

(***************************************************************************)
(* The hours WhatsApp offers for a visit of a given length.                 *)
(***************************************************************************)
freeStartTimes(day, busyBlocks, duration) ==
    IF duration <= 0 THEN {}
    ELSE {t \in Grid(day.effectiveStartMin, day.closeMin, duration) :
            ~ \E b \in busyBlocks : t < b.endMin /\ t + duration > b.startMin}

slotsFor(date, worker, duration, rows, staff, now) ==
    LET a == getAvailabilityByDate(date, rows, staff, now)
    IN  IF worker \notin DOMAIN a.workers THEN {}
        ELSE freeStartTimes(a.dayBounds, a.workers[worker].reservations, duration)

HorizonteDias == 60

\* Day by day from `day' on, until `max' days with an hour to offer are found.
RECURSIVE DaysFrom(_, _, _, _, _, _, _, _)
DaysFrom(day, last, worker, duration, max, rows, staff, now) ==
    IF max = 0 \/ day > last THEN <<>>
    ELSE IF slotsFor(CivilOf(day), worker, duration, rows, staff, now) # {}
         THEN <<CivilOf(day)>> \o DaysFrom(day + 1, last, worker, duration, max - 1, rows, staff, now)
         ELSE DaysFrom(day + 1, last, worker, duration, max, rows, staff, now)

daysWithAvailability(worker, duration, max, rows, staff, now) ==
    LET today == DateUTC(getSalonNow(now).date)
    IN  DaysFrom(today, today + HorizonteDias - 1, worker, duration, max, rows, staff, now)

(***************************************************************************)
(* Reference definitions: who is with a client, minute by minute, and when  *)
(* the use case would accept a visit (reservation-scheduling.ts,            *)
(* countOverlaps).                                                          *)
(***************************************************************************)
BusyAt(rows, date, minute) ==
    {r.worker : r \in {x \in rows : /\ x.date = date /\ x.status # "cancelada"
                                   /\ x.startMin <= minute /\ minute < x.startMin + x.duration}}

Accepts(hours, rows, worker, date, start, duration, now) ==
    /\ hours.open <= start /\ start + duration <= hours.close
    /\ salonLocalToUtcIso(date, start) >= now
    /\ \A minute \in start .. start + duration - 1 : worker \notin BusyAt(rows, date, minute)

(***************************************************************************)
(* Every view of the agenda tells the same truth, whatever rows there are    *)
(* and whether the day asked about is over, today's or still to come.  The   *)
(* assistant refuses a day exactly when it is over or more than ninety days  *)
(* away, and no visit could be accepted on a day that is over.  A half hour   *)
(* it offers has, at each of its minutes, a stylist without a client, and no *)
(* such half hour is withheld.  Of a day that is not over, an hour WhatsApp   *)
(* offers is one the use case accepts for that stylist, and every accepted    *)
(* hour on the grid is offered; the days it offers are the next ones with     *)
(* such an hour.  The minutes a stylist has left are the minutes of opening   *)
(* still to come without a visit of hers.  The week, the day and the          *)
(* occupancy calendar, computed by three different queries, agree on minutes  *)
(* used and capacity: the week on the whole day also while it is under way.   *)
(***************************************************************************)
AgendasAgree(date, rows, staff, now) ==
    LET a == getAvailabilityByDate(date, rows, staff, now)
        tool == consultarDisponibilidad(date, rows, staff, now)
        day == a.dayBounds
        isOver == salonLocalToUtcIso(date, DayMin - 1) < now
        isFar == salonLocalToUtcIso(date, 0) > inicioDelDiaDelSalon(now) + 90 * DayMin
        opening == day.effectiveStartMin .. day.closeMin - 1
        busy == [minute \in opening |-> BusyAt(rows, date, minute)]
        free(minute) == busy[minute] = {} \/ Cardinality(busy[minute]) < Cardinality(staff)
        hoursOf(d) == IF usesWeekendHoursYmd(d) THEN Hours.weekend ELSE Hours.weekday
        accepted(w, d, duration) ==
            {t \in {30 * h : h \in 0 .. 47} : Accepts(hoursOf(d), rows, w, d, t, duration, now)}
        week == getWeekLoad(date, rows, staff)
        occupancy == getOccupancy(date, date, rows, staff, now)[DateUTC(date)]
    IN  /\ tool.motivo = IF isOver THEN "fecha_pasada" ELSE IF isFar THEN "fecha_muy_lejana" ELSE "ninguno"
        /\ tool.motivo = "ninguno" =>
              tool.libres = {t \in opening : /\ t % 30 = 0 /\ t + 30 <= day.closeMin
                                            /\ \A minute \in t .. t + 29 : free(minute)}
        /\ \A w \in staff, duration \in {30, 90} :
              IF isOver THEN accepted(w, date, duration) = {}
              ELSE slotsFor(date, w, duration, rows, staff, now) = accepted(w, date, duration)
        /\ \A w \in staff :
              LET offered == daysWithAvailability(w, 90, 2, rows, staff, now)
                  coming == DateUTC(fechaDelSalon(now)) .. DateUTC(offered[2])
              IN  /\ Len(offered) = 2
                  /\ {d \in coming : accepted(w, CivilOf(d), 90) # {}} = {DateUTC(offered[1]), DateUTC(offered[2])}
                  /\ DateUTC(offered[1]) < DateUTC(offered[2])
        /\ \A w \in Everyone(staff) :
              a.workers[w].availableMinutes = Cardinality({minute \in opening : w \notin busy[minute]})
        /\ \A w \in Everyone(staff), i \in 1..7 :
              week[w][i].date = date =>
                 IF day.isToday
                 THEN /\ week[w][i].usedMinutes >= a.workers[w].usedMinutes
                      /\ week[w][i].capacityMinutes >= day.effectiveCapacityMin
                 ELSE /\ week[w][i].usedMinutes = a.workers[w].usedMinutes
                      /\ week[w][i].capacityMinutes = day.effectiveCapacityMin
        /\ occupancy.usedMinutes = MapThenSumSet(LAMBDA w : a.workers[w].usedMinutes, Everyone(staff))
        /\ occupancy.capacityMinutes = countParallelStylists(staff) * day.effectiveCapacityMin
=============================================================================
