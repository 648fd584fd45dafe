--------------------------- MODULE SalonCalendar ---------------------------
(***************************************************************************)
(* The salon's calendar: opening hours, the Colombian holidays that shorten *)
(* them (salon-schedule.ts), the week of the staff panel (semana.ts) and    *)
(* the way between an instant and the salon's clock (salon-time.ts,         *)
(* salon-day.ts).  Pure operators.                                          *)
(*                                                                         *)
(* A civil date is <<year, month, day>>, an instant the minutes since       *)
(* 1970-01-01T00:00Z, a day the days since then.                            *)
(***************************************************************************)
EXTENDS Integers, Sequences, FiniteSetsExt

CONSTANT OffsetAt(_)     \* minutes the zone SALON_TZ is ahead of UTC at an instant

DayMin == 24 * 60

(***************************************************************************)
(* Date of the JavaScript library: days from a civil date and back.         *)
(***************************************************************************)
Leap(y) == y % 4 = 0 /\ (y % 100 # 0 \/ y % 400 = 0)
DaysBeforeYear(y) == 365 * (y - 1970) + (y - 1969) \div 4 - (y - 1901) \div 100 + (y - 1601) \div 400
MonthStart(y, m) ==
    <<0, 31, 59, 90, 120, 151, 181, 212, 243, 273, 304, 334, 365>>[m] + (IF m > 2 /\ Leap(y) THEN 1 ELSE 0)
DateUTC(date) == DaysBeforeYear(date[1]) + MonthStart(date[1], date[2]) + date[3] - 1
CivilOf(day) ==
    LET around == 1970 + (day \div 365)
        y == CHOOSE y \in around - 1 .. around : DaysBeforeYear(y) <= day /\ day < DaysBeforeYear(y + 1)
        ofYear == day - DaysBeforeYear(y)
        m == CHOOSE m \in 1..12 : MonthStart(y, m) <= ofYear /\ ofYear < MonthStart(y, m + 1)
    IN  <<y, m, ofYear - MonthStart(y, m) + 1>>

weekdayUtcSun0(date) == (DateUTC(date) + 4) % 7        \* 0 is Sunday
isWeekendYmd(date) == weekdayUtcSun0(date) \in {0, 6}

(***************************************************************************)
(* Holidays.                                                                *)
(***************************************************************************)
FIJOS == {<<1, 1>>, <<5, 1>>, <<7, 20>>, <<8, 7>>, <<12, 8>>, <<12, 25>>}
TRASLADABLES == {<<1, 6>>, <<3, 19>>, <<6, 29>>, <<8, 15>>, <<10, 12>>, <<11, 1>>, <<11, 11>>}
PASCUA_SIN_TRASLADO == {-3, -2}
PASCUA_CON_TRASLADO == {43, 64, 71}

domingoDePascua(year) ==
    LET a == year % 19        b == year \div 100       c == year % 100
        d == b \div 4         e == b % 4               f == (b + 8) \div 25
        g == (b - f + 1) \div 3
        h == (19 * a + b - d - g + 15) % 30
        i == c \div 4         k == c % 4
        l == (32 + 2 * e + 2 * i - h - k) % 7
        m == (a + 11 * h + 22 * l) \div 451
        n == h + l - 7 * m + 114
    IN  DateUTC(<<year, n \div 31, (n % 31) + 1>>)

siguienteLunes(day) == day + ((8 - weekdayUtcSun0(CivilOf(day))) % 7)

\* Days of the holidays computed for a year; the code caches them per year,
\* which the purity of the computation makes invisible.
colombianHolidaysOfYear(year) ==
    {DateUTC(<<year, f[1], f[2]>>) : f \in FIJOS}
      \union {siguienteLunes(DateUTC(<<year, f[1], f[2]>>)) : f \in TRASLADABLES}
      \union {domingoDePascua(year) + off : off \in PASCUA_SIN_TRASLADO \union PASCUA_CON_TRASLADO}

isColombianHolidayYmd(date) == DateUTC(date) \in colombianHolidaysOfYear(date[1])

usesWeekendHoursYmd(date) == isWeekendYmd(date) \/ isColombianHolidayYmd(date)

Hours == [weekday |-> [open |-> 8 * 60, close |-> 20 * 60], weekend |-> [open |-> 9 * 60, close |-> 19 * 60]]

laborMinutesForCalendarDay(date) ==
    LET hours == IF usesWeekendHoursYmd(date) THEN Hours.weekend ELSE Hours.weekday
    IN  hours.close - hours.open

(***************************************************************************)
(* The week of the staff panel.                                             *)
(***************************************************************************)
lunesDeLaSemana(date) == CivilOf(DateUTC(date) - ((weekdayUtcSun0(date) + 6) % 7))
diasDeLaSemana(lunes) == [i \in 1..7 |-> CivilOf(DateUTC(lunes) + i - 1)]
capacidadDelDia(date) == laborMinutesForCalendarDay(date)

(***************************************************************************)
(* The salon's clock.                                                       *)
(***************************************************************************)
getDatePartsInTz(instant) ==
    LET there == instant + OffsetAt(instant)
    IN  [date |-> CivilOf(there \div DayMin), minOfDay |-> there % DayMin]

\* What an instant shows on the salon's clock: the day and the minute of it.
getSalonNow(now) == getDatePartsInTz(now)

getDayBounds(date, salonNow) ==
    LET hours == IF usesWeekendHoursYmd(date) THEN Hours.weekend ELSE Hours.weekday
        isToday == date = salonNow.date
        start == IF isToday THEN Max({hours.open, salonNow.minOfDay}) ELSE hours.open
    IN  [openMin |-> hours.open, closeMin |-> hours.close, isToday |-> isToday,
         effectiveStartMin |-> start, effectiveCapacityMin |-> Max({0, hours.close - start})]

\* A triple of numbers that names a day of the calendar.
parseYmdEstricto(ymd) ==
    /\ ymd[2] \in 1..12 /\ ymd[3] \in 1..31
    /\ CivilOf(DateUTC(ymd))[2] = ymd[2] /\ CivilOf(DateUTC(ymd))[3] = ymd[3]

NoInstant == -1        \* null; instants here lie after 1970
Adjusted(asIfUtc, instant) ==
    LET seen == getDatePartsInTz(instant)
    IN  instant + (asIfUtc - (DateUTC(seen.date) * DayMin + seen.minOfDay))
\* The second adjustment changes nothing where the first left no difference.
salonLocalToUtcIso(ymd, minOfDay) ==
    LET asIfUtc == DateUTC(ymd) * DayMin + minOfDay
    IN  IF ~parseYmdEstricto(ymd) \/ minOfDay \notin 0 .. DayMin - 1 THEN NoInstant
        ELSE Adjusted(asIfUtc, Adjusted(asIfUtc, asIfUtc))

fechaDelSalon(now) == getDatePartsInTz(now).date
inicioDelDiaDelSalon(now) ==
    LET midnight == salonLocalToUtcIso(fechaDelSalon(now), 0)
    IN  IF midnight = NoInstant THEN now - DayMin ELSE midnight

\* What the model writes is the salon's time unless it names a zone.
instanteDelSalon(written) ==
    IF written.zone = <<>> THEN salonLocalToUtcIso(written.ymd, written.minOfDay)
    ELSE DateUTC(written.ymd) * DayMin + written.minOfDay - written.zone[1]

\* The day and minute read out to the client.
fechaYHoraEnPalabras(instant) == getDatePartsInTz(instant)

(***************************************************************************)
(* Reference definitions.                                                   *)
(***************************************************************************)
\* Easter by its rule: the first Sunday after the Paschal full moon, which the
\* epact of the year gives (the tables of the Gregorian reform).
EasterByEpact(year) ==
    LET golden == (year % 19) + 1
        century == (year \div 100) + 1
        solar == (3 * century) \div 4 - 12
        lunar == (8 * century + 5) \div 25 - 5
        raw == (11 * golden + 20 + lunar - solar) % 30
        epact == IF (raw = 25 /\ golden > 11) \/ raw = 24 THEN raw + 1 ELSE raw
        full == IF 44 - epact < 21 THEN 74 - epact ELSE 44 - epact
        moon == DateUTC(<<year, 3, 1>>) + full - 1
    IN  CHOOSE day \in moon + 1 .. moon + 7 : weekdayUtcSun0(CivilOf(day)) = 0

\* The days of a civil year.
DaysOf(year) == DateUTC(<<year, 1, 1>>) .. DateUTC(<<year, 12, 31>>)

(***************************************************************************)
(* The holidays of a year are those of the law whatever the year: the lookup *)
(* by a date's own year misses none (no moved feast leaves its year), every  *)
(* moved feast is a Monday within the week that starts on its date, Holy     *)
(* Thursday and Friday precede the Easter Sunday of the church's rule, the   *)
(* capacity the staff panel shows is what getDayBounds offers that day, and  *)
(* a week runs from Monday to Sunday across months, years and 29 February.   *)
(***************************************************************************)
HolidaysAreRight(year) ==
    LET easter == EasterByEpact(year)
        thatDay == [date |-> <<1970, 1, 1>>, minOfDay |-> 0]
    IN  /\ colombianHolidaysOfYear(year) \subseteq DaysOf(year)
        /\ domingoDePascua(year) = easter
        /\ {easter - 3, easter - 2} \subseteq colombianHolidaysOfYear(year)
        /\ \A f \in TRASLADABLES :
              \E day \in colombianHolidaysOfYear(year) :
                 /\ weekdayUtcSun0(CivilOf(day)) = 1
                 /\ day - DateUTC(<<year, f[1], f[2]>>) \in 0..6
        /\ \A feast \in {39, 60, 68} :        \* Ascension, Corpus Christi, Sacred Heart
              \E day \in colombianHolidaysOfYear(year) :
                 weekdayUtcSun0(CivilOf(day)) = 1 /\ day - (easter + feast) \in 0..6
        /\ \A day \in DaysOf(year) :
              LET date == CivilOf(day)
                  bounds == getDayBounds(date, thatDay)
                  week == diasDeLaSemana(lunesDeLaSemana(date))
              IN  /\ DateUTC(date) = day
                  /\ capacidadDelDia(date) = bounds.effectiveCapacityMin
                  /\ weekdayUtcSun0(week[1]) = 1
                  /\ \E i \in 1..7 : week[i] = date

(***************************************************************************)
(* The salon's clock and the instants agree: a time of day the salon's clock *)
(* shows is read back as an instant that shows it (also where the zone       *)
(* changes its offset), the budget's day starts at a midnight of the salon   *)
(* that is not in the future nor a day and a half away, and what the model   *)
(* writes with a zone and without one means the same instant.                *)
(***************************************************************************)
ClockIsRight(now) ==
    LET shown == getDatePartsInTz(now)
        back == salonLocalToUtcIso(shown.date, shown.minOfDay)
        midnight == inicioDelDiaDelSalon(now)
    IN  /\ back # NoInstant /\ getDatePartsInTz(back) = shown
        /\ midnight <= now /\ now - midnight < DayMin + 60
        /\ getDatePartsInTz(midnight) = [date |-> shown.date, minOfDay |-> 0]
        /\ LET there == now + OffsetAt(now)
               written == [ymd |-> CivilOf(there \div DayMin), minOfDay |-> there % DayMin]
           IN  /\ instanteDelSalon([ymd |-> written.ymd, minOfDay |-> written.minOfDay, zone |-> <<OffsetAt(now)>>]) = now
               /\ instanteDelSalon([ymd |-> written.ymd, minOfDay |-> written.minOfDay, zone |-> <<>>]) = back
=============================================================================
