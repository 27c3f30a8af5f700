---------------------------- MODULE MomentDates ----------------------------
(***************************************************************************)
(* moment-2.10.3.js, as far as the pages use it and what that rests on:    *)
(* strict parsing and formatting of dates (parseDate and dateToString of   *)
(* string.js), and the arithmetic of months, weeks and units, in UTC.      *)
(*                                                                         *)
(* A moment is [day, ms]: the days since 1970 and the time of the day.     *)
(* Months are counted from 0.  The variables are the arguments.            *)
(***************************************************************************)
EXTENDS Integers, Sequences, FiniteSets, FiniteSetsExt, SequencesExt

CONSTANTS ParseYears, \* the years of the texts that are parsed, not 0 (see createUTCDate)
          DayYears    \* the years all of whose days are reckoned with, not 0..99

VARIABLES input,      \* a text: [y, mo, d, time, shape, flaw], see Text
          mom         \* a moment

DayMs == 86400000

-----------------------------------------------------------------------------
(* Date of JavaScript: the day of a year, month and date, of which the     *)
(* last two may be out of their ranges; and back.                          *)
Leaps(y) == (y - 1) \div 4 - (y - 1) \div 100 + (y - 1) \div 400
Leap(y) == (y % 4 = 0 /\ y % 100 # 0) \/ y % 400 = 0
Before(leap) == IF leap THEN <<0, 31, 60, 91, 121, 152, 182, 213, 244, 274, 305, 335, 366>>
                ELSE <<0, 31, 59, 90, 120, 151, 181, 212, 243, 273, 304, 334, 365>>
Day(y, m, d) == LET yy == y + m \div 12
                IN 365 * (yy - 1970) + Leaps(yy) - Leaps(1970) + Before(Leap(yy))[(m % 12) + 1] + d - 1
(* The years begin in March here, so that the leap day is the last one:    *)
(* of day doe of an era of 400 years, the year; of day doy of a year, the  *)
(* month; and the date.                                                    *)
InMonth(y, doy, mp) == [y |-> y + mp \div 10, m |-> (mp + 2) % 12, d |-> doy - (153 * mp + 2) \div 5 + 1]
InYear(era, yoe, doy) == InMonth(400 * era + yoe, doy, (5 * doy + 2) \div 153)
InEra(era, doe, yoe) == InYear(era, yoe, doe - (365 * yoe + yoe \div 4 - yoe \div 100))
FromMarch(era, doe) == InEra(era, doe, (doe - doe \div 1460 + doe \div 36524 - doe \div 146096) \div 365)
Civil(dd) == FromMarch((dd + 719468) \div 146097, (dd + 719468) % 146097)

(* Date.UTC: a year before 100 is one of the twentieth century. *)
DateUTC(y, m, d) == Day(IF y \in 0..99 THEN 1900 + y ELSE y, m, d)

year(x) == Civil(x.day).y
month(x) == Civil(x.day).m
date(x) == Civil(x.day).d
day(x) == (x.day + 4) % 7
At(dd, ms) == [day |-> dd + ms \div DayMs, ms |-> ms % DayMs]
Less(a, b) == a.day < b.day \/ (a.day = b.day /\ a.ms < b.ms)

-----------------------------------------------------------------------------
daysInMonth(y, m) == Civil(DateUTC(y, m + 1, 0)).d
daysInYear(y) == IF Leap(y) THEN 366 ELSE 365

createUTCDate_TwoDigits(y, m, d, ms) == At(DateUTC(y, m, d), ms)
(* setUTCFullYear puts right what Date.UTC did to the year (and February   *)
(* of the year 0 keeps the 28 days of 1900).                               *)
createUTCDate(y, m, d, ms) ==
  LET made == At(DateUTC(y, m, d), ms)
  IN IF y < 1970 THEN [made EXCEPT !.day = Day(y, month(made), date(made))] ELSE made

YEAR == 0
MONTH == 1
DATE == 2
HOUR == 3
MINUTE == 4
SECOND == 5
MILLISECOND == 6
Millis(h, m, s, ms) == ((h * 60 + m) * 60 + s) * 1000 + ms

(* A text is a sequence of runs of digits and of other characters.  The    *)
(* tokens of a format are the same, with the place where a number goes.    *)
Digits(w, n) == [c |-> "digits", w |-> w, n |-> n]
Char(c) == [c |-> c, w |-> 1, n |-> 0]
Token(w, unit) == [c |-> "digits", w |-> w, unit |-> unit]
Literal(c) == [c |-> c, w |-> 1, unit |-> -1]

YMD == <<Token(4, YEAR), Literal("-"), Token(2, MONTH), Literal("-"), Token(2, DATE)>>
HM == YMD \o <<Literal("T"), Token(2, HOUR), Literal(":"), Token(2, MINUTE)>>
HMS == HM \o <<Literal(":"), Token(2, SECOND)>>
toTry == <<HMS \o <<Literal(","), Token(3, MILLISECOND)>>, HMS, HM, YMD>>

Pow10 == <<1, 10, 100, 1000, 10000, 100000, 1000000>>
Chars(s) == FoldLeft(LAMBDA n, p : n + p.w, 0, s)
Matches(p, token) == p.c = token.c /\ p.w >= token.w

(* One token: the first match in the rest of the text, what is before it   *)
(* is skipped; of a longer run of digits the rest remains.                 *)
Parse(st, token) ==
  LET hits == {k \in DOMAIN st.rest : Matches(st.rest[k], token)}
      k == Min(hits)
      p == st.rest[k]
      over == p.w - token.w
      n == p.n \div Pow10[over + 1]
      value == IF token.unit = MONTH THEN n - 1 ELSE n
      tail == IF over = 0 THEN <<>> ELSE <<Digits(over, p.n % Pow10[over + 1])>>
  IN IF hits = {} THEN [st EXCEPT !.unusedTokens = @ + 1]
     ELSE [rest |-> tail \o SubSeq(st.rest, k + 1, Len(st.rest)),
           skipped |-> st.skipped + Chars(SubSeq(st.rest, 1, k - 1)),
           unusedTokens |-> st.unusedTokens,
           a |-> IF token.unit < 0 THEN st.a
                 ELSE [u \in DOMAIN st.a \cup {token.unit} |-> IF u = token.unit THEN value ELSE st.a[u]]]

(* checkOverflow: is every number in its range? *)
checkOverflow(a) ==
  IF a[MONTH] < 0 \/ a[MONTH] > 11 THEN MONTH
  ELSE IF a[DATE] < 1 \/ a[DATE] > daysInMonth(a[YEAR], a[MONTH]) THEN DATE
  ELSE IF a[HOUR] > 24 \/ (a[HOUR] = 24 /\ Millis(0, a[MINUTE], a[SECOND], a[MILLISECOND]) # 0) THEN HOUR
  ELSE IF a[MINUTE] > 59 THEN MINUTE
  ELSE IF a[SECOND] > 59 THEN SECOND
  ELSE IF a[MILLISECOND] > 999 THEN MILLISECOND
  ELSE -1

currentDate == <<2015, 5, 15>>

(* configFromArray: what is missing is the current date up to the first    *)
(* number, the lowest value after it.  24:00 is noted, and stands in the   *)
(* numbers that the date is made of, too.                                  *)
configFromArray(a) ==
  LET given == {u \in DOMAIN a : u \in 0..2}
      from == IF given = {} THEN 3 ELSE Min(given)
      full == [u \in 0..6 |-> IF u < from THEN currentDate[u + 1]
                              ELSE IF u \in DOMAIN a THEN a[u] ELSE IF u = DATE THEN 1 ELSE 0]
      ms == Millis(full[HOUR], full[MINUTE], full[SECOND], full[MILLISECOND])
  IN [a |-> full, d |-> createUTCDate(full[YEAR], full[MONTH], full[DATE], ms),
      nextDay |-> ms = DayMs /\ full[HOUR] = 24]

(* isValid: every number in its range, every token found, nothing left. *)
Checked(st, config) ==
  [d |-> config.d, nextDay |-> config.nextDay,
   valid |-> /\ checkOverflow(config.a) < 0
             /\ st.a # [u \in {} |-> 0] /\ st.unusedTokens = 0
             /\ st.skipped + Chars(st.rest) = 0]
configFromStringAndFormat(text, format) ==
  LET st == FoldLeft(Parse, [rest |-> text, skipped |-> 0, unusedTokens |-> 0, a |-> [u \in {} |-> 0]], format)
  IN Checked(st, configFromArray(st.a))

Moment_NextDay(config) == config
(* Moment: copyConfig does not copy _nextDay. *)
Moment(config) == [config EXCEPT !.nextDay = FALSE]

createFromConfig(config) ==
  LET res == Moment(config) IN IF res.nextDay THEN [res EXCEPT !.d.day = @ + 1] ELSE res

(* parseDate of string.js: the first format that fits. *)
FirstFit(tried) ==
  LET fits == {i \in DOMAIN tried : tried[i].valid}
  IN IF fits = {} THEN [valid |-> FALSE] ELSE [valid |-> TRUE, d |-> tried[Min(fits)].d]
parseDate(text) ==
  FirstFit([i \in DOMAIN toTry |-> createFromConfig(configFromStringAndFormat(text, toTry[i]))])

Abs(n) == IF n < 0 THEN 0 - n ELSE n

(* zeroFill: at least w digits; a negative number has a sign. *)
zeroFill(n, w) ==
  LET size == CHOOSE k \in 1..7 : Abs(n) < Pow10[k] * 10 /\ (k = 1 \/ Abs(n) >= Pow10[k])
  IN (IF n < 0 THEN <<Char("-")>> ELSE <<>>) \o <<Digits(Max({size, w}), Abs(n))>>

Unit(x, u) == CASE u = YEAR -> year(x) [] u = MONTH -> month(x) + 1 [] u = DATE -> date(x)
                [] u = HOUR -> x.ms \div 3600000 [] u = MINUTE -> (x.ms \div 60000) % 60
                [] u = SECOND -> (x.ms \div 1000) % 60 [] u = MILLISECOND -> x.ms % 1000

(* formatMoment *)
format(x, tokens) ==
  FoldLeft(LAMBDA out, t : out \o IF t.unit < 0 THEN <<Char(t.c)>> ELSE zeroFill(Unit(x, t.unit), t.w), <<>>, tokens)
dateToString(x) == format(x, toTry[1])

-----------------------------------------------------------------------------
(* setMonth: the day is at most the last one of the month. *)
setMonth(x, value) ==
  [x EXCEPT !.day = Day(year(x), value, Min({date(x), daysInMonth(year(x), value)}))]

(* addSubtract, for a number of one unit: milliseconds, days or months. *)
DaysIn == [day |-> 1, week |-> 7, isoWeek |-> 7]
MonthsIn == [month |-> 1, quarter |-> 3, year |-> 12]
addDays(x, n) == [x EXCEPT !.day = @ + n]
add(x, n, unit) ==
  IF unit = "millisecond" THEN At(x.day, x.ms + n)
  ELSE IF unit \in DOMAIN DaysIn THEN addDays(x, DaysIn[unit] * n)
  ELSE setMonth(x, month(x) + MonthsIn[unit] * n)

(* The setters of the day of the week. *)
weekday(x, n) == addDays(x, n - day(x))
isoWeekday(x, n) == addDays(x, (IF day(x) = 0 THEN n - 7 ELSE n) - day(x))

(* startOf: the month of a year, the day of a month, the time of a day are *)
(* the first; then the weeks and quarters.                                 *)
firstMonth(x, unit) == IF unit = "year" THEN setMonth(x, 0) ELSE x
firstDay(x, unit) == IF unit \in DOMAIN MonthsIn THEN addDays(x, 1 - date(x)) ELSE x
firstWeek(x, unit) == CASE unit = "week" -> weekday(x, 0)
                        [] unit = "isoWeek" -> isoWeekday(x, 1)
                        [] unit = "quarter" -> setMonth(x, 3 * (month(x) \div 3))
                        [] OTHER -> x
startOf(x, unit) == firstWeek([firstDay(firstMonth(x, unit), unit) EXCEPT !.ms = 0], unit)
endOf(x, unit) == add(add(startOf(x, unit), 1, unit), -1, "millisecond")

(* absFloor of the quotient of integers, q > 0. *)
absFloor(p, q) == IF p < 0 THEN 0 - ((0 - p) \div q) ELSE p \div q

(* monthDiff, rounded as absFloor does: adjust lies between -1 and 1, and  *)
(* has the sign of b - anchor.                                             *)
wholeMonthDiff(a, b) == (year(b) - year(a)) * 12 + month(b) - month(a)
Adjusted(whole, b, anchor) ==
  IF b = anchor THEN whole
  ELSE IF Less(b, anchor) THEN IF whole > 0 THEN whole - 1 ELSE whole
  ELSE IF whole >= 0 THEN whole ELSE whole + 1
monthDiff(a, b) ==
  0 - Adjusted(wholeMonthDiff(a, b), b, setMonth(a, month(a) + wholeMonthDiff(a, b)))

(* diff: x - that in a unit. *)
dayDiff(dd, a, b) == IF dd > 0 /\ a.ms < b.ms THEN dd - 1 ELSE IF dd < 0 /\ a.ms > b.ms THEN dd + 1 ELSE dd
diff(x, that, unit) ==
  IF unit \in DOMAIN MonthsIn THEN absFloor(monthDiff(x, that), MonthsIn[unit])
  ELSE absFloor(dayDiff(x.day - that.day, x, that), DaysIn[unit])

(* positiveMomentsDifference: whole months, and where they end. *)
positiveMomentsDifference(base, other) ==
  LET months == wholeMonthDiff(base, other)
  IN IF Less(other, setMonth(base, month(base) + months)) THEN months - 1 ELSE months

dayOfYear(x) == x.day - Day(year(x), 0, 1) + 1

WeekOf(adjusted) == [week |-> (dayOfYear(adjusted) + 6) \div 7, year |-> year(adjusted)]
weekOfYear(x, dow, doy) ==
  LET end == doy - dow
      d0 == doy - day(x)
      d1 == IF d0 > end THEN d0 - 7 ELSE d0
      d2 == IF d1 < end - 7 THEN d1 + 7 ELSE d1
  IN WeekOf(addDays(x, d2))

weeksInYear(y, dow, doy) == weekOfYear([day |-> Day(y, 11, 31 + dow - doy), ms |-> 0], dow, doy).week

dayOfYearFromWeeks_NoWrap(y, week, wd, doy, dow) ==
  LET d == LET j == (Day(y, 0, 1) + 4) % 7 IN IF j = 0 THEN 7 ELSE j
  IN [year |-> y, dayOfYear |-> 7 * (week - 1) + (wd - dow) + dow - d + 1]
dayOfYearFromWeeks(y, week, wd, doy, dow) ==
  LET d == LET j == (Day(y, 0, 1) + 4) % 7 IN IF j = 0 THEN 7 ELSE j
      daysToAdd == dow - d + (IF d > doy THEN 7 ELSE 0) - (IF d < dow THEN 7 ELSE 0)
      doyr == 7 * (week - 1) + (wd - dow) + daysToAdd + 1
  IN IF doyr > 0 THEN [year |-> y, dayOfYear |-> doyr]
     ELSE [year |-> y - 1, dayOfYear |-> daysInYear(y - 1) + doyr]

-----------------------------------------------------------------------------
(* The texts: what a reader may write, in one of the formats or not quite. *)
Times == {<<0, 0, 0, 0>>, <<23, 59, 59, 999>>, <<24, 0, 0, 0>>, <<24, 0, 0, 1>>, <<25, 0, 0, 0>>,
          <<0, 60, 0, 0>>, <<9, 5, 60, 7>>}
Inputs == [y : ParseYears, mo : {0, 1, 2, 4, 12, 13}, d : {0, 28, 29, 30, 31, 32}, time : Times, shape : 1..4, flaw : {"none"}]
            \cup [y : ParseYears, mo : {2}, d : {1}, time : {<<0, 0, 0, 0>>}, shape : 1..4,
                  flaw : {"before", "after", "year of five digits", "month of one digit", "no hyphen"}]
Field(in, u) == CASE u = YEAR -> in.y [] u = MONTH -> in.mo [] u = DATE -> in.d [] OTHER -> in.time[u - 2]
Text(in) ==
  LET s == FoldLeft(LAMBDA out, t : out \o IF t.unit < 0 THEN <<Char(t.c)>> ELSE <<Digits(t.w, Field(in, t.unit))>>,
                    <<>>, toTry[in.shape])
  IN CASE in.flaw = "none" -> s
       [] in.flaw = "before" -> <<Char("x")>> \o s
       [] in.flaw = "after" -> Append(s, Char("Z"))
       [] in.flaw = "year of five digits" -> [s EXCEPT ![1].w = 5]
       [] in.flaw = "month of one digit" -> [s EXCEPT ![3].w = 1]
       [] OTHER -> SubSeq(s, 1, 2) \o <<Digits(4, 100 * in.mo + in.d)>> \o SubSeq(s, 6, Len(s))

Noon == [day |-> 0, ms |-> 0]
Plain == [y |-> 2000, mo |-> 1, d |-> 28, time |-> <<0, 0, 0, 0>>, shape |-> 4, flaw |-> "none"]
Days == UNION {Day(y, 0, 1)..Day(y, 11, 31) : y \in DayYears}
Init == \/ input \in Inputs /\ mom = Noon
        \/ input = Plain /\ mom \in [day : Days, ms : {0, DayMs - 1}]

-----------------------------------------------------------------------------
Shown(in, u) == IF \E i \in DOMAIN toTry[in.shape] : toTry[in.shape][i].unit = u THEN Field(in, u) ELSE 0

(* The input as hours, minutes, seconds and milliseconds, and whether it   *)
(* shows a date.                                                           *)
ShownTime(in) == Millis(Shown(in, HOUR), Shown(in, MINUTE), Shown(in, SECOND), Shown(in, MILLISECOND))
Exists(in, ms) ==
  /\ in.flaw = "none" /\ in.mo \in 1..12
  /\ in.d \in 1..Day(in.y, in.mo, 1) - Day(in.y, in.mo - 1, 1)
  /\ Shown(in, HOUR) \in 0..23 \/ ms = DayMs
  /\ Shown(in, MINUTE) < 60 /\ Shown(in, SECOND) < 60
LastNewYear(in) == in.y < 1970 /\ in.mo = 12 /\ in.d = 31 /\ Shown(in, HOUR) = 24
Understood(r, in, ms) ==
  /\ r.valid <=> Exists(in, ms)
  /\ r.valid => r.d = IF LastNewYear(in) THEN At(Day(in.y, 0, 0), ms) ELSE At(Day(in.y, in.mo - 1, in.d), ms)

(* A date that a reader enters is accepted just if it has one of the four  *)
(* formats and exists (24:00 being the end of a day), and it is understood *)
(* as it reads; but 24:00 on the last of December before 1970 is taken for *)
(* that year's beginning.                                                  *)
ParsesDates == Understood(parseDate(Text(input)), input, ShownTime(input))

Alternatives == {<<1, 4>>, <<0, 6>>}
Units == {"day", "week", "isoWeek", "month", "quarter", "year"}

(* Weeks: every day is in one of them; the next day is in the same one     *)
(* unless the next one begins; the week of 4 January (1 January) is the    *)
(* first; the last one is number weeksInYear; and from year, number and    *)
(* day of the week the day is found again (a day that lies in the year     *)
(* after that of its week is found beyond the end of the year, which the   *)
(* parser refuses).                                                        *)
WeeksExact ==
  \A c \in Alternatives :
    LET dow == c[1]
        doy == c[2]
        w(x) == weekOfYear(x, dow, doy)
        now == w(mom)
        next == add(mom, 1, "day")
        wd == IF dow = 1 /\ day(mom) = 0 THEN 7 ELSE day(mom)
        back == dayOfYearFromWeeks(now.year, now.week, wd, doy, dow)
    IN /\ IF day(next) # dow THEN w(next) = now
          ELSE w(next) = IF now.week = weeksInYear(now.year, dow, doy)
                         THEN [week |-> 1, year |-> now.year + 1] ELSE [now EXCEPT !.week = @ + 1]
       /\ (month(mom) = 0 /\ date(mom) = 7 + dow - doy) => now = [week |-> 1, year |-> year(mom)]
       /\ Day(back.year, 0, back.dayOfYear) = mom.day
       /\ back.dayOfYear > daysInYear(back.year) <=> year(mom) > now.year

(* Months and units: adding months leads into the month it should, on the  *)
(* same day or the last one, and back where it did not cut the day off;    *)
(* diff counts the months that were added; the units cut the time into     *)
(* pieces without gap or overlap; the difference of two moments is the     *)
(* greatest number of months that fits between them; and what is written   *)
(* with dateToString is read by parseDate.                                 *)
DatesAddUp ==
  /\ \A k \in {-14, -1, 0, 1, 2, 11, 12, 13} :
       LET x == add(mom, k, "month")
           last == date(add(endOf(x, "month"), 0, "day"))
       IN /\ year(x) * 12 + month(x) = year(mom) * 12 + month(mom) + k
          /\ date(x) = Min({date(mom), last}) /\ x.ms = mom.ms
          /\ date(x) = date(mom) => /\ add(x, 0 - k, "month") = mom
                                    /\ diff(x, mom, "month") = k /\ diff(mom, x, "month") = 0 - k
                                    /\ diff(x, mom, "year") = absFloor(k, 12)
  /\ \A u \in Units :
       /\ ~Less(mom, startOf(mom, u)) /\ ~Less(endOf(mom, u), mom)
       /\ startOf(endOf(mom, u), u) = startOf(mom, u) /\ endOf(startOf(mom, u), u) = endOf(mom, u)
       /\ LET after == add(endOf(mom, u), 1, "millisecond") IN startOf(after, u) = after
  /\ \A d \in {0, 1, 27, 28, 29, 30, 31, 32, 59, 365, 366} :
       LET other == add(add(mom, d, "day"), 1, "millisecond")
           n == positiveMomentsDifference(mom, other)
       IN /\ ~Less(other, add(mom, n, "month")) /\ Less(other, add(mom, n + 1, "month"))
          /\ diff(other, mom, "day") = d /\ diff(mom, other, "week") = 0 - (d \div 7)
  /\ parseDate(dateToString(mom)) = [valid |-> TRUE, d |-> mom]

Dates == /\ mom = Noon => ParsesDates
         /\ input = Plain => WeeksExact /\ DatesAddUp
=============================================================================
