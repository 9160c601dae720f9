----------------------------- MODULE PeriodToken -----------------------------
(***************************************************************************)
(* Arithmetic on dates.  current_period_token (auth.rs): the integer that  *)
(* stands for the budget period of an instant; the spend tracker compares  *)
(* these codes and nothing else, so they alone say when a budget is reset. *)
(* civil_from_days (provider/sigv4.rs): the date that signs a request to   *)
(* Bedrock, computed without the time crate.                               *)
(*                                                                         *)
(* The clock is counted in days since 2024-01-01, a Monday; the calendar   *)
(* of the time crate is written out for the years before 2100.             *)
(***************************************************************************)
EXTENDS Integers

CONSTANT LastYear       \* the clock runs from 2024 to the end of this year

ASSUME PeriodTokenAssumption == LastYear \in 2024..2099

VARIABLE day            \* OffsetDateTime::now_utc(), to the day

(***************************************************************************)
(* The time crate.                                                         *)
(***************************************************************************)
FirstDay(y) == 365 * (y - 2024) + (y - 2021) \div 4

year(d) == CHOOSE y \in 2024..LastYear : FirstDay(y) <= d /\ d < FirstDay(y + 1)

weekday(d) == d % 7     \* 0 is Monday

ordinal(d) == d - FirstDay(year(d)) + 1

(* The ordinal of the last day before each month of year y. *)
Before(y, m) ==
    LET leap == IF y % 4 = 0 /\ m > 2 THEN 1 ELSE 0
    IN  leap + <<0, 31, 59, 90, 120, 151, 181, 212, 243, 273, 304, 334>>[m]

month(d) ==
    CHOOSE m \in 1..12 :
        /\ Before(year(d), m) < ordinal(d)
        /\ \A n \in 1..12 : Before(year(d), n) < ordinal(d) => n <= m

(* The ISO week of d is counted in the year that its Thursday is in. *)
iso_week(d) ==
    LET thursday == d - weekday(d) + 3
        start    == IF thursday < FirstDay(year(d)) THEN FirstDay(year(d) - 1)
                    ELSE IF thursday >= FirstDay(year(d) + 1) THEN FirstDay(year(d) + 1)
                    ELSE FirstDay(year(d))
    IN  (thursday - start) \div 7 + 1
-----------------------------------------------------------------------------
DaysToEpoch == 19723    \* from 1970-01-01 to 2024-01-01

(* Mutant: weeks counted from the first of January. *)
current_period_token_of_ordinal(period, d) ==
    CASE period = "day"   -> DaysToEpoch + d
      [] period = "week"  -> year(d) * 100 + (ordinal(d) - 1) \div 7
      [] period = "month" -> year(d) * 100 + month(d)

current_period_token(period, d) ==
    CASE period = "day"   -> DaysToEpoch + d
      [] period = "week"  -> year(d) * 100 + iso_week(d)
      [] period = "month" -> year(d) * 100 + month(d)

(* Mutant: the leap days are not taken out before the division by 365. *)
civil_from_days_365(n) ==
    LET z   == n + 719468
        era == z \div 146097
        doe == z - era * 146097
        yoe == doe \div 365
        doy == doe - (365 * yoe + yoe \div 4 - yoe \div 100)
        mp  == (5 * doy + 2) \div 153
        m   == IF mp < 10 THEN mp + 3 ELSE mp - 9
    IN  [year |-> yoe + era * 400 + (IF m <= 2 THEN 1 ELSE 0), month |-> m,
         day |-> doy - (153 * mp + 2) \div 5 + 1]

(* n, the days since 1970, is not negative: it comes from an unsigned      *)
(* number of seconds.  Years begin in March here.                          *)
civil_from_days(n) ==
    LET z   == n + 719468
        era == z \div 146097
        doe == z - era * 146097
        yoe == (doe - doe \div 1460 + doe \div 36524 - doe \div 146096) \div 365
        doy == doe - (365 * yoe + yoe \div 4 - yoe \div 100)
        mp  == (5 * doy + 2) \div 153
        m   == IF mp < 10 THEN mp + 3 ELSE mp - 9
    IN  [year |-> yoe + era * 400 + (IF m <= 2 THEN 1 ELSE 0), month |-> m,
         day |-> doy - (153 * mp + 2) \div 5 + 1]

ClockInit == day = 0

Midnight ==
    /\ day + 1 < FirstDay(LastYear + 1)
    /\ day' = day + 1

ClockSpec == ClockInit /\ [][Midnight]_day
-----------------------------------------------------------------------------
(***************************************************************************)
(* Properties.                                                             *)
(***************************************************************************)

(* Day and month codes never go back, and change exactly where the period  *)
(* does: a budget is reset at the end of its day or month, never within,   *)
(* and a later period never shares the code of an earlier one (what        *)
(* ProxyAssumption asks of Calendar).  The code of a week changes on every *)
(* Monday and on the first of January, which may cut a week in two, and on *)
(* no other day.                                                           *)
CodesFollowTheCalendar ==
    [][LET before(p) == current_period_token(p, day)
           after(p)  == current_period_token(p, day')
       IN  /\ before("day") < after("day")
           /\ IF month(day') = month(day) THEN before("month") = after("month")
              ELSE before("month") < after("month")
           /\ before("week") # after("week")
                 <=> weekday(day') = 0 \/ year(day') # year(day)]_day

(* A request is signed with the date of the calendar, at the end of a      *)
(* month, in a leap year and at New Year too: Bedrock rejects another one. *)
SignedDateIsTheDate ==
    civil_from_days(DaysToEpoch + day) =
        [year |-> year(day), month |-> month(day),
         day |-> ordinal(day) - Before(year(day), month(day))]
=============================================================================
