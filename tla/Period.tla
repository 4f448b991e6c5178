------------------------------- MODULE Period -------------------------------
(***************************************************************************)
(* The billing period of a GpuBudget (controllers/period.go), and the      *)
(* piece of the past the query looks at (BuildGPUHoursQuery of             *)
(* metrics/prometheus.go): pure operators, no state.                       *)
(*                                                                         *)
(* Time is a number of seconds since 1970-01-01T00:00Z, a day the number   *)
(* of midnights since; the code's fractions of a second are below every    *)
(* bound that occurs here.  The calendar of Go's package time is given by  *)
(* the day each month begins on.                                           *)
(***************************************************************************)
EXTENDS Integers

Minute == 60
Day == 86400

Periods == {"Daily", "Weekly", "Monthly"}

DayOf(t) == t \div Day

-----------------------------------------------------------------------------
(* The calendar                                                            *)

\* time.Weekday, Sunday = 0; 1970-01-01 was a Thursday.
Weekday(d) == (d + 4) % 7

Leap(y) == y % 4 = 0 /\ (y % 100 # 0 \/ y % 400 = 0)

LeapsBefore(y) == (y - 1) \div 4 - (y - 1) \div 100 + (y - 1) \div 400

YearStart(y) == 365 * (y - 1970) + LeapsBefore(y) - LeapsBefore(1970)

DaysBefore == <<0, 31, 59, 90, 120, 151, 181, 212, 243, 273, 304, 334>>

\* The day month m begins on, m counted from January 1970.
MonthStart(m) ==
  LET y == 1970 + m \div 12
      i == (m % 12) + 1
  IN  YearStart(y) + DaysBefore[i] + (IF i > 2 /\ Leap(y) THEN 1 ELSE 0)

InMonth(m, d) == MonthStart(m) <= d /\ d < MonthStart(m + 1)

MonthOf(d) == CHOOSE m \in (d \div 31) .. (d \div 28) : InMonth(m, d)

-----------------------------------------------------------------------------
(* periodStart                                                             *)

\* Mutant of DaysSinceMonday: the week begins on Sunday, as time.Weekday has it.
DaysSinceSunday(d) == Weekday(d)

DaysSinceMonday(d) == (Weekday(d) + 6) % 7

\* The day a period begins on, for a day within it.
StartDay(period, d) ==
  CASE period = "Daily"  -> d
    [] period = "Weekly" -> d - DaysSinceMonday(d)
    [] OTHER             -> MonthStart(MonthOf(d))

PeriodStart(period, now) == Day * StartDay(period, DayOf(now))

-----------------------------------------------------------------------------
(* The window of the query                                                 *)

\* The default query resamples the reservations at multiples of five minutes.
Resample == 300

\* Mutant of Window: the clamp is as long as two steps of the resampling.
WindowOfTwoSteps(elapsed) == IF elapsed < 2 * Resample THEN 2 * Resample ELSE elapsed

\* Mutant of Window: the range is given in whole hours.
WindowInHours(elapsed) == 3600 * (elapsed \div 3600)

\* BuildGPUHoursQuery: the range is never shorter than a minute.
Window(elapsed) == IF elapsed < Minute THEN Minute ELSE elapsed

\* Prometheus: whether a subquery of that range, evaluated at time "at",
\* takes a sample at instant i; the range is open at its earlier end.
Sampled(i, at, window) == i % Resample = 0 /\ at - window < i /\ i <= at

-----------------------------------------------------------------------------
(* What a period is, apart from how the code finds its start               *)

\* A day on which a period begins.
Begins(period, d) ==
  CASE period = "Daily"  -> TRUE
    [] period = "Weekly" -> Weekday(d) = 1
    [] OTHER             -> \E m \in (d \div 31) .. (d \div 28) : MonthStart(m) = d

==============================================================================
