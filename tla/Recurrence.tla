----------------------------- MODULE Recurrence -----------------------------
(***************************************************************************)
(* When a recurring broadcast comes round again.  An instant is a minute   *)
(* of Jakarta's wall clock, counted from the first day of month 1.         *)
(*                                                                         *)
(* Starts[m]     the day, counted from 0, on which month m begins          *)
(* FirstWeekday  the weekday of day 0 (0 is Sunday)                        *)
(*                                                                         *)
(* rule   how often, at which minute of the day, on which day, until when  *)
(* due    the run that is planned, or None; last is when the one before it *)
(*        was over                                                         *)
(***************************************************************************)
EXTENDS Integers

CONSTANTS Months, Starts, FirstWeekday, Rule, Lateness, None

MinutesADay == 1440
Month == 1..Months
Instant == 0..(Starts[Months] * MinutesADay - 1)

RecurrenceAssumption ==
    /\ Months \in Nat \ {0} /\ Starts \in [Month -> Nat] /\ Starts[1] = 0
    /\ \A m \in 1..(Months - 1) : Starts[m + 1] - Starts[m] \in 28..31
    /\ FirstWeekday \in 0..6
    /\ \A r \in Rule : /\ r.frequency \in {"daily", "weekly", "monthly"}
                       /\ r.minute \in 0..(MinutesADay - 1)
                       /\ r.weekday \in 0..6 /\ r.day \in 1..31 /\ r.until \in Int
    /\ Lateness \subseteq Nat /\ None \notin Int

VARIABLES rule, due, last

vars == <<rule, due, last>>

DayOf(i) == i \div MinutesADay
Weekday(d) == (d + FirstWeekday) % 7
DaysIn(m) == Starts[m + 1] - Starts[m]
MonthOf(d) == CHOOSE m \in 1..(Months - 1) : Starts[m] <= d /\ d < Starts[m + 1]

-----------------------------------------------------------------------------
(* NextOccurrence *)

AtTime(i, minute) == DayOf(i) * MinutesADay + minute
MonthlyOn_unclamped(m, day, minute) == (Starts[m] + day - 1) * MinutesADay + minute
MonthlyOn(m, day, minute) ==
    (Starts[m] + (IF day > DaysIn(m) THEN DaysIn(m) ELSE day) - 1) * MinutesADay + minute

NextDaily(r, after) ==
    LET next == AtTime(after, r.minute) IN
    IF next > after THEN next ELSE next + MinutesADay

NextWeekly(r, after) ==
    LET delta == (r.weekday - Weekday(DayOf(after)) + 7) % 7
        next == AtTime(after, r.minute) + delta * MinutesADay IN
    IF next > after THEN next ELSE next + 7 * MinutesADay

NextMonthly(r, after) ==
    LET m == MonthOf(DayOf(after))
        next == MonthlyOn(m, r.day, r.minute) IN
    IF next > after THEN next ELSE MonthlyOn(m + 1, r.day, r.minute)

NextOccurrence(r, after) ==
    CASE r.frequency = "daily" -> NextDaily(r, after)
      [] r.frequency = "weekly" -> NextWeekly(r, after)
      [] r.frequency = "monthly" -> NextMonthly(r, after)

-----------------------------------------------------------------------------
\* The first run is planned by hand, at any time.
Init ==
    /\ rule \in Rule
    /\ due \in {Starts[m] * MinutesADay + rule.minute : m \in Month \ {Months}}
    /\ last = -1

\* The run is over late minutes after it was due; the calendar of the model
\* ends with the month before the last.
Spawned(r, over) ==
    IF NextOccurrence(r, over) > r.until THEN None ELSE NextOccurrence(r, over)
SpawnNextOccurrence(late) ==
    /\ due # None
    /\ DayOf(due + late) < Starts[Months - 1]
    /\ last' = due + late
    /\ due' = Spawned(rule, due + late)
    /\ UNCHANGED rule

Next == \E late \in Lateness : SpawnNextOccurrence(late)
Spec == Init /\ [][Next]_vars

-----------------------------------------------------------------------------
(* What the rule means: the chosen day of every week or month, the last    *)
(* day of a month too short for it.                                        *)
Falls(r, d) ==
    CASE r.frequency = "daily" -> TRUE
      [] r.frequency = "weekly" -> Weekday(d) = r.weekday
      [] r.frequency = "monthly" ->
            LET m == MonthOf(d) of == d - Starts[m] + 1 IN
            of = r.day \/ (r.day > DaysIn(m) /\ of = DaysIn(m))
Occurrences(r) ==
    {d * MinutesADay + r.minute : d \in {e \in 0..(Starts[Months] - 1) : Falls(r, e)}}

FirstAfter(r, over, next) ==
    LET left == {i \in Occurrences(r) : i > over /\ i <= r.until} IN
    IF next = None THEN left = {}
    ELSE next \in left /\ \A i \in left : next <= i

IsTheFirst == FirstAfter(rule, last', due')

(* "The first firing strictly after": whenever a run is over, late or not, *)
(* the next one is planned for the first instant after that on which the   *)
(* rule falls: none is left out, and no instant is served twice.  A series *)
(* ends only when nothing is left before its end (NextOccurrence,          *)
(* spawnNextOccurrence).                                                   *)
NextIsTheFirst == [][IsTheFirst]_vars
=============================================================================
