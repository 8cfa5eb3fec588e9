--------------------------------- MODULE Cron ---------------------------------
(***************************************************************************)
(* When the scheduler wakes: get_next_cron_time and parse_cron_next        *)
(* (src/workers/scheduler.rs) as operators on instants.  An instant counts *)
(* half minutes: an odd one lies inside its minute, whatever its seconds.  *)
(*                                                                         *)
(* Scheduler.tla takes the slots as a set and plans the least one after    *)
(* now; SoundIsCron (Helpers.tla) shows for which expressions the code     *)
(* does that.                                                              *)
(***************************************************************************)
EXTENDS Naturals, FiniteSets, SequencesExt

Minute == 2
Hour == 60 * Minute
Day == 24 * Hour

DayOf(t) == t \div Day
HourOf(t) == (t % Day) \div Hour
MinuteOf(t) == (t % Hour) \div Minute
At(d, h, m) == d * Day + h * Hour + m * Minute

\* DEFAULT_CRON_HOURS
DefaultHours == <<2, 6, 14, 20>>

\* RUN_SCHEDULE: "*/n * * * *", or "0 h1,h2,... * * *"; "other" is not set, or of a form
\* parse_cron_next does not know, as a single hour without a comma, which means the
\* default hours here and not what it means to cron
Exprs(steps, hourLists) ==
    [form : {"every"}, step : steps] \cup [form : {"hours"}, hours : hourLists] \cup [form : {"other"}]

-----------------------------------------------------------------------------
(* Mutants of NextEvery and NextHours.                                     *)

\* Mutant: the minute that has just begun may be the next one
EveryFromNow(n, t) ==
    LET next == ((MinuteOf(t) + n - 1) \div n) * n IN
    IF next < 60 THEN At(DayOf(t), HourOf(t), next) ELSE At(DayOf(t), HourOf(t) + 1, next % 60)

\* Mutant: the minutes past the hour are not reduced
EveryUnreduced(n, t) ==
    LET next == (MinuteOf(t) \div n + 1) * n IN
    IF next < 60 THEN At(DayOf(t), HourOf(t), next) ELSE At(DayOf(t), HourOf(t) + 1, next)

-----------------------------------------------------------------------------
\* */n: the next multiple of n in the hour, or what exceeds 60 in the next hour
NextEvery(n, t) ==
    LET next == (MinuteOf(t) \div n + 1) * n
        hour == (HourOf(t) + 1) % 24
    IN  IF next < 60
        THEN At(DayOf(t), HourOf(t), next)
        ELSE At(IF hour = 0 THEN DayOf(t) + 1 ELSE DayOf(t), hour, next % 60)

\* The places of a list at which the loop over the hours stops: the hour is still
\* to come today, or is no hour and the unwrap panics
Stops(hours, t) == {k \in DOMAIN hours : hours[k] >= 24 \/ At(DayOf(t), hours[k], 0) > t}

FirstStop(hours, t) == CHOOSE k \in Stops(hours, t) : \A l \in Stops(hours, t) : k <= l

\* The first hour of the list that is still to come today, or the first of the
\* list tomorrow
NextHours(hours, t) ==
    IF Stops(hours, t) = {} THEN At(DayOf(t) + 1, hours[1], 0)
    ELSE At(DayOf(t), hours[FirstStop(hours, t)], 0)

\* parse_cron_next gives an instant
Parses(e) ==
    \/ e.form = "every" /\ e.step # 0
    \/ e.form = "hours" /\ e.hours # <<>>

Panics(e, t) ==
    /\ e.form = "hours"
    /\ Stops(e.hours, t) # {}
    /\ e.hours[FirstStop(e.hours, t)] >= 24

\* get_next_cron_time
NextCronTime(e, t) ==
    CASE Parses(e) /\ e.form = "every" -> NextEvery(e.step, t)
      [] Parses(e) /\ e.form = "hours" -> NextHours(e.hours, t)
      [] ~Parses(e) -> NextHours(DefaultHours, t)

-----------------------------------------------------------------------------
(* The reference.                                                          *)

\* What cron means by the expression; for the other forms, what the default hours mean
Fires(e, t) ==
    /\ t % Minute = 0
    /\ CASE Parses(e) /\ e.form = "every" -> MinuteOf(t) % e.step = 0
         [] Parses(e) /\ e.form = "hours" -> MinuteOf(t) = 0 /\ HourOf(t) \in ToSet(e.hours)
         [] ~Parses(e) -> MinuteOf(t) = 0 /\ HourOf(t) \in ToSet(DefaultHours)

\* A step that divides the hour, or hours of the day in increasing order
Sound(e) ==
    \/ e.form = "other"
    \/ e.form = "every" /\ (e.step = 0 \/ 60 % e.step = 0)
    \/ /\ e.form = "hours"
       /\ \A k \in DOMAIN e.hours : e.hours[k] < 24 /\ \A l \in 1 .. k - 1 : e.hours[l] < e.hours[k]
=============================================================================
