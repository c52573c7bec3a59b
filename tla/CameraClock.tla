----------------------------- MODULE CameraClock -----------------------------
(***************************************************************************)
(* The camera's clock (bc_protocol/time.rs): the daylight-saving schedule   *)
(* the camera keeps, what set_time writes so that the camera shows the      *)
(* host's time, and how get_time reads it back.                             *)
(*                                                                          *)
(* A date is a record, a moment the number of minutes since 2001-01-01,     *)
(* which was a Monday; all times are between 2001 and 2099, where every     *)
(* fourth year is a leap year.  Offsets are minutes east of UTC.  A field   *)
(* the camera left out is None.                                             *)
(***************************************************************************)
EXTENDS Integers, FiniteSets, FiniteSetsExt

None == -1
MinutesPerDay == 1440

-----------------------------------------------------------------------------
(* The calendar (the crate time).                                           *)

Leap(y) == y % 4 = 0
length(y, m) ==
    CASE m \in {4, 6, 9, 11} -> 30
      [] m = 2               -> IF Leap(y) THEN 29 ELSE 28
      [] OTHER               -> 31
DayNumber(date) ==
    365 * (date.year - 2001) + (date.year - 2001) \div 4
      + MapThenSumSet(LAMBDA m : length(date.year, m), 1..(date.month - 1))
      + date.day - 1
weekday(date) == DayNumber(date) % 7        \* 0 is Monday
Moment(date, minute) == DayNumber(date) * MinutesPerDay + minute

-----------------------------------------------------------------------------
(* The schedule: month, week, day of the week and minute of the day.        *)

\* The spellings the camera's firmware uses; anything else is not understood.
parse_weekday(s) ==
    CASE s \in {"monday", "mon"}    -> 0
      [] s \in {"tuesday", "tue"}   -> 1
      [] s \in {"wednesday", "wed"} -> 2
      [] s \in {"thursday", "thu"}  -> 3
      [] s \in {"friday", "fri"}    -> 4
      [] s \in {"saturday", "sat"}  -> 5
      [] s \in {"sunday", "sun"}    -> 6
      [] OTHER                      -> None

\* Defect: week 5 is the fifth, not the last one.
nth_weekday_fifth(y, m, week, wd) ==
    LET first == CHOOSE d \in 1..7 : weekday([year |-> y, month |-> m, day |-> d]) = wd
        day   == first + 7 * (week - 1)
    IN  IF week \notin 1..5 \/ day > length(y, m) THEN None ELSE day

\* The day of the month; week 5 stands for the last one.
nth_weekday_of_month(y, m, week, wd) ==
    LET first == CHOOSE d \in 1..7 : weekday([year |-> y, month |-> m, day |-> d]) = wd
        last  == CHOOSE d \in (length(y, m) - 6)..length(y, m) :
                    weekday([year |-> y, month |-> m, day |-> d]) = wd
    IN  CASE week \notin 1..5 -> None
          [] week = 5         -> last
          [] OTHER            -> first + 7 * (week - 1)

\* The moment of a switch in the given year, on the camera's wall clock.
dst_transition_for_year(y, t) ==
    IF \/ t.month \notin 1..12 \/ t.week = None \/ parse_weekday(t.weekday) = None
       \/ nth_weekday_of_month(y, t.month, t.week, parse_weekday(t.weekday)) = None
       \/ t.minute >= MinutesPerDay
    THEN None
    ELSE Moment([year |-> y, month |-> t.month,
                 day |-> nth_weekday_of_month(y, t.month, t.week, parse_weekday(t.weekday))],
                IF t.minute = None THEN 0 ELSE t.minute)

\* What the camera adds to the time it shows at this moment of its wall clock.
\* In the south the summer goes over the turn of the year.
dst_offset(dst, y, local) ==
    LET start == dst_transition_for_year(y, dst.start)
        end   == dst_transition_for_year(y, dst.end)
        within == IF start < end THEN local >= start /\ local < end
                  ELSE local >= start \/ local < end
    IN  IF dst.enable # 1 \/ dst.hours \in {None, 0} \/ start = None \/ end = None \/ ~within
        THEN 0
        ELSE 60 * dst.hours

-----------------------------------------------------------------------------
(* set_time and get_time.  The host's time is its wall clock and its offset; *)
(* the camera's zone counts the other way.                                   *)

\* While the camera adds to the time it shows, it is told UTC and the offset
\* without the addition; a camera that does not answer get_dst adds nothing.
set_time(added, local, offset) ==
    IF added # 0 THEN [zone |-> -(offset - added), wall |-> local - offset]
    ELSE [zone |-> -offset, wall |-> local]

\* A time before 2019 was never set.
NeverSet == Moment([year |-> 2019, month |-> 1, day |-> 1], 0)
get_time(general) ==
    IF general.wall < NeverSet THEN None ELSE [local |-> general.wall, offset |-> -general.zone]

-----------------------------------------------------------------------------
(* What is meant.                                                            *)

\* The days of a month that are such a weekday, and among them the one meant
Days(y, m, wd) == {d \in 1..length(y, m) : weekday([year |-> y, month |-> m, day |-> d]) = wd}
Meant(y, m, week, wd) ==
    IF week = 5 THEN Max(Days(y, m, wd))
    ELSE CHOOSE d \in Days(y, m, wd) : Cardinality({e \in Days(y, m, wd) : e <= d}) = week

\* It is summer when the last switch of this year or the year before was to it
Summer(dst, y, local) ==
    LET switches(t) == {dst_transition_for_year(y - 1, t), dst_transition_for_year(y, t)}
        past(t) == {s \in switches(t) : s <= local}
    IN  past(dst.start) # {} /\ (past(dst.end) = {} \/ Max(past(dst.start)) >= Max(past(dst.end)))

\* What a camera shows that was told UTC: time.rs, comment at set_time
Shows(general, added) == general.wall - general.zone + added

Years == {2023, 2024, 2025}
Spring == [month |-> 3, week |-> 5, weekday |-> "sunday", minute |-> 120]
Autumn == [month |-> 10, week |-> 5, weekday |-> "sun", minute |-> 180]
Switch == {Spring, Autumn, [Spring EXCEPT !.week = 2, !.minute = None],
           [Autumn EXCEPT !.week = 1, !.weekday = "friday"]}
Broken == {[Spring EXCEPT !.week = 0], [Spring EXCEPT !.weekday = "someday"],
           [Spring EXCEPT !.month = 13], [Spring EXCEPT !.minute = MinutesPerDay]}
Schedules ==
    [enable : {0, 1}, hours : {None, 1}, start : Switch, end : Switch]
      \union [enable : {1}, hours : {1}, start : Broken, end : Switch]

\* Moments around each switch of a year and at its ends
Moments(y, dst) ==
    {s + d : s \in {dst_transition_for_year(y, dst.start), dst_transition_for_year(y, dst.end)}
                     \ {None}, d \in {-1, 0, 1}}
      \union {Moment([year |-> y, month |-> 1, day |-> 1], 0),
              Moment([year |-> y, month |-> 12, day |-> 31], MinutesPerDay - 1)}

\* For every year, schedule and moment: the day of a switch is the one its week
\* and weekday name; the camera's addition is the summer's, in either
\* hemisphere, and none for a schedule that is off or unreadable; and after
\* set_time a camera that adds shows the host's time.  Of a camera that adds
\* nothing only the read-back is claimed, that get_time returns what was
\* written; what it shows is SetTimeLands (time.rs).
DaylightCompensated ==
    /\ \A y \in Years, m \in 1..12, week \in 1..5, wd \in 0..6 :
         nth_weekday_of_month(y, m, week, wd) = Meant(y, m, week, wd)
    /\ \A y \in Years, dst \in Schedules : \A t \in Moments(y, dst), offset \in {-300, 0, 120} :
         LET added   == dst_offset(dst, y, t)
             general == set_time(added, t, offset)
             usable  == dst.enable = 1 /\ dst.hours = 1 /\ dst.start \in Switch
         IN  /\ (usable /\ dst.start # dst.end) => (added # 0 <=> Summer(dst, y, t))
             /\ ~usable => added = 0
             /\ added # 0 => Shows(general, added) = t
             /\ added = 0 => get_time(general) = [local |-> t, offset |-> offset]

\* After set_time "the camera's reconstruction displayed = <hour> +
\* (-<timeZone>/3600) + dst_in_window lands on timestamp" (time.rs:220-222).
\* It fails outside the window, where set_time writes the local time with the
\* zone: the sum is the local time plus the offset.
SetTimeLands ==
    \A y \in Years, dst \in Schedules : \A t \in Moments(y, dst), offset \in {-300, 0, 120} :
      LET added == dst_offset(dst, y, t)
      IN  Shows(set_time(added, t, offset), added) = t

\* set_time(t) followed by get_time() gives t back: time.rs says that "the
\* round-trip preserves the original".  It fails in summer, when set_time writes
\* UTC with the offset of winter.
RoundTrip ==
    \A y \in Years, dst \in Schedules : \A t \in Moments(y, dst), offset \in {-300, 0, 120} :
      LET back == get_time(set_time(dst_offset(dst, y, t), t, offset))
      IN  back.local - back.offset = t - offset
=============================================================================
