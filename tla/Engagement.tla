------------------------------ MODULE Engagement ------------------------------
(***************************************************************************)
(* The engagement report of RetentionService: daily, weekly and monthly    *)
(* users of every date of a range, counted in one pass with two sliding    *)
(* counters, and the activity of each cohort within the range.             *)
(*                                                                         *)
(* The sets of devices are read in one pipeline before the pass begins; as *)
(* Retention writes and lapses them in any order meanwhile, they may hold  *)
(* any devices.                                                            *)
(***************************************************************************)
EXTENDS Integers, Bags, FiniteSetsExt

CONSTANTS
    Member,          \* devices
    WeekDays,        \* 7
    MonthDays,       \* 30
    Dates            \* bound: a range of integers, the dates reports are asked for

ASSUME WindowAssumption == WeekDays \in Nat \ {0} /\ MonthDays \in Nat /\ WeekDays <= MonthDays
ASSUME DateAssumption ==
    Dates \subseteq Int /\ \E first, last \in Dates : first <= last /\ Dates = first..last
ASSUME MemberAssumption == IsFiniteSet(Member)

VARIABLES
    range,           \* start_date and end_date
    activity,        \* the devices active on each date
    weekly, monthly, \* the counters
    cursor,
    rows,            \* the rows so far, by date
    members,         \* the cohort read for a date of the range
    detail           \* its activity from then to before a date: a counter, the
                     \* last dates

reportVars == <<range, activity, weekly, monthly, cursor, rows, members, detail>>

\* Counter: a device without a count is not in it.
AddUsers(counter, users) == counter (+) SetToBag(users)
RemoveUsers(counter, users) == counter (-) SetToBag(users)
CountOf(counter, m) == IF BagIn(m, counter) THEN counter[m] ELSE 0

\* The sets are read from so long before the range that its first month is in.
Preload(start) == start - (MonthDays - 1)

\* activity_sets: dates that are not read are empty, get(date, set()).
ActiveOn(date) == IF date \in Preload(range.start)..range.end THEN activity[date] ELSE {}

\* Mutant: the day a window has just left is still counted.
LeftDayAfter(date, days) == ActiveOn(date - days - 1)

\* The set that leaves a window of some days when it reaches a date.
Leaving(date, days) == ActiveOn(date - days)

-----------------------------------------------------------------------------
\* The detail of a cohort begins on the day its devices were installed.
NoDetail(installed) ==
    [installed |-> installed, date |-> installed, days |-> EmptyBag, last |-> [m \in {} |-> 0]]

\* The dates there may be sets for: the first month of any range and the range.
Recorded == (Min(Dates) - (MonthDays - 1))..Max(Dates)

\* A range asked for backwards is turned round.
ReportInit ==
    /\ \E first, last \in Dates :
        range = IF last < first THEN [start |-> last, end |-> first]
                ELSE [start |-> first, end |-> last]
    /\ activity \in [Recorded -> SUBSET Member]
    /\ weekly = EmptyBag /\ monthly = EmptyBag
    /\ cursor = Preload(range.start)
    /\ rows = [d \in {} |-> [dau |-> 0, wau |-> 0, mau |-> 0]]
    /\ members \in SUBSET Member
    /\ \E installed \in range.start..range.end : detail = NoDetail(installed)

\* One turn of the loop of get_engagement_range.
CountDate ==
    LET users == ActiveOn(cursor)
    IN  /\ cursor <= range.end
        /\ weekly' = RemoveUsers(AddUsers(weekly, users), Leaving(cursor, WeekDays))
        /\ monthly' = RemoveUsers(AddUsers(monthly, users), Leaving(cursor, MonthDays))
        /\ rows' = IF cursor < range.start THEN rows
                   ELSE [d \in DOMAIN rows \cup {cursor} |->
                            IF d \in DOMAIN rows THEN rows[d]
                            ELSE [dau |-> Cardinality(users),
                                  wau |-> Cardinality(BagToSet(weekly')),
                                  mau |-> Cardinality(BagToSet(monthly'))]]
        /\ cursor' = cursor + 1
        /\ UNCHANGED <<range, activity, members, detail>>

\* Mutant: a device that comes again is not counted again.
CountedOnceOnly(days, users) == days (+) SetToBag(users \ BagToSet(days))
Counted(days, users) == days (+) SetToBag(users)

\* One turn of the loop of _cohort_detail, after the pass.
DetailDate ==
    LET date == detail.date
        present == members \cap ActiveOn(date)
    IN  /\ cursor = range.end + 1
        /\ date <= range.end
        /\ detail' = [detail EXCEPT
                !.date = date + 1,
                !.days = Counted(@, present),
                !.last = [m \in DOMAIN @ \cup present |-> IF m \in present THEN date ELSE @[m]]]
        /\ UNCHANGED <<range, activity, weekly, monthly, cursor, rows, members>>

ReportStep == CountDate \/ DetailDate

ReportSpec == ReportInit /\ [][ReportStep]_reportVars

-----------------------------------------------------------------------------
(* Properties. *)

\* The devices of a number of days up to a date.
UsersOf(date, days) == UNION {activity[d] : d \in (date - days + 1)..date}

\* The users of a week and of a month that the sliding counters give for a date
\* are the distinct devices of its last seven and thirty days, for the first
\* dates of a range too; so no ratio of a row exceeds one.
RowsCountDistinctUsers ==
    \A date \in DOMAIN rows :
        /\ rows[date].dau = Cardinality(activity[date])
        /\ rows[date].wau = Cardinality(UsersOf(date, WeekDays))
        /\ rows[date].mau = Cardinality(UsersOf(date, MonthDays))
        /\ rows[date].dau <= rows[date].wau /\ rows[date].wau <= rows[date].mau

\* The detail of a cohort agrees with its retention columns up to the end of the
\* range: a device has as many active days as there are columns that count it, the
\* day of installation included, and its last date is that of the last of them.
DetailAgreesWithColumns ==
    detail.date = range.end + 1 =>
        LET column(date) == members \cap activity[date]
            counting(m) == {date \in detail.installed..range.end : m \in column(date)}
        IN  /\ \A m \in members :
                CountOf(detail.days, m) = Cardinality(counting(m))
            /\ DOMAIN detail.last = {m \in members : counting(m) # {}}
            /\ \A m \in DOMAIN detail.last :
                /\ detail.last[m] \in counting(m)
                /\ \A date \in counting(m) : date <= detail.last[m]
=============================================================================
