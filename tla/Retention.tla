------------------------------- MODULE Retention -------------------------------
(***************************************************************************)
(* The retention statistics kept in Redis: after each answered call of a   *)
(* device a background task records the device as active today and, if it  *)
(* is seen for the first time, in today's cohort, for all users and for    *)
(* the platform of the call.  An operations page reads the cohorts back.   *)
(*                                                                         *)
(* A pipeline is not a transaction: its commands are steps of their own.   *)
(* Keys lapse on the day their time to live ends, at any moment of it.     *)
(***************************************************************************)
EXTENDS Integers, FiniteSets

CONSTANTS
    Device,          \* device_id
    Platform,        \* "ios", "android", "unknown"
    Req,             \* background tasks that may run at once
    FirstSeenTtl,    \* days: 180 in the code
    SetTtl,          \* days: 60 in the code
    RetentionDays,   \* the columns of the report
    LastDay,         \* bound: the last day of the model
    MaxTasks,        \* bound: tasks started in all
    None             \* an idle task has no device and no platform

Segment == Platform \cup {"all"}
Day == 1..LastDay

ASSUME PlatformAssumption == "all" \notin Platform
\* A task that passes midnight still finds the sets of its day, and a cohort
\* lapses before the first_seen keys of its devices.
ASSUME TtlAssumption ==
    FirstSeenTtl \in Nat /\ SetTtl \in Nat \ {0, 1} /\ SetTtl + 1 < FirstSeenTtl
ASSUME DayAssumption == LastDay \in Nat \ {0} /\ RetentionDays \subseteq Nat \ {0}
ASSUME BoundAssumption == MaxTasks \in Nat

VARIABLES
    today,       \* the day in Singapore
    firstSeen,   \* firstSeen[s][d]: the day the key lapses, 0 if there is none
    active,      \* active[s][x]: the devices active on day x
    activeEnd,   \* activeEnd[s][x]: the day the key lapses
    cohort,      \* cohort[s][x]: the devices first seen on day x
    cohortEnd,   \* cohortEnd[s][x]: the day the key lapses, Never without EXPIRE
    req,         \* req[r]: a task
    report,      \* the report an operator reads
    started,     \* tasks started so far
    cut          \* devices one of whose tasks was cut off (history)

sets == <<firstSeen, active, activeEnd, cohort, cohortEnd>>
vars == <<today, sets, req, report, started, cut>>

\* EXPIRE follows SADD; a set without it does not lapse.
Never == LastDay + SetTtl + 1

NoTask == [at |-> "idle", dev |-> None, platform |-> None, date |-> 0,
           seg |-> "all", new |-> {}]

At(r, label) == req[r].at = label

End(r) == req' = [req EXCEPT ![r] = NoTask]

-----------------------------------------------------------------------------
(* track_activity: the first pipeline. *)

\* Calls under /v1/ but not /v1/ops count, unless the server failed.
ShouldTrack(path, status) == path = "v1" /\ status \in {"ok", "client_error"}

\* The date is taken once, when the task starts.
Begin(r) ==
    /\ At(r, "idle")
    /\ started < MaxTasks
    /\ \E d \in Device, p \in Platform,
          path \in {"v1", "ops", "health"}, status \in {"ok", "client_error", "server_error"} :
        /\ ShouldTrack(path, status)
        /\ req' = [req EXCEPT ![r] = [NoTask EXCEPT !.at = "set", !.dev = d, !.platform = p,
                                                  !.date = today]]
    /\ started' = started + 1
    /\ UNCHANGED <<today, sets, report, cut>>

\* SET first_seen NX EX: only the task that sets the key has a new user.
SetFirstSeen(r) ==
    LET d == req[r].dev
        s == req[r].seg
        absent == firstSeen[s][d] = 0
    IN  /\ At(r, "set")
        /\ firstSeen' = IF absent THEN [firstSeen EXCEPT ![s][d] = today + FirstSeenTtl]
                        ELSE firstSeen
        /\ req' = [req EXCEPT ![r].at = "add", ![r].new = IF absent THEN @ \cup {s} ELSE @]
        /\ UNCHANGED <<today, active, activeEnd, cohort, cohortEnd, report, started, cut>>

\* Mutant: a device that is not new over all is not new on a platform either.
AfterFirstAllOnly(t) ==
    CASE t.seg = "all"        -> [t EXCEPT !.at = "set", !.seg = t.platform]
      [] "all" \notin t.new   -> NoTask
      [] OTHER                -> [t EXCEPT !.at = "join", !.seg = "all"]

\* The second pipeline has a SADD and an EXPIRE for each segment that is new.
AfterFirst(t) ==
    CASE t.seg = "all"  -> [t EXCEPT !.at = "set", !.seg = t.platform]
      [] t.new = {}     -> NoTask
      [] OTHER          -> [t EXCEPT !.at = "join",
                              !.seg = IF "all" \in t.new THEN "all" ELSE t.platform]

\* SADD and EXPIRE, one after the other: the key in between has no time to
\* live, which matters only if the pipeline is cut off there.
AddActive(r) ==
    LET s == req[r].seg
        x == req[r].date
    IN  /\ At(r, "add")
        /\ active' = [active EXCEPT ![s][x] = @ \cup {req[r].dev}]
        /\ activeEnd' = [activeEnd EXCEPT ![s][x] = today + SetTtl]
        /\ req' = [req EXCEPT ![r] = AfterFirst(req[r])]
        /\ UNCHANGED <<today, firstSeen, cohort, cohortEnd, report, started, cut>>

-----------------------------------------------------------------------------
(* track_activity: the second pipeline. *)

\* Mutant: the date is taken again.
CohortToday(t) == today
CohortDate(t) == t.date

AfterSecond(t) ==
    IF t.seg = "all" /\ t.platform \in t.new
    THEN [t EXCEPT !.at = "join", !.seg = t.platform]
    ELSE NoTask

JoinCohort(r) ==
    LET s == req[r].seg
        x == CohortDate(req[r])
    IN  /\ At(r, "join")
        /\ cohort' = [cohort EXCEPT ![s][x] = @ \cup {req[r].dev}]
        /\ cohortEnd' = [cohortEnd EXCEPT ![s][x] = today + SetTtl]
        /\ req' = [req EXCEPT ![r] = AfterSecond(req[r])]
        /\ UNCHANGED <<today, firstSeen, active, activeEnd, report, started, cut>>

\* The connection to Redis fails, or the API restarts: a prefix of a pipeline
\* has run, the exception is logged and nothing is tried again.
Cut(r) ==
    /\ ~At(r, "idle")
    /\ cut' = cut \cup {req[r].dev}
    /\ End(r)
    /\ UNCHANGED <<today, sets, report, started>>

\* The same between SADD and EXPIRE, which leaves a new key without an end.
CutBeforeExpire(r) ==
    LET s == req[r].seg
        x == req[r].date
    IN  /\ \/ /\ At(r, "add")
              /\ active' = [active EXCEPT ![s][x] = @ \cup {req[r].dev}]
              /\ activeEnd' = [activeEnd EXCEPT ![s][x] = IF active[s][x] = {} THEN Never ELSE @]
              /\ UNCHANGED <<cohort, cohortEnd>>
           \/ /\ At(r, "join")
              /\ cohort' = [cohort EXCEPT ![s][x] = @ \cup {req[r].dev}]
              /\ cohortEnd' = [cohortEnd EXCEPT ![s][x] = IF cohort[s][x] = {} THEN Never ELSE @]
              /\ UNCHANGED <<active, activeEnd>>
        /\ cut' = cut \cup {req[r].dev}
        /\ End(r)
        /\ UNCHANGED <<today, firstSeen, report, started>>

Track(r) ==
    \/ Begin(r)
    \/ SetFirstSeen(r) \/ AddActive(r) \/ JoinCohort(r)

-----------------------------------------------------------------------------
(* Redis: keys lapse. *)

\* Mutant: the times to live are swapped.
LapsesEarly(end) == end # 0 /\ end - FirstSeenTtl + SetTtl <= today
Lapses(end) == end # 0 /\ end <= today

\* The keys of one kind that are due lapse together, keys of different kinds in
\* any order.
LapseFirstSeen ==
    /\ \E s \in Segment, d \in Device : Lapses(firstSeen[s][d])
    /\ firstSeen' = [s \in Segment |-> [d \in Device |->
                        IF Lapses(firstSeen[s][d]) THEN 0 ELSE firstSeen[s][d]]]
    /\ UNCHANGED <<today, active, activeEnd, cohort, cohortEnd, req, report, started, cut>>

Due(end) == end # 0 /\ end <= today
AnyDue(ends) == \E s \in Segment, x \in Day : Due(ends[s][x])

Left(members, ends) ==
    [s \in Segment |-> [x \in Day |-> IF Due(ends[s][x]) THEN {} ELSE members[s][x]]]
EndsLeft(ends) ==
    [s \in Segment |-> [x \in Day |-> IF Due(ends[s][x]) THEN 0 ELSE ends[s][x]]]

LapseActive ==
    /\ AnyDue(activeEnd)
    /\ active' = Left(active, activeEnd)
    /\ activeEnd' = EndsLeft(activeEnd)
    /\ UNCHANGED <<today, firstSeen, cohort, cohortEnd, req, report, started, cut>>

LapseCohort ==
    /\ AnyDue(cohortEnd)
    /\ cohort' = Left(cohort, cohortEnd)
    /\ cohortEnd' = EndsLeft(cohortEnd)
    /\ UNCHANGED <<today, firstSeen, active, activeEnd, req, report, started, cut>>

\* Midnight.  Every key that ends on a day is gone the day after, and a task
\* takes less than a day.
NewDay ==
    /\ today < LastDay
    /\ ~AnyDue(activeEnd) /\ ~AnyDue(cohortEnd)
    /\ \A s \in Segment, d \in Device : ~Lapses(firstSeen[s][d])
    /\ \A r \in Req : At(r, "idle") \/ req[r].date = today
    /\ today' = today + 1
    /\ UNCHANGED <<sets, req, report, started, cut>>

-----------------------------------------------------------------------------
(* get_retention of one cohort. *)

NoReport == [seg |-> "all", date |-> 0, users |-> 0, left |-> {}, settled |-> FALSE]

\* SCARD, then the columns that are due on the day the query started on; a
\* report without one is over.
CountCohort ==
    /\ report = NoReport
    /\ \E s \in Segment, x \in 1..today :
        LET due == {n \in RetentionDays : x + n <= today}
        IN  report' = IF due = {} THEN NoReport
                      ELSE [seg |-> s, date |-> x, left |-> due,
                            users |-> Cardinality(cohort[s][x]),
                            settled |-> \A r \in Req : At(r, "idle") \/ req[r].date # x]
    /\ UNCHANGED <<today, sets, req, started, cut>>

\* Mutant: the active devices are counted instead of the cohort's among them.
CountActive(s, x, n) == Cardinality(active[s][x + n])
Retained(s, x, n) == Cardinality(cohort[s][x] \cap active[s][x + n])

\* SINTER, for the columns whose day has come, in their order.
CountColumn(n) ==
    /\ n \in report.left
    /\ \A m \in report.left : n <= m
    /\ report' = IF report.left = {n} THEN NoReport ELSE [report EXCEPT !.left = @ \ {n}]
    /\ UNCHANGED <<today, sets, req, started, cut>>

-----------------------------------------------------------------------------
NoSets == [s \in Segment |-> [x \in Day |-> {}]]
NoEnds == [s \in Segment |-> [x \in Day |-> 0]]

Init ==
    /\ today = 1
    /\ firstSeen = [s \in Segment |-> [d \in Device |-> 0]]
    /\ active = NoSets /\ activeEnd = NoEnds
    /\ cohort = NoSets /\ cohortEnd = NoEnds
    /\ req = [r \in Req |-> NoTask]
    /\ report = NoReport
    /\ started = 0
    /\ cut = {}

Next ==
    \/ \E r \in Req : Track(r) \/ Cut(r) \/ CutBeforeExpire(r)
    \/ LapseFirstSeen \/ LapseActive \/ LapseCohort
    \/ NewDay
    \/ CountCohort \/ (\E n \in RetentionDays : CountColumn(n))

Spec == Init /\ [][Next]_vars

-----------------------------------------------------------------------------
(* Properties. *)

TaskLabels == {"idle", "set", "add", "join"}

\* Nothing is recorded for a day to come, and a key exists as long as it has an
\* end: the values the keys and tasks may take.
TypeOK ==
    /\ today \in Day
    /\ firstSeen \in [Segment -> [Device -> Nat]]
    /\ active \in [Segment -> [Day -> SUBSET Device]]
    /\ cohort \in [Segment -> [Day -> SUBSET Device]]
    /\ activeEnd \in [Segment -> [Day -> 0..Never]]
    /\ cohortEnd \in [Segment -> [Day -> 0..Never]]
    /\ \A s \in Segment, x \in Day :
        /\ activeEnd[s][x] = 0 <=> active[s][x] = {}
        /\ cohortEnd[s][x] = 0 <=> cohort[s][x] = {}
        /\ x > today => active[s][x] = {} /\ cohort[s][x] = {}
    /\ \A r \in Req :
        /\ req[r].at \in TaskLabels
        /\ req[r].date \in 0..today
        /\ At(r, "idle") => req[r] = NoTask
        /\ ~At(r, "idle") => req[r].dev \in Device /\ req[r].platform \in Platform
        /\ req[r].seg \in {"all", req[r].platform} /\ req[r].new \subseteq Segment
    /\ started \in 0..MaxTasks
    /\ cut \subseteq Device

\* A device counts as a new user once: it is in no two cohorts of a segment that
\* will lapse.  A cohort lapses before the first_seen keys of its devices do,
\* whatever tasks of a device run at once, around midnight too.  (A cohort
\* whose EXPIRE was cut off stays, and may meet the device again.)
CountedOnce ==
    \A s \in Segment : \A x, y \in Day :
        (x # y /\ Never \notin {cohortEnd[s][x], cohortEnd[s][y]})
            => cohort[s][x] \cap cohort[s][y] = {}

\* A new user was active on the day of the cohort, also if midnight passes
\* between the two pipelines: as long as the day's activity cannot have lapsed,
\* or has not, it holds the cohort.
CohortWasActive ==
    \A s \in Segment, x \in Day :
        (today < x + SetTtl \/ active[s][x] # {}) => cohort[s][x] \subseteq active[s][x]

\* A device with a first_seen key is in a cohort that has not lapsed, once its
\* tasks are over, unless one of them was cut off: no order of the commands of
\* its tasks loses a new user, on a platform it changes to either.
NewUsersAreCounted ==
    \A s \in Segment : \A d \in Device \ cut :
        (firstSeen[s][d] > today + FirstSeenTtl - SetTtl
            /\ \A r \in Req : At(r, "idle") \/ req[r].dev # d)
        => \E x \in Day : d \in cohort[s][x]

\* No rate exceeds 1, although the cohort and the days are read one by one: a
\* report on a day whose tasks were over when it began counts no more retained
\* users than new ones.
RatesAreRates ==
    [][\A n \in RetentionDays :
        CountColumn(n) /\ report.settled
            => Retained(report.seg, report.date, n) <= report.users]_vars
=============================================================================
