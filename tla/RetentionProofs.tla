---------------------------- MODULE RetentionProofs ----------------------------
(***************************************************************************)
(* Theorems about Retention: a device is a new user once, was active on    *)
(* the day it is counted on, is not lost, and no rate exceeds 1.           *)
(*                                                                         *)
(* The argument: a task is at most a day late, and the set that has a time *)
(* to live of SetTtl days lapses before the first_seen keys of FirstSeenTtl *)
(* days that its members wait for.  A cohort is Fresh as long as those     *)
(* keys last; the one task that set a key is the only one that may join.   *)
(*                                                                         *)
(* The last part is about Engagement: the sliding counters of the report   *)
(* count the distinct users of a week and of a month.                      *)
(***************************************************************************)
EXTENDS Retention, Engagement, TLAPS, FiniteSetTheorems

Task == [at : TaskLabels, dev : Device \cup {None}, platform : Platform \cup {None},
         date : 0..LastDay, seg : Segment, new : SUBSET Segment]

\* A task that has begun: it is at most a day late and joins what is new.
Running(t) ==
    /\ t.dev \in Device /\ t.platform \in Platform
    /\ t.date \in Day /\ t.date <= today /\ today <= t.date + 1
    /\ t.seg \in {"all", t.platform} /\ t.new \subseteq {"all", t.platform}
    /\ t.at = "join" => t.seg \in t.new

ReportShape ==
    /\ report.left \subseteq RetentionDays /\ report.users \in Nat
    /\ report = [seg |-> report.seg, date |-> report.date, users |-> report.users,
                 left |-> report.left, settled |-> report.settled]

SetsOK(devices, ends) ==
    /\ devices \in [Segment -> [Day -> SUBSET Device]] /\ ends \in [Segment -> [Day -> 0..Never]]
    /\ \A s \in Segment, x \in Day : /\ ends[s][x] = 0 <=> devices[s][x] = {}
                                     /\ x > today => devices[s][x] = {}

TasksOK ==
    /\ req \in [Req -> Task]
    /\ \A r \in Req : IF At(r, "idle") THEN req[r] = NoTask ELSE Running(req[r])

TypeInv ==
    /\ today \in Day /\ firstSeen \in [Segment -> [Device -> Nat]]
    /\ SetsOK(active, activeEnd) /\ SetsOK(cohort, cohortEnd)
    /\ \A s \in Segment, x \in Day : IsFiniteSet(cohort[s][x])
    /\ TasksOK /\ ReportShape
    /\ started \in 0..MaxTasks /\ cut \subseteq Device

\* What is alive has not reached its end; the sets of yesterday have not lapsed.
EndsInv ==
    /\ \A s \in Segment, d \in Device :
        firstSeen[s][d] # 0 => today <= firstSeen[s][d] /\ firstSeen[s][d] <= today + FirstSeenTtl
    /\ \A s \in Segment, x \in Day :
        /\ active[s][x] # {} => x + SetTtl <= activeEnd[s][x]
        /\ cohort[s][x] # {} => /\ today <= cohortEnd[s][x]
                                /\ cohortEnd[s][x] = Never \/ cohortEnd[s][x] <= x + 1 + SetTtl

\* A task that has gone through a segment has recorded its activity there.
ActiveInv ==
    \A r \in Req : ~At(r, "idle") =>
        /\ req[r].seg # "all" \/ At(r, "join") => req[r].dev \in active["all"][req[r].date]
        /\ At(r, "join") => req[r].dev \in active[req[r].platform][req[r].date]

Fresh(x) == today < x + FirstSeenTtl

\* The segments whose cohort a task has still to join.
Pending(t) == IF t.at = "join" /\ t.seg # "all" THEN {t.seg} ELSE t.new

\* The key a device waits for outlasts its cohort, and one task at most will
\* join for it, a cohort of a segment the device is in no fresh cohort of.
SeenInv ==
    /\ \A s \in Segment, x \in Day : \A d \in cohort[s][x] :
        Fresh(x) => /\ x + FirstSeenTtl <= firstSeen[s][d]
                    /\ \A y \in Day : Fresh(y) /\ d \in cohort[s][y] => x = y
    /\ \A r \in Req : \A s \in Pending(req[r]) :
        /\ req[r].date + FirstSeenTtl <= firstSeen[s][req[r].dev]
        /\ \A x \in Day : Fresh(x) => req[r].dev \notin cohort[s][x]
        /\ \A q \in Req : q # r /\ req[q].dev = req[r].dev => s \notin Pending(req[q])

\* A device with a key has a task that will join, or is in a cohort that lasts
\* long enough, or has had its key for long enough.
Kept(s, d) ==
    \/ \E r \in Req : req[r].dev = d /\ s \in Pending(req[r])
    \/ \E x \in Day : /\ d \in cohort[s][x]
                      /\ firstSeen[s][d] + SetTtl <= cohortEnd[s][x] + FirstSeenTtl
    \/ firstSeen[s][d] + SetTtl <= today + FirstSeenTtl

KeptInv == \A s \in Segment : \A d \in Device \ cut : firstSeen[s][d] # 0 => Kept(s, d)

\* The cohort of a settled report does not grow.
ReportInv ==
    report.left # {} =>
        /\ report.seg \in Segment /\ report.date \in Day /\ report.date < today
        /\ report.settled =>
            /\ \A r \in Req : At(r, "idle") \/ req[r].date # report.date
            /\ Cardinality(cohort[report.seg][report.date]) <= report.users

Inv == TypeInv /\ EndsInv /\ ActiveInv /\ CohortWasActive /\ SeenInv /\ KeptInv /\ ReportInv

-----------------------------------------------------------------------------
(* Records and functions of functions. *)

LEMMA Numbers ==
    /\ FirstSeenTtl \in Nat /\ SetTtl \in Nat /\ 2 <= SetTtl /\ SetTtl + 1 < FirstSeenTtl
    /\ LastDay \in Nat /\ 1 <= LastDay /\ RetentionDays \subseteq Nat /\ 0 \notin RetentionDays
    /\ MaxTasks \in Nat /\ Never \in Nat /\ Never = LastDay + SetTtl + 1 /\ Day \subseteq Nat
    /\ \A x \in Nat : x \in Day <=> 1 <= x /\ x <= LastDay
BY TtlAssumption, DayAssumption, BoundAssumption DEF Never, Day

LEMMA Segments == "all" \in Segment /\ Platform \subseteq Segment /\ "all" \notin Platform
BY PlatformAssumption DEF Segment

LEMMA NoTaskIsTask == NoTask \in Task /\ NoTask.at = "idle" /\ NoTask.new = {} /\ Pending(NoTask) = {}
BY Segments, Numbers DEF NoTask, Task, TaskLabels, Pending

\* A task at work is in Task, runs, and writes to sets that are there.
LEMMA AtWork ==
    ASSUME TypeInv, NEW r \in Req, ~At(r, "idle")
    PROVE  /\ req[r] \in Task /\ Running(req[r])
           /\ req[r].seg \in Segment /\ req[r].date \in Day /\ req[r].dev \in Device
           /\ today \in Day /\ today + SetTtl \in 0..Never /\ today + SetTtl < Never
<1>1. req[r] \in Task /\ Running(req[r]) /\ today \in Day
  BY DEF TypeInv, TasksOK
<1>2. req[r].seg \in Segment /\ req[r].date \in Day /\ req[r].dev \in Device
  BY <1>1, Segments DEF Running
<1> QED  BY <1>1, <1>2, Numbers

\* The steps of a task, what they leave of it.
LEMMA FirstStep ==
    ASSUME TypeInv, NEW r \in Req, At(r, "add"), NEW t, t = AfterFirst(req[r]), t # NoTask
    PROVE  /\ t \in Task /\ t.dev = req[r].dev /\ t.platform = req[r].platform
           /\ t.date = req[r].date /\ t.new = req[r].new
           /\ \/ req[r].seg = "all" /\ t.at = "set" /\ t.seg = req[r].platform
              \/ /\ req[r].seg = req[r].platform /\ t.at = "join" /\ t.new # {}
                 /\ t.seg = IF "all" \in t.new THEN "all" ELSE req[r].platform
<1>1. req[r] \in Task /\ Running(req[r]) /\ req[r].platform \in Segment /\ "all" \in Segment
  BY AtWork, Segments DEF At, Running
<1>2. CASE req[r].seg = "all"
  <2>1. t = [req[r] EXCEPT !.at = "set", !.seg = req[r].platform]
    BY <1>2 DEF AfterFirst
  <2> QED  BY <1>1, <1>2, <2>1 DEF Task, TaskLabels
<1>3. CASE req[r].seg # "all"
  <2>1. req[r].new # {} /\ req[r].seg = req[r].platform
    BY <1>1, <1>3 DEF AfterFirst, Running
  <2> DEFINE seg == IF "all" \in req[r].new THEN "all" ELSE req[r].platform
  <2>2. t = [req[r] EXCEPT !.at = "join", !.seg = seg]
    BY <1>3, <2>1 DEF AfterFirst
  <2>3. seg \in Segment
    BY <1>1
  <2> QED  BY <1>1, <1>3, <2>1, <2>2, <2>3 DEF Task, TaskLabels
<1> QED  BY <1>2, <1>3

LEMMA SecondStep ==
    ASSUME TypeInv, NEW r \in Req, At(r, "join"), NEW t, t = AfterSecond(req[r]), t # NoTask
    PROVE  /\ t \in Task /\ t.dev = req[r].dev /\ t.platform = req[r].platform
           /\ t.date = req[r].date /\ t.new = req[r].new
           /\ req[r].seg = "all" /\ t.at = "join" /\ t.seg = req[r].platform
           /\ req[r].platform \in req[r].new
<1>1. req[r] \in Task /\ Running(req[r]) /\ req[r].platform \in Segment
  BY AtWork, Segments DEF At, Running
<1>2. /\ t = [req[r] EXCEPT !.at = "join", !.seg = req[r].platform]
      /\ req[r].seg = "all" /\ req[r].platform \in req[r].new
  BY DEF AfterSecond
<1> QED  BY <1>1, <1>2 DEF Task, TaskLabels

LEMMA SeenStep ==
    ASSUME TypeInv, NEW r \in Req, SetFirstSeen(r)
    PROVE  LET t == req[r]
               u == req'[r]
           IN  /\ u \in Task /\ u.dev = t.dev /\ u.platform = t.platform /\ u.date = t.date
               /\ u.seg = t.seg /\ u.at = "add"
               /\ u.new = IF firstSeen[t.seg][t.dev] = 0 THEN t.new \cup {t.seg} ELSE t.new
               /\ \A q \in Req \ {r} : req'[q] = req[q]
<1>1. req[r] \in Task /\ req[r].seg \in Segment /\ req \in [Req -> Task] /\ At(r, "set")
  BY AtWork DEF At, SetFirstSeen, TypeInv, TasksOK
<1> DEFINE new == IF firstSeen[req[r].seg][req[r].dev] = 0 THEN req[r].new \cup {req[r].seg}
                  ELSE req[r].new
<1>2. req'[r] = [req[r] EXCEPT !.at = "add", !.new = new] /\ \A q \in Req \ {r} : req'[q] = req[q]
  BY <1>1 DEF SetFirstSeen
<1>3. new \in SUBSET Segment
  BY <1>1 DEF Task
<1> HIDE DEF new
<1>4. /\ req'[r] \in Task /\ req'[r].dev = req[r].dev /\ req'[r].platform = req[r].platform
      /\ req'[r].date = req[r].date /\ req'[r].seg = req[r].seg /\ req'[r].at = "add"
      /\ req'[r].new = new
  BY <1>1, <1>2, <1>3 DEF Task, TaskLabels
<1> QED  BY <1>2, <1>4 DEF new

-----------------------------------------------------------------------------
(* What the commands do to the sets, one segment and day at a time. *)

\* SADD with its EXPIRE, or cut off before it.
Records(t, old, new, oldEnds, newEnds) ==
    \A s \in Segment, x \in Day :
        IF s = t.seg /\ x = t.date
        THEN /\ new[s][x] = old[s][x] \cup {t.dev}
             /\ \/ newEnds[s][x] \in {today + SetTtl, Never}
                \/ newEnds[s][x] = oldEnds[s][x] /\ old[s][x] # {}
        ELSE new[s][x] = old[s][x] /\ newEnds[s][x] = oldEnds[s][x]

\* The commands themselves.
Added(t, old, new) == new = [old EXCEPT ![t.seg][t.date] = @ \cup {t.dev}]
Expires(t, old, oldEnds, newEnds) ==
    \/ newEnds = [oldEnds EXCEPT ![t.seg][t.date] = today + SetTtl]
    \/ newEnds = [oldEnds EXCEPT ![t.seg][t.date] = IF old[t.seg][t.date] = {} THEN Never ELSE @]

LEMMA RecordsKeep ==
    ASSUME TypeInv, NEW r \in Req, ~At(r, "idle"),
           NEW old, NEW oldEnds, SetsOK(old, oldEnds), NEW new, NEW newEnds,
           Added(req[r], old, new), Expires(req[r], old, oldEnds, newEnds)
    PROVE  SetsOK(new, newEnds) /\ Records(req[r], old, new, oldEnds, newEnds)
<1>1. req[r].seg \in Segment /\ req[r].date \in Day /\ req[r].dev \in Device
      /\ req[r].date <= today /\ today + SetTtl \in 0..Never /\ today + SetTtl # 0
  <2>1. req[r].seg \in Segment /\ req[r].date \in Day /\ req[r].dev \in Device
        /\ Running(req[r]) /\ today \in Day /\ today + SetTtl \in 0..Never
    BY AtWork
  <2>2. today + SetTtl # 0
    BY <2>1, Numbers
  <2> QED  BY <2>1, <2>2 DEF Running
<1>2. PICK s \in Segment, x \in Day, d \in Device : s = req[r].seg /\ x = req[r].date /\ d = req[r].dev
  BY <1>1
<1>3. oldEnds[s][x] \in 0..Never /\ (oldEnds[s][x] = 0 <=> old[s][x] = {})
  BY DEF SetsOK
<1>4. PICK e \in 0..Never :
        /\ newEnds = [oldEnds EXCEPT ![s][x] = e] /\ e # 0
        /\ e \in {today + SetTtl, Never} \/ (e = oldEnds[s][x] /\ old[s][x] # {})
  <2>1. Never \in 0..Never /\ Never # 0
    BY Numbers
  <2>2. CASE newEnds = [oldEnds EXCEPT ![s][x] = today + SetTtl]
    BY <1>1, <2>2
  <2>3. CASE newEnds = [oldEnds EXCEPT ![s][x] = IF old[s][x] = {} THEN Never ELSE oldEnds[s][x]]
    BY <1>3, <2>1, <2>3
  <2> QED  BY <1>2, <2>2, <2>3 DEF Expires
<1> DEFINE set == old[s][x] \cup {d}
<1>5. new = [old EXCEPT ![s][x] = set] /\ set \in SUBSET Device /\ set # {}
  <2>1. old[s][x] \in SUBSET Device
    BY DEF SetsOK
  <2> QED  BY <1>2, <2>1 DEF Added
<1> HIDE DEF set
<1>6. new \in [Segment -> [Day -> SUBSET Device]]
      /\ \A i \in Segment, j \in Day : new[i][j] = IF i = s /\ j = x THEN set ELSE old[i][j]
  BY <1>5 DEF SetsOK
<1>7. newEnds \in [Segment -> [Day -> 0..Never]]
      /\ \A i \in Segment, j \in Day : newEnds[i][j] = IF i = s /\ j = x THEN e ELSE oldEnds[i][j]
  BY <1>4 DEF SetsOK
<1>8. \A i \in Segment, j \in Day : /\ newEnds[i][j] = 0 <=> new[i][j] = {}
                                    /\ j > today => new[i][j] = {}
  <2> TAKE i \in Segment, j \in Day
  <2>1. CASE i = s /\ j = x
    <3>1. ~(j > today)
      BY <1>1, <1>2, <2>1, Numbers DEF TypeInv
    <3> QED  BY <2>1, <3>1, <1>4, <1>5, <1>6, <1>7
  <2>2. CASE ~(i = s /\ j = x)
    BY <2>2, <1>6, <1>7 DEF SetsOK
  <2> QED  BY <2>1, <2>2
<1>9. SetsOK(new, newEnds)
  BY <1>6, <1>7, <1>8 DEF SetsOK
<1>10. Records(req[r], old, new, oldEnds, newEnds)
  <2>1. \A i \in Segment, j \in Day :
          IF i = s /\ j = x
          THEN /\ new[i][j] = old[i][j] \cup {d}
               /\ \/ newEnds[i][j] \in {today + SetTtl, Never}
                  \/ newEnds[i][j] = oldEnds[i][j] /\ old[i][j] # {}
          ELSE new[i][j] = old[i][j] /\ newEnds[i][j] = oldEnds[i][j]
    BY <1>4, <1>6, <1>7 DEF set
  <2> QED  BY <1>2, <2>1 DEF Records
<1> QED  BY <1>9, <1>10

\* The two ways in which a task records the device's activity.
Adding(r) == AddActive(r) \/ (CutBeforeExpire(r) /\ At(r, "add"))
Joining(r) == JoinCohort(r) \/ (CutBeforeExpire(r) /\ At(r, "join"))

LEMMA AddRecords ==
    ASSUME TypeInv, NEW r \in Req, Adding(r)
    PROVE  /\ SetsOK(active, activeEnd)' /\ Records(req[r], active, active', activeEnd, activeEnd')
           /\ At(r, "add") /\ UNCHANGED <<today, firstSeen, cohort, cohortEnd, report, started>>
<1>1. At(r, "add") /\ ~At(r, "idle")
  BY DEF Added, Expires, Adding, AddActive, At
<1>2. SetsOK(active, activeEnd)
  BY DEF TypeInv
<1>3. /\ Added(req[r], active, active') /\ Expires(req[r], active, activeEnd, activeEnd')
      /\ UNCHANGED <<today, firstSeen, cohort, cohortEnd, report, started>>
  BY <1>1 DEF Added, Expires, Adding, AddActive, CutBeforeExpire, At
<1>4. SetsOK(active', activeEnd') /\ Records(req[r], active, active', activeEnd, activeEnd')
  BY <1>1, <1>2, <1>3, RecordsKeep
<1> QED  BY <1>1, <1>3, <1>4 DEF SetsOK

LEMMA JoinRecords ==
    ASSUME TypeInv, NEW r \in Req, Joining(r)
    PROVE  /\ SetsOK(cohort, cohortEnd)' /\ Records(req[r], cohort, cohort', cohortEnd, cohortEnd')
           /\ At(r, "join") /\ UNCHANGED <<today, firstSeen, active, activeEnd, report, started>>
<1>1. At(r, "join") /\ ~At(r, "idle")
  BY DEF Joining, JoinCohort, At
<1>2. SetsOK(cohort, cohortEnd)
  BY DEF TypeInv
<1>3. /\ Added(req[r], cohort, cohort') /\ Expires(req[r], cohort, cohortEnd, cohortEnd')
      /\ UNCHANGED <<today, firstSeen, active, activeEnd, report, started>>
  BY <1>1 DEF Added, Expires, Joining, JoinCohort, CohortDate, CutBeforeExpire, At
<1>4. SetsOK(cohort', cohortEnd') /\ Records(req[r], cohort, cohort', cohortEnd, cohortEnd')
  BY <1>1, <1>2, <1>3, RecordsKeep
<1> QED  BY <1>1, <1>3, <1>4 DEF SetsOK

\* The sets that are due are gone.
LEMMA LeftOver ==
    ASSUME TypeInv, NEW devices, NEW ends, SetsOK(devices, ends)
    PROVE  /\ SetsOK(Left(devices, ends), EndsLeft(ends))
           /\ \A s \in Segment, x \in Day :
                \/ /\ ends[s][x] <= today /\ Left(devices, ends)[s][x] = {} /\ EndsLeft(ends)[s][x] = 0
                \/ /\ Left(devices, ends)[s][x] = devices[s][x] /\ EndsLeft(ends)[s][x] = ends[s][x]
                   /\ ends[s][x] # 0 => today < ends[s][x]
<1>1. today \in Nat
      /\ \A s \in Segment, x \in Day : ends[s][x] \in 0..Never /\ devices[s][x] \in SUBSET Device
  BY Numbers DEF SetsOK, TypeInv
<1>2. /\ Left(devices, ends) \in [Segment -> [Day -> SUBSET Device]]
      /\ EndsLeft(ends) \in [Segment -> [Day -> 0..Never]]
  BY <1>1, Numbers DEF Left, EndsLeft
<1>3. \A s \in Segment, x \in Day :
        \/ /\ ends[s][x] <= today /\ Left(devices, ends)[s][x] = {} /\ EndsLeft(ends)[s][x] = 0
        \/ /\ Left(devices, ends)[s][x] = devices[s][x] /\ EndsLeft(ends)[s][x] = ends[s][x]
           /\ ends[s][x] # 0 => today < ends[s][x]
  BY <1>1, Numbers DEF Left, EndsLeft, Due
<1>4. \A s \in Segment, x \in Day :
        /\ EndsLeft(ends)[s][x] = 0 <=> Left(devices, ends)[s][x] = {}
        /\ x > today => Left(devices, ends)[s][x] = {}
  <2> TAKE s \in Segment, x \in Day
  <2>1. /\ ends[s][x] = 0 <=> devices[s][x] = {}
        /\ x > today => devices[s][x] = {}
    BY DEF SetsOK
  <2>2. \/ Left(devices, ends)[s][x] = {} /\ EndsLeft(ends)[s][x] = 0
        \/ Left(devices, ends)[s][x] = devices[s][x] /\ EndsLeft(ends)[s][x] = ends[s][x]
    BY <1>3
  <2> QED  BY <2>1, <2>2
<1>5. SetsOK(Left(devices, ends), EndsLeft(ends))
  BY <1>2, <1>4 DEF SetsOK
<1> QED  BY <1>3, <1>5

LEMMA LeftActive ==
    ASSUME TypeInv, LapseActive
    PROVE  /\ SetsOK(active, activeEnd)'
           /\ \A s \in Segment, x \in Day :
                \/ activeEnd[s][x] <= today /\ active'[s][x] = {} /\ activeEnd'[s][x] = 0
                \/ /\ active'[s][x] = active[s][x] /\ activeEnd'[s][x] = activeEnd[s][x]
                   /\ activeEnd[s][x] # 0 => today < activeEnd[s][x]
           /\ UNCHANGED <<today, firstSeen, cohort, cohortEnd, req, report, started, cut>>
<1>1. SetsOK(active, activeEnd) /\ active' = Left(active, activeEnd) /\ activeEnd' = EndsLeft(activeEnd)
      /\ UNCHANGED <<today, firstSeen, cohort, cohortEnd, req, report, started, cut>>
  BY DEF LapseActive, TypeInv
<1>2. SetsOK(active', activeEnd')
      /\ \A s \in Segment, x \in Day :
           \/ activeEnd[s][x] <= today /\ active'[s][x] = {} /\ activeEnd'[s][x] = 0
           \/ /\ active'[s][x] = active[s][x] /\ activeEnd'[s][x] = activeEnd[s][x]
              /\ activeEnd[s][x] # 0 => today < activeEnd[s][x]
  BY <1>1, LeftOver
<1>3. SetsOK(active, activeEnd)'
  BY <1>1, <1>2 DEF SetsOK
<1> QED  BY <1>1, <1>2, <1>3

LEMMA LeftCohort ==
    ASSUME TypeInv, LapseCohort
    PROVE  /\ SetsOK(cohort, cohortEnd)'
           /\ \A s \in Segment, x \in Day :
                \/ cohortEnd[s][x] <= today /\ cohort'[s][x] = {} /\ cohortEnd'[s][x] = 0
                \/ /\ cohort'[s][x] = cohort[s][x] /\ cohortEnd'[s][x] = cohortEnd[s][x]
                   /\ cohortEnd[s][x] # 0 => today < cohortEnd[s][x]
           /\ UNCHANGED <<today, firstSeen, active, activeEnd, req, report, started, cut>>
<1>1. SetsOK(cohort, cohortEnd) /\ cohort' = Left(cohort, cohortEnd) /\ cohortEnd' = EndsLeft(cohortEnd)
      /\ UNCHANGED <<today, firstSeen, active, activeEnd, req, report, started, cut>>
  BY DEF LapseCohort, TypeInv
<1>2. SetsOK(cohort', cohortEnd')
      /\ \A s \in Segment, x \in Day :
           \/ cohortEnd[s][x] <= today /\ cohort'[s][x] = {} /\ cohortEnd'[s][x] = 0
           \/ /\ cohort'[s][x] = cohort[s][x] /\ cohortEnd'[s][x] = cohortEnd[s][x]
              /\ cohortEnd[s][x] # 0 => today < cohortEnd[s][x]
  BY <1>1, LeftOver
<1>3. SetsOK(cohort, cohortEnd)'
  BY <1>1, <1>2 DEF SetsOK
<1> QED  BY <1>1, <1>2, <1>3

LEMMA SeenLeft ==
    ASSUME TypeInv, LapseFirstSeen
    PROVE  /\ firstSeen' \in [Segment -> [Device -> Nat]]
           /\ \A s \in Segment, d \in Device :
                \/ firstSeen[s][d] <= today /\ firstSeen'[s][d] = 0
                \/ firstSeen'[s][d] = firstSeen[s][d]
<1>1. today \in Nat /\ \A s \in Segment, d \in Device : firstSeen[s][d] \in Nat
  BY Numbers DEF TypeInv
<1> QED  BY <1>1, Numbers DEF LapseFirstSeen, Lapses

-----------------------------------------------------------------------------
(* TypeInv. *)

LEMMA TypeImplies == TypeInv => TypeOK
<1> SUFFICES ASSUME TypeInv PROVE TypeOK
  OBVIOUS
<1>1. \A r \in Req :
        /\ req[r].at \in TaskLabels
        /\ req[r].date \in 0..today
        /\ At(r, "idle") => req[r] = NoTask
        /\ ~At(r, "idle") => req[r].dev \in Device /\ req[r].platform \in Platform
        /\ req[r].seg \in {"all", req[r].platform} /\ req[r].new \subseteq Segment
  <2> TAKE r \in Req
  <2>1. req[r] \in Task /\ today \in Nat
    BY Numbers DEF TypeInv, TasksOK
  <2>2. CASE At(r, "idle")
    BY <2>1, <2>2 DEF TypeInv, TasksOK, NoTask, Task
  <2>3. CASE ~At(r, "idle")
    BY <2>1, <2>3, Numbers DEF TypeInv, TasksOK, Running, Task
  <2> QED  BY <2>2, <2>3
<1> QED  BY <1>1 DEF TypeInv, SetsOK, TypeOK

LEMMA InitType == Init => TypeInv
<1> SUFFICES ASSUME Init PROVE TypeInv
  OBVIOUS
<1>1. today \in Day /\ firstSeen \in [Segment -> [Device -> Nat]] /\ started \in 0..MaxTasks
  BY Numbers DEF Init
<1>2. SetsOK(active, activeEnd) /\ SetsOK(cohort, cohortEnd)
  BY Numbers DEF Init, SetsOK, NoSets, NoEnds
<1>3. \A s \in Segment, x \in Day : IsFiniteSet(cohort[s][x])
  BY FS_EmptySet DEF Init, NoSets
<1>4. TasksOK
  BY NoTaskIsTask DEF Init, TasksOK, At
<1>5. ReportShape
  BY Segments DEF Init, ReportShape, NoReport
<1> QED  BY <1>1, <1>2, <1>3, <1>4, <1>5 DEF Init, TypeInv

\* One task goes on.
LEMMA TaskChange ==
    ASSUME TypeInv, UNCHANGED today, NEW r \in Req, NEW t, req' = [req EXCEPT ![r] = t],
           t = NoTask \/ (t \in Task /\ t.at # "idle" /\ Running(t))
    PROVE  TasksOK' /\ req'[r] = t /\ \A q \in Req \ {r} : req'[q] = req[q]
<1>1. req' \in [Req -> Task] /\ req'[r] = t /\ \A q \in Req \ {r} : req'[q] = req[q]
  BY NoTaskIsTask DEF TypeInv, TasksOK
<1>2. \A q \in Req : IF req'[q].at = "idle" THEN req'[q] = NoTask ELSE Running(req'[q])
  BY <1>1, NoTaskIsTask DEF TypeInv, TasksOK, At
<1>3. \A q \in Req : Running(req'[q]) => Running(req[q])'
  BY DEF Running
<1> QED  BY <1>1, <1>2, <1>3 DEF TasksOK, At

LEMMA BeginTask ==
    ASSUME TypeInv, NEW r \in Req, Begin(r)
    PROVE  /\ TasksOK' /\ At(r, "idle") /\ UNCHANGED <<today, sets, report, cut>>
           /\ started' \in 0..MaxTasks
           /\ req'[r].at = "set" /\ req'[r].date = today /\ req'[r].seg = "all" /\ req'[r].new = {}
           /\ \A q \in Req \ {r} : req'[q] = req[q]
<1>1. PICK d \in Device, p \in Platform :
        req' = [req EXCEPT ![r] = [NoTask EXCEPT !.at = "set", !.dev = d, !.platform = p,
                                                 !.date = today]]
  BY DEF Begin
<1> DEFINE t == [NoTask EXCEPT !.at = "set", !.dev = d, !.platform = p, !.date = today]
<1>2. today \in Nat /\ today \in Day /\ today \in 0..LastDay
  BY Numbers DEF TypeInv
<1>3. NoTask \in Task /\ NoTask.seg = "all" /\ NoTask.new = {}
  BY NoTaskIsTask DEF NoTask
<1>4. /\ t \in Task /\ t.at = "set" /\ t.dev = d /\ t.platform = p /\ t.date = today
      /\ t.seg = "all" /\ t.new = {}
  BY <1>2, <1>3 DEF Task, TaskLabels
<1>5. req' = [req EXCEPT ![r] = t]
  BY <1>1
<1> HIDE DEF t
<1>6. Running(t)
  BY <1>2, <1>4 DEF Running
<1>7. UNCHANGED <<today, sets, report, cut>> /\ At(r, "idle") /\ started' \in 0..MaxTasks
  BY Numbers DEF Begin, TypeInv
<1> QED  BY <1>4, <1>5, <1>6, <1>7, TaskChange

LEMMA SeenTask ==
    ASSUME TypeInv, NEW r \in Req, SetFirstSeen(r)
    PROVE  /\ TasksOK' /\ firstSeen' \in [Segment -> [Device -> Nat]]
           /\ At(r, "set") /\ UNCHANGED <<today, active, activeEnd, cohort, cohortEnd, report, started, cut>>
<1> DEFINE t == req[r]
           u == req'[r]
<1>1. At(r, "set") /\ ~At(r, "idle")
  BY DEF SetFirstSeen, At
<1>2. t \in Task /\ Running(t) /\ t.seg \in Segment /\ t.dev \in Device /\ today \in Nat
  BY <1>1, AtWork, Numbers
<1>3. /\ u \in Task /\ u.dev = t.dev /\ u.platform = t.platform /\ u.date = t.date
      /\ u.seg = t.seg /\ u.at = "add"
      /\ u.new = IF firstSeen[t.seg][t.dev] = 0 THEN t.new \cup {t.seg} ELSE t.new
  BY SeenStep
<1>4. Running(u)
  <2>1. u.new \subseteq {"all", u.platform}
    BY <1>2, <1>3 DEF Running
  <2> HIDE DEF t, u
  <2> QED  BY <1>2, <1>3, <2>1 DEF Running
<1>5. req' = [req EXCEPT ![r] = u]
  BY DEF SetFirstSeen, TypeInv, TasksOK
<1>6. UNCHANGED <<today, active, activeEnd, cohort, cohortEnd, report, started, cut>>
  BY DEF SetFirstSeen
<1>7. TasksOK'
  <2> HIDE DEF u
  <2> QED  BY <1>3, <1>4, <1>5, <1>6, TaskChange
<1>8. firstSeen' \in [Segment -> [Device -> Nat]]
  <2>1. PICK s \in Segment, d \in Device : s = t.seg /\ d = t.dev
    BY <1>2
  <2>2. today + FirstSeenTtl \in Nat
    BY <1>2, Numbers
  <2>3. firstSeen' = firstSeen \/ firstSeen' = [firstSeen EXCEPT ![s][d] = today + FirstSeenTtl]
    BY <2>1 DEF SetFirstSeen
  <2> QED  BY <2>2, <2>3 DEF TypeInv
<1> QED  BY <1>1, <1>6, <1>7, <1>8

\* The task after a command of either pipeline, or after the end of it.
LEMMA AddTask ==
    ASSUME TypeInv, NEW r \in Req, AddActive(r)
    PROVE  TasksOK' /\ req'[r] = AfterFirst(req[r]) /\ \A q \in Req \ {r} : req'[q] = req[q]
<1> DEFINE t == AfterFirst(req[r])
<1>1. At(r, "add") /\ req' = [req EXCEPT ![r] = t] /\ UNCHANGED today
  BY DEF AddActive
<1>2. Running(req[r])
  BY <1>1, AtWork DEF At
<1>3. t = NoTask \/ (t \in Task /\ t.at # "idle" /\ Running(t))
  <2>1. CASE t # NoTask
    <3> HIDE DEF t
    <3>1. /\ t \in Task /\ t.dev = req[r].dev /\ t.platform = req[r].platform
          /\ t.date = req[r].date /\ t.new = req[r].new
          /\ \/ req[r].seg = "all" /\ t.at = "set" /\ t.seg = req[r].platform
             \/ /\ req[r].seg = req[r].platform /\ t.at = "join" /\ t.new # {}
                /\ t.seg = IF "all" \in t.new THEN "all" ELSE req[r].platform
      BY <1>1, <2>1, FirstStep DEF t
    <3>2. t.seg \in {"all", t.platform} /\ (t.at = "join" => t.seg \in t.new)
      BY <1>2, <3>1 DEF Running
    <3> QED  BY <1>2, <3>1, <3>2 DEF Running
  <2> QED  BY <2>1
<1> HIDE DEF t
<1>4. TasksOK' /\ req'[r] = t /\ \A q \in Req \ {r} : req'[q] = req[q]
  BY <1>1, <1>3, TaskChange
<1> QED  BY <1>4 DEF t

LEMMA JoinTask ==
    ASSUME TypeInv, NEW r \in Req, JoinCohort(r)
    PROVE  TasksOK' /\ req'[r] = AfterSecond(req[r]) /\ \A q \in Req \ {r} : req'[q] = req[q]
<1> DEFINE t == AfterSecond(req[r])
<1>1. At(r, "join") /\ req' = [req EXCEPT ![r] = t] /\ UNCHANGED today
  BY DEF JoinCohort
<1>2. Running(req[r])
  BY <1>1, AtWork DEF At
<1>3. t = NoTask \/ (t \in Task /\ t.at # "idle" /\ Running(t))
  <2>1. CASE t # NoTask
    <3> HIDE DEF t
    <3>1. /\ t \in Task /\ t.dev = req[r].dev /\ t.platform = req[r].platform
          /\ t.date = req[r].date /\ t.new = req[r].new
          /\ t.at = "join" /\ t.seg = req[r].platform /\ req[r].platform \in req[r].new
      BY <1>1, <2>1, SecondStep DEF t
    <3> QED  BY <1>2, <3>1 DEF Running
  <2> QED  BY <2>1
<1> HIDE DEF t
<1>4. TasksOK' /\ req'[r] = t /\ \A q \in Req \ {r} : req'[q] = req[q]
  BY <1>1, <1>3, TaskChange
<1> QED  BY <1>4 DEF t

LEMMA CutTask ==
    ASSUME TypeInv, NEW r \in Req, Cut(r) \/ CutBeforeExpire(r)
    PROVE  /\ TasksOK' /\ req'[r] = NoTask /\ \A q \in Req \ {r} : req'[q] = req[q]
           /\ ~At(r, "idle") /\ cut' = cut \cup {req[r].dev} /\ cut' \subseteq Device
<1>1. req' = [req EXCEPT ![r] = NoTask] /\ ~At(r, "idle") /\ UNCHANGED today
      /\ cut' = cut \cup {req[r].dev}
  BY DEF Cut, CutBeforeExpire, End, At
<1>2. TasksOK' /\ req'[r] = NoTask /\ \A q \in Req \ {r} : req'[q] = req[q]
  BY <1>1, TaskChange
<1>3. req[r].dev \in Device
  BY <1>1, AtWork
<1> QED  BY <1>1, <1>2, <1>3 DEF TypeInv

\* What every step does to the shape of the state.
LEMMA StepType == TypeInv /\ [Next]_vars => TypeInv'
<1> SUFFICES ASSUME TypeInv, [Next]_vars PROVE TypeInv'
  OBVIOUS
<1>1. ASSUME NEW r \in Req, Begin(r) PROVE TypeInv'
  BY <1>1, BeginTask DEF sets, TypeInv, SetsOK, ReportShape
<1>2. ASSUME NEW r \in Req, SetFirstSeen(r) PROVE TypeInv'
  BY <1>2, SeenTask DEF TypeInv, SetsOK, ReportShape
<1>3. ASSUME NEW r \in Req, AddActive(r) PROVE TypeInv'
  <2>1. SetsOK(active, activeEnd)' /\ UNCHANGED <<today, firstSeen, cohort, cohortEnd, report, started>>
    BY <1>3, AddRecords DEF Adding
  <2>2. TasksOK' /\ cut' = cut
    BY <1>3, AddTask DEF AddActive
  <2> QED  BY <2>1, <2>2 DEF TypeInv, SetsOK, ReportShape
<1> DEFINE FiniteCohorts == \A s \in Segment, x \in Day : IsFiniteSet(cohort[s][x])
<1>4. ASSUME NEW r \in Req, Joining(r)
      PROVE  /\ SetsOK(cohort, cohortEnd)' /\ FiniteCohorts'
             /\ UNCHANGED <<today, firstSeen, active, activeEnd, report, started>>
  <2>1. /\ SetsOK(cohort, cohortEnd)' /\ Records(req[r], cohort, cohort', cohortEnd, cohortEnd')
        /\ UNCHANGED <<today, firstSeen, active, activeEnd, report, started>>
    BY <1>4, JoinRecords
  <2>2. ASSUME NEW s \in Segment, NEW x \in Day PROVE IsFiniteSet(cohort'[s][x])
    <3>1. IsFiniteSet(cohort[s][x])
      BY DEF TypeInv
    <3>2. cohort'[s][x] = cohort[s][x] \/ cohort'[s][x] = cohort[s][x] \cup {req[r].dev}
      BY <2>1 DEF Records
    <3> QED  BY <3>1, <3>2, FS_AddElement
  <2> QED  BY <2>1, <2>2
<1>5. ASSUME NEW r \in Req, JoinCohort(r) PROVE TypeInv'
  <2>1. TasksOK' /\ cut' = cut
    BY <1>5, JoinTask DEF JoinCohort
  <2>2. /\ SetsOK(cohort, cohortEnd)' /\ FiniteCohorts'
        /\ UNCHANGED <<today, firstSeen, active, activeEnd, report, started>>
    BY <1>4, <1>5 DEF Joining
  <2> QED  BY <2>1, <2>2 DEF TypeInv, SetsOK, ReportShape
<1>6. ASSUME NEW r \in Req, Cut(r) PROVE TypeInv'
  <2>1. TasksOK' /\ cut' \subseteq Device
    BY <1>6, CutTask
  <2>2. UNCHANGED <<today, sets, report, started>>
    BY <1>6 DEF Cut
  <2> QED  BY <2>1, <2>2 DEF sets, TypeInv, SetsOK, ReportShape
<1>7. ASSUME NEW r \in Req, CutBeforeExpire(r) PROVE TypeInv'
  <2>1. TasksOK' /\ cut' \subseteq Device
    BY <1>7, CutTask
  <2>2. CASE At(r, "add")
    <3>1. SetsOK(active, activeEnd)'
          /\ UNCHANGED <<today, firstSeen, cohort, cohortEnd, report, started>>
      BY <1>7, <2>2, AddRecords DEF Adding
    <3> QED  BY <2>1, <3>1 DEF TypeInv, SetsOK, ReportShape
  <2>3. CASE At(r, "join")
    <3>1. /\ SetsOK(cohort, cohortEnd)' /\ FiniteCohorts'
          /\ UNCHANGED <<today, firstSeen, active, activeEnd, report, started>>
      BY <1>4, <1>7, <2>3 DEF Joining
    <3> QED  BY <2>1, <3>1 DEF TypeInv, SetsOK, ReportShape
  <2> QED  BY <1>7, <2>2, <2>3 DEF CutBeforeExpire
<1>8. CASE LapseFirstSeen
  BY <1>8, SeenLeft DEF LapseFirstSeen, TypeInv, SetsOK, TasksOK, ReportShape, At, Running
<1>9. CASE LapseActive
  BY <1>9, LeftActive DEF TypeInv, SetsOK, TasksOK, ReportShape, At, Running
<1>10. CASE LapseCohort
  <2>1. FiniteCohorts'
    <3> SUFFICES ASSUME NEW s \in Segment, NEW x \in Day PROVE IsFiniteSet(cohort'[s][x])
      OBVIOUS
    <3>1. cohort'[s][x] = {} \/ cohort'[s][x] = cohort[s][x]
      BY <1>10, LeftCohort
    <3> QED  BY <3>1, FS_EmptySet DEF TypeInv
  <2> QED  BY <1>10, <2>1, LeftCohort DEF TypeInv, SetsOK, TasksOK, ReportShape, At, Running
<1>11. CASE NewDay
  <2>1. /\ today' \in Day /\ today' = today + 1 /\ today \in Nat
        /\ \A r \in Req : At(r, "idle") \/ req[r].date = today
        /\ UNCHANGED <<sets, req, report, started, cut>>
    BY <1>11, Numbers DEF NewDay, TypeInv
  <2>2. TasksOK'
    BY <2>1 DEF TypeInv, TasksOK, At, Running
  <2>3. SetsOK(active, activeEnd)' /\ SetsOK(cohort, cohortEnd)'
    BY <2>1, Numbers DEF sets, TypeInv, SetsOK
  <2> QED  BY <2>1, <2>2, <2>3 DEF sets, TypeInv, ReportShape
<1>12. CASE CountCohort
  <2>1. UNCHANGED <<today, sets, req, started, cut>>
    BY <1>12 DEF CountCohort
  <2>2. ReportShape'
    <3>1. PICK s \in Segment, x \in 1..today :
            LET due == {n \in RetentionDays : x + n <= today}
            IN  report' = IF due = {} THEN NoReport
                          ELSE [seg |-> s, date |-> x, left |-> due,
                                users |-> Cardinality(cohort[s][x]),
                                settled |-> \A r \in Req : At(r, "idle") \/ req[r].date # x]
      BY <1>12 DEF CountCohort
    <3>2. Cardinality(cohort[s][x]) \in Nat
      <4>1. x \in Day
        BY Numbers DEF TypeInv, Day
      <4> QED  BY <4>1, FS_CardinalityType DEF TypeInv
    <3> QED  BY <3>1, <3>2 DEF ReportShape, NoReport
  <2> QED  BY <2>1, <2>2 DEF sets, TypeInv, SetsOK, TasksOK, At, Running
<1>13. ASSUME NEW n \in RetentionDays, CountColumn(n) PROVE TypeInv'
  <2>1. UNCHANGED <<today, sets, req, started, cut>>
    BY <1>13 DEF CountColumn
  <2>2. ReportShape'
    BY <1>13 DEF CountColumn, TypeInv, ReportShape, NoReport
  <2> QED  BY <2>1, <2>2 DEF sets, TypeInv, SetsOK, TasksOK, At, Running
<1>14. CASE UNCHANGED vars
  BY <1>14 DEF vars, sets, TypeInv, SetsOK, TasksOK, ReportShape, At, Running
<1> QED
  BY <1>1, <1>2, <1>3, <1>5, <1>6, <1>7, <1>8, <1>9, <1>10, <1>11, <1>12, <1>13, <1>14
     DEF Next, Track

LEMMA TypeAlways == Spec => []TypeInv
BY InitType, StepType, PTL DEF Spec

\* The keys and the tasks hold what they may hold, whatever lapses or is cut off.
THEOREM TypeCorrect == Spec => []TypeOK
BY TypeAlways, TypeImplies, PTL

-----------------------------------------------------------------------------
(* The day the cohort was active on. *)

Kinds ==
    \/ UNCHANGED <<today, sets>>
    \/ \E r \in Req : SetFirstSeen(r) \/ Adding(r) \/ Joining(r)
    \/ LapseFirstSeen \/ LapseActive \/ LapseCohort \/ NewDay

LEMMA StepKinds == [Next]_vars => Kinds
<1> SUFFICES ASSUME [Next]_vars PROVE Kinds
  OBVIOUS
<1>1. ASSUME NEW r \in Req, Track(r) \/ Cut(r) \/ CutBeforeExpire(r) PROVE Kinds
  <2>1. CASE Begin(r) \/ Cut(r)
    BY <2>1 DEF Begin, Cut, Kinds
  <2>2. CASE SetFirstSeen(r) \/ AddActive(r) \/ JoinCohort(r)
    BY <2>2 DEF Adding, Joining, Kinds
  <2>3. CASE CutBeforeExpire(r)
    BY <2>3 DEF CutBeforeExpire, Adding, Joining, Kinds
  <2> QED  BY <1>1, <2>1, <2>2, <2>3 DEF Track
<1>2. ASSUME CountCohort \/ (\E n \in RetentionDays : CountColumn(n)) \/ UNCHANGED vars PROVE Kinds
  BY <1>2 DEF CountCohort, CountColumn, vars, Kinds
<1> QED  BY <1>1, <1>2 DEF Next, Kinds

LEMMA StepEnds == TypeInv /\ EndsInv /\ [Next]_vars => EndsInv'
<1> SUFFICES ASSUME TypeInv, EndsInv, [Next]_vars PROVE EndsInv'
  OBVIOUS
<1>1. /\ today \in Nat /\ Kinds
      /\ \A s \in Segment, d \in Device : firstSeen[s][d] \in Nat
      /\ \A s \in Segment, x \in Day : activeEnd[s][x] \in Nat /\ cohortEnd[s][x] \in Nat /\ x \in Nat
  BY StepKinds, Numbers DEF TypeInv, SetsOK
<1>2. CASE UNCHANGED <<today, sets>>
  BY <1>2 DEF sets, EndsInv
<1>3. ASSUME NEW r \in Req, SetFirstSeen(r) PROVE EndsInv'
  <2>1. UNCHANGED <<today, active, activeEnd, cohort, cohortEnd>>
    BY <1>3 DEF SetFirstSeen
  <2>2. \A s \in Segment, d \in Device : firstSeen'[s][d] \in {firstSeen[s][d], today + FirstSeenTtl}
    BY <1>3 DEF SetFirstSeen, TypeInv
  <2>3. \A s \in Segment, d \in Device : firstSeen'[s][d] # 0 =>
            today <= firstSeen'[s][d] /\ firstSeen'[s][d] <= today + FirstSeenTtl
    BY <1>1, <2>2, Numbers DEF EndsInv
  <2> QED  BY <2>1, <2>3 DEF EndsInv
<1>4. ASSUME NEW r \in Req, Adding(r) PROVE EndsInv'
  <2>1. /\ Records(req[r], active, active', activeEnd, activeEnd')
        /\ UNCHANGED <<today, firstSeen, cohort, cohortEnd>> /\ ~At(r, "idle")
    BY <1>4, AddRecords DEF At
  <2>2. req[r].date \in Day /\ req[r].date <= today
    BY <2>1, AtWork DEF Running
  <2>3. \A s \in Segment, x \in Day : active'[s][x] # {} => x + SetTtl <= activeEnd'[s][x]
    BY <1>1, <2>1, <2>2, Numbers DEF Records, EndsInv
  <2> QED  BY <2>1, <2>3 DEF EndsInv
<1>5. ASSUME NEW r \in Req, Joining(r) PROVE EndsInv'
  <2>1. /\ Records(req[r], cohort, cohort', cohortEnd, cohortEnd')
        /\ UNCHANGED <<today, firstSeen, active, activeEnd>> /\ ~At(r, "idle")
    BY <1>5, JoinRecords DEF At
  <2>2. req[r].date \in Day /\ today <= req[r].date + 1 /\ today <= LastDay
    BY <2>1, AtWork, Numbers DEF Running
  <2>3. \A s \in Segment, x \in Day : cohort'[s][x] # {} =>
            /\ today <= cohortEnd'[s][x]
            /\ cohortEnd'[s][x] = Never \/ cohortEnd'[s][x] <= x + 1 + SetTtl
    BY <1>1, <2>1, <2>2, Numbers DEF Records, EndsInv
  <2> QED  BY <2>1, <2>3 DEF EndsInv
<1>6. CASE LapseFirstSeen
  <2>1. UNCHANGED <<today, active, activeEnd, cohort, cohortEnd>>
        /\ \A s \in Segment, d \in Device : firstSeen'[s][d] \in {firstSeen[s][d], 0}
    BY <1>6, SeenLeft DEF LapseFirstSeen
  <2> QED  BY <2>1 DEF EndsInv
<1>7. CASE LapseActive
  BY <1>7, LeftActive DEF EndsInv
<1>8. CASE LapseCohort
  BY <1>8, LeftCohort DEF EndsInv
<1>9. CASE NewDay
  <2>1. today' = today + 1 /\ UNCHANGED <<firstSeen, active, activeEnd, cohort, cohortEnd>>
        /\ \A s \in Segment, d \in Device : ~Lapses(firstSeen[s][d])
    BY <1>9 DEF NewDay, sets
  <2>2. \A s \in Segment, x \in Day : cohort[s][x] # {} => cohortEnd[s][x] # 0
    BY DEF TypeInv, SetsOK
  <2>3. \A s \in Segment, d \in Device : firstSeen[s][d] # 0 =>
            today' <= firstSeen[s][d] /\ firstSeen[s][d] <= today' + FirstSeenTtl
    BY <1>1, <2>1, Numbers DEF EndsInv, Lapses
  <2>4. \A s \in Segment, x \in Day : cohort[s][x] # {} => today' <= cohortEnd[s][x]
    <3>1. \A s \in Segment, x \in Day : cohortEnd[s][x] = 0 \/ ~(cohortEnd[s][x] <= today)
      BY <1>9 DEF NewDay, AnyDue, Due
    <3> QED  BY <1>1, <2>1, <2>2, <3>1
  <2> QED  BY <2>1, <2>3, <2>4 DEF EndsInv
<1> QED  BY <1>1, <1>2, <1>3, <1>4, <1>5, <1>6, <1>7, <1>8, <1>9 DEF Kinds

LEMMA StepActive == TypeInv /\ EndsInv /\ ActiveInv /\ [Next]_vars => ActiveInv'
<1> SUFFICES ASSUME TypeInv, EndsInv, ActiveInv, [Next]_vars PROVE ActiveInv'
  OBVIOUS
\* What ActiveInv says of one task.
<1> DEFINE WasActive(t) == /\ t.seg # "all" \/ t.at = "join" => t.dev \in active["all"][t.date]
                           /\ t.at = "join" => t.dev \in active[t.platform][t.date]
<1>1. \A r \in Req : req[r].at = "idle" \/ WasActive(req[r])
  BY DEF ActiveInv, At
<1>2. SUFFICES \A r \in Req : req'[r].at = "idle" \/ WasActive(req[r])'
  BY DEF ActiveInv, At
<1>3. \A r \in Req : req[r].at # "idle" =>
        req[r].platform \in Platform /\ req[r].date \in Day /\ req[r].seg \in {"all", req[r].platform}
  BY DEF TypeInv, TasksOK, Running, At
<1>4. ASSUME NEW r \in Req, Begin(r) PROVE \A q \in Req : req'[q].at = "idle" \/ WasActive(req[q])'
  <2>1. req'[r].at = "set" /\ req'[r].seg = "all" /\ active' = active
        /\ \A q \in Req \ {r} : req'[q] = req[q]
    BY <1>4, BeginTask DEF sets
  <2> QED  BY <1>1, <2>1
<1>5. ASSUME NEW r \in Req, SetFirstSeen(r) PROVE \A q \in Req : req'[q].at = "idle" \/ WasActive(req[q])'
  <2>1. /\ req'[r].at = "add" /\ req'[r].seg = req[r].seg /\ req'[r].dev = req[r].dev
        /\ req'[r].date = req[r].date /\ active' = active /\ req[r].at # "idle"
        /\ \A q \in Req \ {r} : req'[q] = req[q]
    BY <1>5, SeenStep DEF SetFirstSeen, At
  <2> QED  BY <1>1, <2>1
<1>6. ASSUME NEW r \in Req, Adding(r), req'[r].at # "idle" => req'[r] = AfterFirst(req[r]),
             \A q \in Req \ {r} : req'[q] = req[q]
      PROVE  \A q \in Req : req'[q].at = "idle" \/ WasActive(req[q])'
  <2>1. Records(req[r], active, active', activeEnd, activeEnd') /\ At(r, "add")
    BY <1>6, AddRecords
  <2>2. \A s \in Segment, x \in Day : active[s][x] \subseteq active'[s][x]
    BY <2>1 DEF Records
  <2>3. \A q \in Req \ {r} : req'[q].at = "idle" \/ WasActive(req[q])'
    BY <1>1, <1>3, <1>6, <2>2, Segments
  <2>4. ASSUME req'[r].at # "idle" PROVE WasActive(req[r])'
    <3> DEFINE t == AfterFirst(req[r])
    <3>1. t # NoTask /\ req'[r] = t
      BY <1>6, <2>4, NoTaskIsTask
    <3> HIDE DEF t
    <3>2. /\ t.dev = req[r].dev /\ t.platform = req[r].platform /\ t.date = req[r].date
          /\ \/ req[r].seg = "all" /\ t.at = "set" /\ t.seg = req[r].platform
             \/ req[r].seg = req[r].platform /\ t.at = "join"
      BY <2>1, <3>1, FirstStep DEF t
    <3>3. req[r].seg \in Segment /\ req[r].date \in Day /\ req[r].platform \in Platform
      BY <1>3, <2>1, Segments DEF At
    <3>4. req[r].dev \in active'[req[r].seg][req[r].date]
      BY <2>1, <3>3 DEF Records
    <3>5. CASE req[r].seg = "all" /\ t.at = "set"
      BY <3>1, <3>2, <3>4, <3>5
    <3>6. CASE req[r].seg = req[r].platform /\ t.at = "join"
      <4>1. req[r].seg # "all" /\ req[r].at # "idle"
        BY <2>1, <3>3, <3>6, Segments DEF At
      <4>2. req[r].dev \in active["all"][req[r].date]
        BY <1>1, <4>1
      <4> QED  BY <2>2, <3>1, <3>2, <3>3, <3>4, <3>6, <4>2, Segments
    <3> QED  BY <3>2, <3>5, <3>6
  <2> QED  BY <2>3, <2>4
<1>7. ASSUME NEW r \in Req, JoinCohort(r) PROVE \A q \in Req : req'[q].at = "idle" \/ WasActive(req[q])'
  <2> DEFINE t == AfterSecond(req[r])
  <2>1. req'[r] = t /\ At(r, "join") /\ active' = active /\ \A q \in Req \ {r} : req'[q] = req[q]
    BY <1>7, JoinTask DEF JoinCohort
  <2>2. t = NoTask \/ (t.dev = req[r].dev /\ t.platform = req[r].platform /\ t.date = req[r].date)
    BY <2>1, SecondStep
  <2> HIDE DEF t
  <2> QED  BY <1>1, <2>1, <2>2, NoTaskIsTask DEF At
<1>8. ASSUME NEW r \in Req, Cut(r) \/ CutBeforeExpire(r)
      PROVE \A q \in Req : req'[q].at = "idle" \/ WasActive(req[q])'
  <2>1. req'[r].at = "idle" /\ \A q \in Req \ {r} : req'[q] = req[q]
    BY <1>8, CutTask, NoTaskIsTask
  <2>2. CASE active' = active
    BY <1>1, <2>1, <2>2
  <2>3. CASE active' # active
    <3>1. Adding(r)
      BY <1>8, <2>3 DEF Cut, CutBeforeExpire, sets, Adding
    <3> QED  BY <1>6, <2>1, <3>1
  <2> QED  BY <2>2, <2>3
<1>9. CASE LapseActive
  <2>1. req' = req
    BY <1>9, LeftActive
  <2>2. ASSUME NEW r \in Req, req[r].at # "idle", NEW s \in Segment, active[s][req[r].date] # {}
        PROVE  active'[s][req[r].date] = active[s][req[r].date]
    <3>1. PICK x \in Day : x = req[r].date /\ x \in Nat /\ today \in Nat /\ today <= x + 1
      BY <2>2, Numbers DEF TypeInv, TasksOK, Running, At
    <3>2. x + SetTtl <= activeEnd[s][x] /\ activeEnd[s][x] \in Nat
      <4>1. activeEnd[s][x] \in 0..Never
        BY DEF TypeInv, SetsOK
      <4> QED  BY <2>2, <3>1, <4>1, Numbers DEF EndsInv
    <3>3. ~(activeEnd[s][x] <= today)
      BY <3>1, <3>2, Numbers
    <3> QED  BY <1>9, <3>1, <3>3, LeftActive
  <2> QED  BY <1>1, <1>3, <2>1, <2>2, Segments
<1>10. CASE LapseFirstSeen \/ LapseCohort \/ NewDay \/ CountCohort
            \/ (\E n \in RetentionDays : CountColumn(n)) \/ UNCHANGED vars
  <2>1. UNCHANGED <<active, req>>
    BY <1>10 DEF LapseFirstSeen, LapseCohort, NewDay, CountCohort, CountColumn, vars, sets
  <2> QED  BY <1>1, <2>1
<1>11. ASSUME NEW r \in Req, AddActive(r) PROVE \A q \in Req : req'[q].at = "idle" \/ WasActive(req[q])'
  BY <1>6, <1>11, AddTask DEF Adding
<1> QED
  BY <1>4, <1>5, <1>7, <1>8, <1>9, <1>10, <1>11 DEF Next, Track

\* Where the activity of a day may still be there, it holds the cohort.
LEMMA StepCohort ==
    TypeInv /\ EndsInv /\ ActiveInv /\ CohortWasActive /\ [Next]_vars => CohortWasActive'
<1> SUFFICES ASSUME TypeInv, EndsInv, ActiveInv, CohortWasActive, [Next]_vars PROVE CohortWasActive'
  OBVIOUS
<1>1. today \in Nat /\ Kinds /\ \A x \in Day : x \in Nat
  BY StepKinds, Numbers DEF TypeInv
<1>2. CASE UNCHANGED <<today, sets>>
  BY <1>2 DEF sets, CohortWasActive
<1>3. ASSUME NEW r \in Req, SetFirstSeen(r) PROVE CohortWasActive'
  BY <1>3 DEF SetFirstSeen, CohortWasActive
<1>4. ASSUME NEW r \in Req, Adding(r) PROVE CohortWasActive'
  <2>1. /\ Records(req[r], active, active', activeEnd, activeEnd') /\ At(r, "add")
        /\ UNCHANGED <<today, cohort>>
    BY <1>4, AddRecords
  <2>2. req[r].date \in Day /\ today < req[r].date + SetTtl
    <3>1. PICK x \in Day : x = req[r].date /\ x \in Nat /\ today <= x + 1
      BY <1>1, <2>1, AtWork DEF At, Running
    <3>2. today < x + SetTtl
      BY <1>1, <3>1, Numbers
    <3> QED  BY <3>1, <3>2
  <2>3. \A s \in Segment, x \in Day :
          (today < x + SetTtl \/ active'[s][x] # {}) => cohort[s][x] \subseteq active'[s][x]
    BY <2>1, <2>2 DEF Records, CohortWasActive
  <2> QED  BY <2>1, <2>3 DEF CohortWasActive
<1>5. ASSUME NEW r \in Req, Joining(r) PROVE CohortWasActive'
  <2>1. /\ Records(req[r], cohort, cohort', cohortEnd, cohortEnd') /\ At(r, "join")
        /\ UNCHANGED <<today, active>>
    BY <1>5, JoinRecords
  <2>2. req[r].seg \in Segment /\ req[r].date \in Day
        /\ req[r].dev \in active[req[r].seg][req[r].date]
    BY <2>1, AtWork DEF ActiveInv, At, Running
  <2>3. \A s \in Segment, x \in Day :
          (today < x + SetTtl \/ active[s][x] # {}) => cohort'[s][x] \subseteq active[s][x]
    BY <2>1, <2>2 DEF Records, CohortWasActive
  <2> QED  BY <2>1, <2>3 DEF CohortWasActive
<1>6. CASE LapseFirstSeen
  BY <1>6 DEF LapseFirstSeen, CohortWasActive
<1>7. CASE LapseActive
  <2>1. UNCHANGED <<today, cohort>>
    BY <1>7, LeftActive
  <2>2. ASSUME NEW s \in Segment, NEW x \in Day, today < x + SetTtl \/ active'[s][x] # {}
        PROVE  cohort[s][x] \subseteq active'[s][x]
    <3>1. activeEnd[s][x] \in Nat /\ (activeEnd[s][x] = 0 <=> active[s][x] = {})
          /\ (active[s][x] # {} => x + SetTtl <= activeEnd[s][x])
      BY Numbers DEF TypeInv, SetsOK, EndsInv
    <3>2. active'[s][x] = active[s][x]
      <4>1. CASE activeEnd[s][x] <= today /\ active'[s][x] = {}
        BY <1>1, <2>2, <3>1, <4>1, Numbers
      <4> QED  BY <1>7, <4>1, LeftActive
    <3> QED  BY <2>2, <3>2 DEF CohortWasActive
  <2> QED  BY <2>1, <2>2 DEF CohortWasActive
<1>8. CASE LapseCohort
  BY <1>8, LeftCohort DEF CohortWasActive
<1>9. CASE NewDay
  <2>1. today' = today + 1 /\ UNCHANGED <<active, cohort>>
    BY <1>9 DEF NewDay, sets
  <2> QED  BY <1>1, <2>1, Numbers DEF CohortWasActive
<1> QED  BY <1>1, <1>2, <1>3, <1>4, <1>5, <1>6, <1>7, <1>8, <1>9 DEF Kinds

-----------------------------------------------------------------------------
(* A device is counted once. *)

LEMMA PendingTask ==
    ASSUME TypeInv, NEW r \in Req
    PROVE  /\ Pending(req[r]) \subseteq Segment
           /\ Pending(req[r]) # {} =>
                /\ req[r].at # "idle" /\ req[r].dev \in Device /\ req[r].date \in Day
                /\ req[r].date <= today /\ today <= req[r].date + 1
<1>1. req[r] \in Task
  BY DEF TypeInv, TasksOK
<1>2. Pending(req[r]) \subseteq Segment
  BY <1>1 DEF Task, Pending
<1>3. CASE At(r, "idle")
  BY <1>2, <1>3, NoTaskIsTask DEF TypeInv, TasksOK
<1>4. CASE ~At(r, "idle")
  BY <1>2, <1>4, AtWork DEF Running, At
<1> QED  BY <1>3, <1>4

LEMMA AddPending ==
    ASSUME TypeInv, NEW r \in Req, AddActive(r)
    PROVE  /\ Pending(req'[r]) = Pending(req[r])
           /\ Pending(req'[r]) # {} => req'[r].dev = req[r].dev /\ req'[r].date = req[r].date
<1> DEFINE t == AfterFirst(req[r])
<1>1. req'[r] = t /\ At(r, "add") /\ Running(req[r])
  BY AddTask, AtWork DEF AddActive, At
<1>2. Pending(req[r]) = req[r].new
  BY <1>1 DEF Pending, At
<1>3. CASE t = NoTask
  <2>1. NoTask.at = "idle"
    BY DEF NoTask
  <2>2. req[r].new = {}
    <3>1. [req[r] EXCEPT !.at = "set", !.seg = req[r].platform].at = "set"
          /\ \A s : [req[r] EXCEPT !.at = "join", !.seg = s].at = "join"
      BY DEF TypeInv, TasksOK, Task
    <3> QED  BY <1>3, <2>1, <3>1 DEF AfterFirst
  <2> QED  BY <1>1, <1>2, <1>3, <2>2, NoTaskIsTask
<1>4. CASE t # NoTask
  <2> HIDE DEF t
  <2>1. /\ t.dev = req[r].dev /\ t.date = req[r].date /\ t.new = req[r].new
        /\ \/ t.at = "set"
           \/ t.at = "join" /\ t.new # {} /\ t.seg = IF "all" \in t.new THEN "all" ELSE req[r].platform
    BY <1>1, <1>4, FirstStep DEF t
  <2>2. t.new \subseteq {"all", req[r].platform}
    BY <1>1, <2>1 DEF Running
  <2> QED  BY <1>1, <1>2, <2>1, <2>2 DEF Pending
<1> QED  BY <1>3, <1>4

LEMMA JoinPending ==
    ASSUME TypeInv, NEW r \in Req, JoinCohort(r)
    PROVE  /\ Pending(req'[r]) = Pending(req[r]) \ {req[r].seg}
           /\ Pending(req'[r]) # {} => req'[r].dev = req[r].dev /\ req'[r].date = req[r].date
<1> DEFINE t == AfterSecond(req[r])
<1>1. req'[r] = t /\ At(r, "join") /\ Running(req[r]) /\ req[r].platform # "all"
  BY JoinTask, AtWork, Segments DEF JoinCohort, At, Running
<1>2. CASE t = NoTask
  <2>1. req[r].seg # "all" \/ req[r].platform \notin req[r].new
    <3>1. [req[r] EXCEPT !.at = "join", !.seg = req[r].platform].at = "join"
      BY DEF TypeInv, TasksOK, Task
    <3> QED  BY <1>2, <3>1, NoTaskIsTask DEF AfterSecond
  <2> HIDE DEF t
  <2> QED  BY <1>1, <1>2, <2>1, NoTaskIsTask DEF Pending, Running, At
<1>3. CASE t # NoTask
  <2> HIDE DEF t
  <2>1. /\ t.dev = req[r].dev /\ t.date = req[r].date /\ t.at = "join" /\ t.seg = req[r].platform
        /\ req[r].seg = "all" /\ req[r].platform \in req[r].new
    BY <1>1, <1>3, SecondStep DEF t
  <2> QED  BY <1>1, <2>1 DEF Pending, Running, At
<1> QED  BY <1>2, <1>3

\* A task that joins was waiting to.
LEMMA JoinWaits ==
    ASSUME TypeInv, NEW r \in Req, At(r, "join")
    PROVE  req[r].seg \in Pending(req[r])
BY AtWork DEF Pending, Running, At

\* Steps that leave less behind.
LEMMA Shrinks ==
    ASSUME TypeInv, SeenInv, today \in Nat, today' \in Nat, today <= today', firstSeen' = firstSeen,
           \A s \in Segment, x \in Day : cohort'[s][x] \subseteq cohort[s][x],
           \A r \in Req : /\ Pending(req'[r]) \subseteq Pending(req[r])
                          /\ Pending(req'[r]) # {} => /\ req'[r].dev = req[r].dev
                                                      /\ req'[r].date = req[r].date
    PROVE  SeenInv'
<1>1. \A x \in Day : Fresh(x)' => Fresh(x)
  BY Numbers DEF Fresh
<1>2. \A s \in Segment, x \in Day : \A d \in cohort'[s][x] :
        Fresh(x)' => /\ x + FirstSeenTtl <= firstSeen'[s][d]
                     /\ \A y \in Day : Fresh(y)' /\ d \in cohort'[s][y] => x = y
  BY <1>1 DEF SeenInv
<1>3. \A r \in Req : \A s \in Pending(req'[r]) :
        /\ req'[r].date + FirstSeenTtl <= firstSeen'[s][req'[r].dev]
        /\ \A x \in Day : Fresh(x)' => req'[r].dev \notin cohort'[s][x]
        /\ \A q \in Req : q # r /\ req'[q].dev = req'[r].dev => s \notin Pending(req'[q])
  <2> TAKE r \in Req
  <2> TAKE s \in Pending(req'[r])
  <2>1. s \in Pending(req[r]) /\ req'[r].dev = req[r].dev /\ req'[r].date = req[r].date /\ s \in Segment
    BY PendingTask
  <2>2. req'[r].date + FirstSeenTtl <= firstSeen'[s][req'[r].dev]
    BY <2>1 DEF SeenInv
  <2>3. \A x \in Day : Fresh(x)' => req'[r].dev \notin cohort'[s][x]
    BY <1>1, <2>1 DEF SeenInv
  <2>4. \A q \in Req : q # r /\ req'[q].dev = req'[r].dev => s \notin Pending(req'[q])
    BY <2>1 DEF SeenInv
  <2> QED  BY <2>2, <2>3, <2>4
<1> QED  BY <1>2, <1>3 DEF SeenInv, Pending

LEMMA SeenKeeps == ASSUME TypeInv, SeenInv, NEW r \in Req, SetFirstSeen(r) PROVE SeenInv'
<1> DEFINE s0 == req[r].seg
           d0 == req[r].dev
<1>1. /\ UNCHANGED <<today, cohort>> /\ At(r, "set") /\ today \in Nat
      /\ req'[r].dev = d0 /\ req'[r].date = req[r].date /\ req'[r].at = "add"
      /\ req'[r].new = IF firstSeen[s0][d0] = 0 THEN req[r].new \cup {s0} ELSE req[r].new
      /\ \A q \in Req \ {r} : req'[q] = req[q]
  BY SeenStep, Numbers DEF SetFirstSeen, TypeInv
<1>2. s0 \in Segment /\ d0 \in Device /\ req[r].date \in Nat /\ req[r].date <= today
  BY <1>1, AtWork, Numbers DEF At, Running
<1>3. /\ \A s \in Segment, d \in Device : firstSeen[s][d] \in Nat /\ firstSeen'[s][d] \in Nat
      /\ \A s \in Segment, d \in Device :
            \/ firstSeen'[s][d] = firstSeen[s][d]
            \/ s = s0 /\ d = d0 /\ firstSeen[s][d] = 0 /\ firstSeen'[s][d] = today + FirstSeenTtl
      /\ \A x \in Day : x \in Nat
  BY SeenTask, Numbers DEF SetFirstSeen, TypeInv
<1>4. /\ Pending(req[r]) = req[r].new
      /\ Pending(req'[r]) = req'[r].new
  BY <1>1 DEF Pending, At
<1>9. /\ firstSeen[s0][d0] = 0 => firstSeen'[s0][d0] = today + FirstSeenTtl
      /\ \A q \in Req : req'[q].dev = req[q].dev
  BY <1>1, <1>2 DEF SetFirstSeen, TypeInv
<1> HIDE DEF s0, d0
\* A key that is absent waits for nobody.
<1>5. firstSeen[s0][d0] = 0 =>
        /\ \A x \in Day : Fresh(x) => d0 \notin cohort[s0][x]
        /\ \A q \in Req : req[q].dev = d0 => s0 \notin Pending(req[q])
  <2> HAVE firstSeen[s0][d0] = 0
  <2>1. ASSUME NEW x \in Day, Fresh(x), d0 \in cohort[s0][x] PROVE FALSE
    BY <1>2, <1>3, <2>1, Numbers DEF SeenInv
  <2>2. ASSUME NEW q \in Req, req[q].dev = d0, s0 \in Pending(req[q]) PROVE FALSE
    <3>1. req[q].date \in Nat /\ req[q].date + FirstSeenTtl <= firstSeen[s0][d0]
      BY <2>2, PendingTask, Numbers DEF SeenInv
    <3> QED  BY <3>1, Numbers
  <2> QED  BY <2>1, <2>2
<1>6. \A s \in Segment, x \in Day : \A d \in cohort[s][x] :
        Fresh(x) => /\ x + FirstSeenTtl <= firstSeen'[s][d]
                    /\ \A y \in Day : Fresh(y) /\ d \in cohort[s][y] => x = y
  <2> TAKE s \in Segment, x \in Day
  <2> TAKE d \in cohort[s][x]
  <2> HAVE Fresh(x)
  <2>1. d \in Device
    BY DEF TypeInv, SetsOK
  <2>2. x + FirstSeenTtl <= firstSeen[s][d] /\ \A y \in Day : Fresh(y) /\ d \in cohort[s][y] => x = y
    BY DEF SeenInv
  <2>3. firstSeen'[s][d] = firstSeen[s][d]
    BY <1>3, <1>5, <2>1
  <2> QED  BY <2>2, <2>3
<1>7. ASSUME NEW q \in Req, NEW s \in Pending(req'[q])
      PROVE  /\ req'[q].date + FirstSeenTtl <= firstSeen'[s][req'[q].dev]
             /\ \A x \in Day : Fresh(x) => req'[q].dev \notin cohort[s][x]
             /\ \A p \in Req : p # q /\ req'[p].dev = req'[q].dev => s \notin Pending(req'[p])
  <2>1. req'[q].dev = req[q].dev /\ req'[q].date = req[q].date
    BY <1>1 DEF d0
  <2>2. CASE s \in Pending(req[q])
    <3>1. s \in Segment /\ req[q].dev \in Device /\ req[q].date \in Nat /\ req[q].date <= today
      BY <2>2, PendingTask, Numbers
    <3>2. /\ req[q].date + FirstSeenTtl <= firstSeen[s][req[q].dev]
          /\ \A x \in Day : Fresh(x) => req[q].dev \notin cohort[s][x]
          /\ \A p \in Req : p # q /\ req[p].dev = req[q].dev => s \notin Pending(req[p])
      BY <2>2 DEF SeenInv
    <3>3. req'[q].date + FirstSeenTtl <= firstSeen'[s][req'[q].dev]
      BY <1>3, <2>1, <3>1, <3>2, Numbers
    <3>4. ASSUME NEW p \in Req, p # q, req'[p].dev = req'[q].dev, s \in Pending(req'[p]) PROVE FALSE
      <4>1. p = r /\ s = s0 /\ firstSeen[s0][d0] = 0
        <5>1. req[p].dev = req[q].dev /\ s \notin Pending(req[p])
          BY <1>9, <3>2, <3>4
        <5> QED  BY <1>1, <1>4, <3>4, <5>1
      <4> QED  BY <1>1, <1>5, <2>1, <2>2, <3>4, <4>1
    <3> QED  BY <2>1, <3>2, <3>3, <3>4
  <2>3. CASE s \notin Pending(req[q])
    <3>1. q = r /\ s = s0 /\ firstSeen[s0][d0] = 0
      BY <1>1, <1>4, <2>3
    <3>2. firstSeen'[s0][d0] = today + FirstSeenTtl
      BY <1>9, <3>1
    <3>3. req'[q].date + FirstSeenTtl <= firstSeen'[s][req'[q].dev]
      BY <1>1, <1>2, <3>1, <3>2, Numbers
    <3> QED  BY <1>1, <1>5, <3>1, <3>3
  <2> QED  BY <2>2, <2>3
<1>8. Fresh(0)' = Fresh(0) /\ \A x \in Day : Fresh(x)' = Fresh(x)
  BY <1>1 DEF Fresh
<1> QED  BY <1>1, <1>6, <1>7, <1>8 DEF SeenInv, Pending

\* The cohort a task joins, and what it waits for no more.
LEMMA JoinKeeps ==
    ASSUME TypeInv, SeenInv, NEW r \in Req, Joining(r),
           Pending(req'[r]) \subseteq Pending(req[r]) \ {req[r].seg},
           Pending(req'[r]) # {} => req'[r].dev = req[r].dev /\ req'[r].date = req[r].date,
           \A q \in Req \ {r} : req'[q] = req[q]
    PROVE  SeenInv'
<1> DEFINE s0 == req[r].seg
           d0 == req[r].dev
           x0 == req[r].date
<1>1. /\ Records(req[r], cohort, cohort', cohortEnd, cohortEnd') /\ At(r, "join")
      /\ UNCHANGED <<today, firstSeen>>
  BY JoinRecords
<1>2. s0 \in Segment /\ d0 \in Device /\ x0 \in Day /\ s0 \in Pending(req[r])
  BY <1>1, AtWork, JoinWaits DEF At
<1>3. \A s \in Segment, x \in Day :
        cohort'[s][x] = IF s = s0 /\ x = x0 THEN cohort[s][x] \cup {d0} ELSE cohort[s][x]
  BY <1>1 DEF Records
<1>4. /\ x0 + FirstSeenTtl <= firstSeen[s0][d0]
      /\ \A x \in Day : Fresh(x) => d0 \notin cohort[s0][x]
      /\ \A q \in Req : q # r /\ req[q].dev = d0 => s0 \notin Pending(req[q])
  BY <1>2 DEF SeenInv
<1>5. /\ \A q \in Req : Pending(req'[q]) \subseteq Pending(req[q])
      /\ \A q \in Req : Pending(req'[q]) # {} =>
            req'[q].dev = req[q].dev /\ req'[q].date = req[q].date
      /\ s0 \notin Pending(req'[r])
  OBVIOUS
<1> HIDE DEF s0, d0, x0
<1>6. \A s \in Segment, x \in Day : \A d \in cohort'[s][x] :
        Fresh(x) => /\ x + FirstSeenTtl <= firstSeen[s][d]
                    /\ \A y \in Day : Fresh(y) /\ d \in cohort'[s][y] => x = y
  <2> TAKE s \in Segment, x \in Day
  <2> TAKE d \in cohort'[s][x]
  <2> HAVE Fresh(x)
  <2>1. CASE s = s0 /\ d = d0
    <3>1. x = x0 /\ \A y \in Day : Fresh(y) /\ d \in cohort'[s][y] => y = x0
      BY <1>3, <1>4, <2>1
    <3> QED  BY <1>4, <2>1, <3>1
  <2>2. CASE ~(s = s0 /\ d = d0)
    <3>1. \A y \in Day : d \in cohort'[s][y] => d \in cohort[s][y]
      BY <1>3, <2>2
    <3> QED  BY <3>1 DEF SeenInv
  <2> QED  BY <2>1, <2>2
<1>7. ASSUME NEW q \in Req, NEW s \in Pending(req'[q])
      PROVE  /\ req'[q].date + FirstSeenTtl <= firstSeen[s][req'[q].dev]
             /\ \A x \in Day : Fresh(x) => req'[q].dev \notin cohort'[s][x]
             /\ \A p \in Req : p # q /\ req'[p].dev = req'[q].dev => s \notin Pending(req'[p])
  <2>1. s \in Pending(req[q]) /\ req'[q].dev = req[q].dev /\ req'[q].date = req[q].date
        /\ s \in Segment
    BY <1>5, PendingTask
  <2>2. /\ req[q].date + FirstSeenTtl <= firstSeen[s][req[q].dev]
        /\ \A x \in Day : Fresh(x) => req[q].dev \notin cohort[s][x]
        /\ \A p \in Req : p # q /\ req[p].dev = req[q].dev => s \notin Pending(req[p])
    BY <2>1 DEF SeenInv
  <2>3. ~(s = s0 /\ req[q].dev = d0)
    BY <1>4, <1>5, <2>1
  <2>4. \A x \in Day : Fresh(x) => req[q].dev \notin cohort'[s][x]
    BY <1>3, <2>1, <2>2, <2>3
  <2>5. \A p \in Req : p # q /\ req'[p].dev = req'[q].dev => s \notin Pending(req'[p])
    BY <1>5, <2>1, <2>2
  <2> QED  BY <2>1, <2>2, <2>4, <2>5
<1>8. \A x \in Day : Fresh(x)' = Fresh(x)
  BY <1>1 DEF Fresh
<1> QED  BY <1>1, <1>6, <1>7, <1>8 DEF SeenInv, Pending

LEMMA StepSeen == TypeInv /\ SeenInv /\ [Next]_vars => SeenInv'
<1> SUFFICES ASSUME TypeInv, SeenInv, [Next]_vars PROVE SeenInv'
  OBVIOUS
<1>0. today \in Nat /\ \A r \in Req : Pending(req[r]) \subseteq Pending(req[r])
  BY Numbers DEF TypeInv
<1>1. ASSUME NEW r \in Req, Begin(r) PROVE SeenInv'
  <2>1. UNCHANGED <<today, firstSeen, cohort>> /\ req'[r].at = "set" /\ req'[r].new = {}
        /\ \A q \in Req \ {r} : req'[q] = req[q]
    BY <1>1, BeginTask DEF sets
  <2>2. Pending(req'[r]) = {}
    BY <2>1 DEF Pending
  <2> QED  BY <1>0, <2>1, <2>2, Shrinks
<1>2. ASSUME NEW r \in Req, SetFirstSeen(r) PROVE SeenInv'
  BY <1>2, SeenKeeps
<1>3. ASSUME NEW r \in Req, AddActive(r) PROVE SeenInv'
  <2>1. UNCHANGED <<today, firstSeen, cohort>> /\ \A q \in Req \ {r} : req'[q] = req[q]
    BY <1>3, AddTask DEF AddActive
  <2> QED  BY <1>0, <1>3, <2>1, AddPending, Shrinks
<1>4. ASSUME NEW r \in Req, JoinCohort(r) PROVE SeenInv'
  BY <1>4, JoinPending, JoinTask, JoinKeeps DEF Joining
<1>5. ASSUME NEW r \in Req, Cut(r) \/ CutBeforeExpire(r) PROVE SeenInv'
  <2>1. Pending(req'[r]) = {} /\ \A q \in Req \ {r} : req'[q] = req[q]
    BY <1>5, CutTask, NoTaskIsTask
  <2>2. CASE Joining(r)
    BY <2>1, <2>2, JoinKeeps
  <2>3. CASE ~Joining(r)
    <3>1. UNCHANGED <<today, firstSeen, cohort>>
      BY <1>5, <2>3 DEF Cut, CutBeforeExpire, sets, Joining
    <3> QED  BY <1>0, <2>1, <3>1, Shrinks
  <2> QED  BY <2>2, <2>3
<1>6. CASE LapseFirstSeen
  <2>1. UNCHANGED <<today, cohort, req>>
    BY <1>6 DEF LapseFirstSeen
  <2>2. \A s \in Segment, d \in Device :
          firstSeen[s][d] \in Nat /\ (firstSeen'[s][d] = firstSeen[s][d] \/ firstSeen[s][d] <= today)
    BY <1>6, SeenLeft DEF TypeInv
  <2>3. ASSUME NEW s \in Segment, NEW x \in Day, NEW d \in cohort[s][x], Fresh(x)
        PROVE  x + FirstSeenTtl <= firstSeen'[s][d]
    <3>1. d \in Device /\ x \in Nat /\ x + FirstSeenTtl <= firstSeen[s][d]
      BY <2>3, Numbers DEF SeenInv, TypeInv, SetsOK
    <3> QED  BY <1>0, <2>2, <2>3, <3>1, Numbers DEF Fresh
  <2>4. ASSUME NEW r \in Req, NEW s \in Pending(req[r])
        PROVE  req[r].date + FirstSeenTtl <= firstSeen'[s][req[r].dev]
    <3>1. s \in Segment /\ req[r].dev \in Device /\ req[r].date \in Nat /\ today <= req[r].date + 1
      BY PendingTask, Numbers
    <3>2. req[r].date + FirstSeenTtl <= firstSeen[s][req[r].dev]
      BY DEF SeenInv
    <3> QED  BY <1>0, <2>2, <3>1, <3>2, Numbers
  <2>5. \A x \in Day : Fresh(x)' = Fresh(x)
    BY <2>1 DEF Fresh
  <2> QED  BY <2>1, <2>3, <2>4, <2>5 DEF SeenInv, Pending
<1>7. CASE LapseCohort
  BY <1>0, <1>7, LeftCohort, Shrinks
<1>8. CASE NewDay
  <2>1. today' = today + 1 /\ UNCHANGED <<firstSeen, cohort, req>>
    BY <1>8 DEF NewDay, sets
  <2> QED  BY <1>0, <2>1, Shrinks
<1>9. CASE LapseActive \/ CountCohort \/ (\E n \in RetentionDays : CountColumn(n)) \/ UNCHANGED vars
  <2>1. UNCHANGED <<today, firstSeen, cohort, req>>
    BY <1>9 DEF LapseActive, CountCohort, CountColumn, vars, sets
  <2> QED  BY <1>0, <2>1, Shrinks
<1> QED
  BY <1>1, <1>2, <1>3, <1>4, <1>5, <1>6, <1>7, <1>8, <1>9 DEF Next, Track

-----------------------------------------------------------------------------
(* No new user is lost. *)

LEMMA StepKept == TypeInv /\ EndsInv /\ KeptInv /\ [Next]_vars => KeptInv'
<1> SUFFICES ASSUME TypeInv, EndsInv, KeptInv, [Next]_vars PROVE KeptInv'
  OBVIOUS
<1>0. /\ today \in Nat
      /\ \A s \in Segment, d \in Device : firstSeen[s][d] \in Nat
      /\ \A s \in Segment, d \in Device : firstSeen[s][d] # 0 =>
            firstSeen[s][d] + SetTtl <= today + SetTtl + FirstSeenTtl
      /\ \A s \in Segment, x \in Day : cohortEnd[s][x] \in Nat
  BY Numbers DEF TypeInv, EndsInv, SetsOK
<1> DEFINE Waits(s, d) == \E r \in Req : req[r].dev = d /\ s \in Pending(req[r])
           Lasts(s, d) == \E x \in Day : /\ d \in cohort[s][x]
                                         /\ firstSeen[s][d] + SetTtl <= cohortEnd[s][x] + FirstSeenTtl
           Had(s, d) == firstSeen[s][d] + SetTtl <= today + FirstSeenTtl
<1>1. /\ \A s \in Segment, d \in Device : Kept(s, d) <=> Waits(s, d) \/ Lasts(s, d) \/ Had(s, d)
      /\ \A s \in Segment, d \in Device : Kept(s, d)' <=> Waits(s, d)' \/ Lasts(s, d)' \/ Had(s, d)'
  BY DEF Kept, Pending
\* Cohorts that get a member or a later end last on.
<1>2. ASSUME NEW r \in Req, Joining(r), NEW s \in Segment, NEW d \in Device,
             firstSeen[s][d] # 0, Lasts(s, d)
      PROVE  Lasts(s, d)'
  <2>1. /\ Records(req[r], cohort, cohort', cohortEnd, cohortEnd') /\ firstSeen' = firstSeen
        /\ At(r, "join")
    BY <1>2, JoinRecords
  <2>2. PICK x \in Day : /\ d \in cohort[s][x]
                         /\ firstSeen[s][d] + SetTtl <= cohortEnd[s][x] + FirstSeenTtl
    BY <1>2
  <2>3. /\ d \in cohort'[s][x]
        /\ cohortEnd'[s][x] \in {today + SetTtl, Never, cohortEnd[s][x]}
    BY <2>1, <2>2 DEF Records
  <2>4. today + SetTtl <= Never
    BY <2>1, AtWork, Numbers DEF At
  <2>5. firstSeen[s][d] + SetTtl <= cohortEnd'[s][x] + FirstSeenTtl
    BY <1>0, <1>2, <2>2, <2>3, <2>4, Numbers
  <2> QED  BY <2>1, <2>3, <2>5
<1>3. SUFFICES ASSUME NEW s \in Segment, NEW d \in Device \ cut', firstSeen'[s][d] # 0
               PROVE  Waits(s, d)' \/ Lasts(s, d)' \/ Had(s, d)'
  BY <1>1 DEF KeptInv
<1>4. cut \subseteq cut'
  BY DEF Next, Track, Begin, SetFirstSeen, AddActive, JoinCohort, Cut, CutBeforeExpire,
         LapseFirstSeen, LapseActive, LapseCohort, NewDay, CountCohort, CountColumn, vars
<1>5. firstSeen[s][d] # 0 => Waits(s, d) \/ Lasts(s, d) \/ Had(s, d)
  BY <1>1, <1>4 DEF KeptInv
<1> DEFINE Goal == Waits(s, d)' \/ Lasts(s, d)' \/ Had(s, d)'
<1>6. ASSUME UNCHANGED <<today, firstSeen, cohort, cohortEnd>>, Waits(s, d) => Waits(s, d)' PROVE Goal
  BY <1>3, <1>5, <1>6
<1> HIDE DEF Goal
<1>7. ASSUME NEW r \in Req, Begin(r) PROVE Goal
  <2>1. At(r, "idle") /\ UNCHANGED <<today, firstSeen, cohort, cohortEnd>>
        /\ \A q \in Req \ {r} : req'[q] = req[q]
    BY <1>7, BeginTask DEF sets
  <2>2. Pending(req[r]) = {}
    BY <2>1, PendingTask DEF At
  <2> QED  BY <1>6, <2>1, <2>2
<1>8. ASSUME NEW r \in Req, SetFirstSeen(r) PROVE Goal
  <2>1. /\ req'[r].dev = req[r].dev /\ req'[r].at = "add" /\ req[r].at = "set"
        /\ req'[r].new = IF firstSeen[req[r].seg][req[r].dev] = 0 THEN req[r].new \cup {req[r].seg}
                         ELSE req[r].new
        /\ \A q \in Req \ {r} : req'[q] = req[q]
        /\ UNCHANGED <<today, cohort, cohortEnd>>
    BY <1>8, SeenStep DEF SetFirstSeen, At
  <2>2. Pending(req[r]) = req[r].new /\ Pending(req'[r]) = req'[r].new
    BY <2>1 DEF Pending
  <2>3. Waits(s, d) => Waits(s, d)'
    BY <2>1, <2>2
  <2>4. CASE firstSeen'[s][d] = firstSeen[s][d]
    BY <1>3, <1>5, <2>1, <2>3, <2>4 DEF Goal
  <2>5. CASE firstSeen'[s][d] # firstSeen[s][d]
    <3>1. s = req[r].seg /\ d = req[r].dev /\ firstSeen[s][d] = 0
      BY <1>8, <2>5 DEF SetFirstSeen, TypeInv
    <3> QED  BY <2>1, <2>2, <3>1 DEF Goal
  <2> QED  BY <2>4, <2>5
<1>9. ASSUME NEW r \in Req, AddActive(r) PROVE Goal
  <2>1. UNCHANGED <<today, firstSeen, cohort, cohortEnd>> /\ \A q \in Req \ {r} : req'[q] = req[q]
    BY <1>9, AddTask DEF AddActive
  <2>2. Pending(req'[r]) = Pending(req[r]) /\ (Pending(req'[r]) # {} => req'[r].dev = req[r].dev)
    BY <1>9, AddPending
  <2> QED  BY <1>6, <2>1, <2>2
<1>10. ASSUME NEW r \in Req, JoinCohort(r) PROVE Goal
  <2>1. /\ Joining(r) /\ UNCHANGED <<today, firstSeen>> /\ \A q \in Req \ {r} : req'[q] = req[q]
        /\ Records(req[r], cohort, cohort', cohortEnd, cohortEnd') /\ At(r, "join")
    BY <1>10, JoinTask, JoinRecords DEF Joining
  <2>2. Pending(req'[r]) = Pending(req[r]) \ {req[r].seg}
        /\ (Pending(req'[r]) # {} => req'[r].dev = req[r].dev)
    BY <1>10, JoinPending
  <2>3. ASSUME req[r].dev = d, s = req[r].seg PROVE Lasts(s, d)'
    <3>1. PICK x \in Day : x = req[r].date
      BY <2>1, AtWork DEF At
    <3>2. d \in cohort'[s][x]
      BY <2>1, <2>3, <3>1 DEF Records
    <3>3. cohortEnd'[s][x] = today + SetTtl
      BY <1>10, <2>3, <3>1 DEF JoinCohort, CohortDate, TypeInv, SetsOK
    <3>4. firstSeen'[s][d] + SetTtl <= cohortEnd'[s][x] + FirstSeenTtl
      BY <1>0, <1>3, <2>1, <3>3, Numbers
    <3> QED  BY <3>2, <3>4
  <2>4. Waits(s, d) => Waits(s, d)' \/ Lasts(s, d)'
    BY <2>1, <2>2, <2>3
  <2>5. Lasts(s, d) => Lasts(s, d)'
    BY <1>2, <1>3, <2>1
  <2>6. Had(s, d) => Had(s, d)'
    BY <2>1
  <2> QED  BY <1>3, <1>5, <2>1, <2>4, <2>5, <2>6 DEF Goal
<1>11. ASSUME NEW r \in Req, Cut(r) \/ CutBeforeExpire(r) PROVE Goal
  <2>1. d # req[r].dev /\ \A q \in Req \ {r} : req'[q] = req[q]
    BY <1>3, <1>11, CutTask
  <2>2. UNCHANGED <<today, firstSeen>> /\ (Waits(s, d) => Waits(s, d)')
    BY <1>11, <2>1 DEF Cut, CutBeforeExpire, sets
  <2>3. CASE Joining(r)
    <3>1. Lasts(s, d) => Lasts(s, d)'
      BY <1>2, <1>3, <2>2, <2>3
    <3> QED  BY <1>3, <1>5, <2>2, <3>1 DEF Goal
  <2>4. CASE ~Joining(r)
    <3>1. UNCHANGED <<cohort, cohortEnd>>
      BY <1>11, <2>4 DEF Cut, CutBeforeExpire, sets, Joining
    <3> QED  BY <1>6, <2>2, <3>1
  <2> QED  BY <2>3, <2>4
<1>12. CASE LapseFirstSeen
  <2>1. firstSeen'[s][d] = firstSeen[s][d]
    BY <1>3, <1>12, SeenLeft
  <2>2. UNCHANGED <<today, cohort, cohortEnd, req>>
    BY <1>12 DEF LapseFirstSeen
  <2> QED  BY <1>3, <1>5, <2>1, <2>2 DEF Goal
<1>13. CASE LapseCohort
  <2>1. UNCHANGED <<today, firstSeen, req>>
    BY <1>13, LeftCohort
  <2>2. Lasts(s, d) => Lasts(s, d)' \/ Had(s, d)'
    <3> HAVE Lasts(s, d)
    <3>1. PICK x \in Day : /\ d \in cohort[s][x]
                           /\ firstSeen[s][d] + SetTtl <= cohortEnd[s][x] + FirstSeenTtl
      OBVIOUS
    <3>2. CASE cohortEnd[s][x] <= today
      BY <1>0, <2>1, <3>1, <3>2, Numbers
    <3>3. CASE cohort'[s][x] = cohort[s][x] /\ cohortEnd'[s][x] = cohortEnd[s][x]
      BY <2>1, <3>1, <3>3
    <3> QED  BY <1>13, <3>2, <3>3, LeftCohort
  <2> QED  BY <1>3, <1>5, <2>1, <2>2 DEF Goal
<1>14. CASE NewDay
  <2>1. today' = today + 1 /\ UNCHANGED <<firstSeen, cohort, cohortEnd, req>>
    BY <1>14 DEF NewDay, sets
  <2>2. Had(s, d) => Had(s, d)'
    BY <1>0, <2>1, Numbers
  <2> QED  BY <1>3, <1>5, <2>1, <2>2 DEF Goal
<1>15. CASE LapseActive \/ CountCohort \/ (\E n \in RetentionDays : CountColumn(n)) \/ UNCHANGED vars
  <2>1. UNCHANGED <<today, firstSeen, cohort, cohortEnd, req>>
    BY <1>15 DEF LapseActive, CountCohort, CountColumn, vars, sets
  <2>2. Waits(s, d) => Waits(s, d)'
    BY <2>1
  <2> QED  BY <1>6, <2>1, <2>2 DEF Goal
<1> QED
  BY <1>7, <1>8, <1>9, <1>10, <1>11, <1>12, <1>13, <1>14, <1>15 DEF Next, Track, Goal

-----------------------------------------------------------------------------
(* The report. *)

LEMMA StepReport == TypeInv /\ ReportInv /\ [Next]_vars => ReportInv'
<1> SUFFICES ASSUME TypeInv, ReportInv, [Next]_vars PROVE ReportInv'
  OBVIOUS
<1>0. today \in Nat /\ today \in Day /\ report.users \in Nat
      /\ \A s \in Segment, x \in Day : IsFiniteSet(cohort[s][x])
  BY Numbers DEF TypeInv, ReportShape
\* A step of one task: a task that begins has a later date.
<1>1. ASSUME UNCHANGED <<today, report>>, NEW r \in Req,
             \A q \in Req \ {r} : req'[q] = req[q],
             req'[r].at = "idle" \/ req'[r].date = today
                \/ (req[r].at # "idle" /\ req'[r].date = req[r].date),
             \A s \in Segment, x \in Day :
                cohort'[s][x] = cohort[s][x] \/ (req[r].at # "idle" /\ x = req[r].date)
      PROVE  ReportInv'
  <2> SUFFICES ASSUME report.left # {}
               PROVE  /\ report.seg \in Segment /\ report.date \in Day /\ report.date < today
                      /\ report.settled =>
                          /\ \A q \in Req : req'[q].at = "idle" \/ req'[q].date # report.date
                          /\ Cardinality(cohort'[report.seg][report.date]) <= report.users
    BY <1>1 DEF ReportInv, At
  <2>1. /\ report.seg \in Segment /\ report.date \in Day /\ report.date < today /\ report.date \in Nat
        /\ report.settled =>
            /\ \A q \in Req : req[q].at = "idle" \/ req[q].date # report.date
            /\ Cardinality(cohort[report.seg][report.date]) <= report.users
    BY Numbers DEF ReportInv, At
  <2>2. ASSUME report.settled
        PROVE  \A q \in Req : req'[q].at = "idle" \/ req'[q].date # report.date
    BY <1>0, <1>1, <2>1, <2>2
  <2>3. ASSUME report.settled
        PROVE  cohort'[report.seg][report.date] = cohort[report.seg][report.date]
    BY <1>1, <2>1, <2>3
  <2> QED  BY <2>1, <2>2, <2>3
<1>2. ASSUME NEW r \in Req, Begin(r) PROVE ReportInv'
  BY <1>1, <1>2, BeginTask DEF sets
<1>3. ASSUME NEW r \in Req, SetFirstSeen(r) PROVE ReportInv'
  BY <1>1, <1>3, SeenStep DEF SetFirstSeen, At
<1>4. ASSUME NEW r \in Req, AddActive(r) PROVE ReportInv'
  <2> DEFINE t == AfterFirst(req[r])
  <2>1. /\ req'[r] = t /\ At(r, "add") /\ UNCHANGED <<today, report, cohort>>
        /\ \A q \in Req \ {r} : req'[q] = req[q]
    BY <1>4, AddTask DEF AddActive
  <2>2. t = NoTask \/ t.date = req[r].date
    BY <2>1, FirstStep
  <2> HIDE DEF t
  <2> QED  BY <1>1, <2>1, <2>2, NoTaskIsTask DEF At
<1>5. ASSUME NEW r \in Req, JoinCohort(r) PROVE ReportInv'
  <2> DEFINE t == AfterSecond(req[r])
  <2>1. /\ req'[r] = t /\ At(r, "join") /\ UNCHANGED <<today, report>>
        /\ \A q \in Req \ {r} : req'[q] = req[q]
        /\ Records(req[r], cohort, cohort', cohortEnd, cohortEnd')
    BY <1>5, JoinTask, JoinRecords DEF JoinCohort, Joining
  <2>2. t = NoTask \/ t.date = req[r].date
    BY <2>1, SecondStep
  <2>3. \A s \in Segment, x \in Day : cohort'[s][x] = cohort[s][x] \/ x = req[r].date
    BY <2>1 DEF Records
  <2> HIDE DEF t
  <2> QED  BY <1>1, <2>1, <2>2, <2>3, NoTaskIsTask DEF At
<1>6. ASSUME NEW r \in Req, Cut(r) \/ CutBeforeExpire(r) PROVE ReportInv'
  <2>1. /\ req'[r].at = "idle" /\ req[r].at # "idle" /\ \A q \in Req \ {r} : req'[q] = req[q]
        /\ UNCHANGED <<today, report>>
    BY <1>6, CutTask, NoTaskIsTask DEF Cut, CutBeforeExpire, sets, At
  <2>2. \A s \in Segment, x \in Day : cohort'[s][x] = cohort[s][x] \/ x = req[r].date
    <3>1. CASE Joining(r)
      BY <3>1, JoinRecords DEF Records
    <3>2. CASE ~Joining(r)
      BY <1>6, <3>2 DEF Cut, CutBeforeExpire, sets, Joining
    <3> QED  BY <3>1, <3>2
  <2> QED  BY <1>1, <2>1, <2>2
<1>7. CASE LapseCohort
  <2>1. /\ UNCHANGED <<today, req, report>>
        /\ \A s \in Segment, x \in Day : cohort'[s][x] = cohort[s][x] \/ cohort'[s][x] = {}
    BY <1>7, LeftCohort
  <2>2. Cardinality({}) = 0
    BY FS_EmptySet
  <2>3. \A s \in Segment, x \in Day :
          Cardinality(cohort[s][x]) <= report.users => Cardinality(cohort'[s][x]) <= report.users
    <3> TAKE s \in Segment, x \in Day
    <3>1. cohort'[s][x] = cohort[s][x] \/ cohort'[s][x] = {}
      BY <2>1
    <3>2. CASE cohort'[s][x] = {}
      BY <1>0, <2>2, <3>2
    <3> QED  BY <3>1, <3>2
  <2> QED  BY <2>1, <2>3 DEF ReportInv, At
<1>8. CASE NewDay
  <2>1. today' = today + 1 /\ UNCHANGED <<req, report, cohort>>
    BY <1>8 DEF NewDay, sets
  <2>2. \A x \in Day : x < today => x < today'
    BY <1>0, <2>1, Numbers
  <2> QED  BY <2>1, <2>2 DEF ReportInv, At
<1>9. CASE CountCohort
  <2>1. PICK s \in Segment, x \in 1..today :
          LET due == {n \in RetentionDays : x + n <= today}
          IN  report' = IF due = {} THEN NoReport
                        ELSE [seg |-> s, date |-> x, left |-> due,
                              users |-> Cardinality(cohort[s][x]),
                              settled |-> \A r \in Req : At(r, "idle") \/ req[r].date # x]
    BY <1>9 DEF CountCohort
  <2>2. UNCHANGED <<today, req, cohort>>
    BY <1>9 DEF CountCohort, sets
  <2> DEFINE due == {n \in RetentionDays : x + n <= today}
  <2>3. CASE due = {}
    BY <2>1, <2>3 DEF ReportInv, NoReport
  <2>4. CASE due # {}
    <3>1. x \in Day /\ x < today
      <4>1. PICK n \in RetentionDays : x + n <= today
        BY <2>4
      <4>2. n \in Nat /\ n # 0
        BY Numbers
      <4> QED  BY <1>0, <4>1, <4>2, Numbers
    <3>2. /\ report'.seg = s /\ report'.date = x /\ report'.users = Cardinality(cohort[s][x])
          /\ report'.settled <=> \A r \in Req : At(r, "idle") \/ req[r].date # x
      BY <2>1, <2>4
    <3>3. Cardinality(cohort[s][x]) \in Nat
      BY <1>0, <3>1, FS_CardinalityType
    <3> QED  BY <2>2, <3>1, <3>2, <3>3 DEF ReportInv, At
  <2> QED  BY <2>3, <2>4
<1>10. ASSUME NEW n \in RetentionDays, CountColumn(n) PROVE ReportInv'
  <2>1. /\ UNCHANGED <<today, req, cohort>> /\ report.left # {}
        /\ report' = IF report.left = {n} THEN NoReport ELSE [report EXCEPT !.left = @ \ {n}]
    BY <1>10 DEF CountColumn, sets
  <2>2. CASE report.left = {n}
    BY <2>1, <2>2 DEF ReportInv, NoReport
  <2>3. CASE report.left # {n}
    <3>1. /\ report'.seg = report.seg /\ report'.date = report.date /\ report'.users = report.users
          /\ report'.settled = report.settled
      BY <2>1, <2>3 DEF TypeInv, ReportShape
    <3> QED  BY <2>1, <3>1 DEF ReportInv, At
  <2> QED  BY <2>2, <2>3
<1>11. CASE LapseFirstSeen \/ LapseActive \/ UNCHANGED vars
  BY <1>11 DEF LapseFirstSeen, LapseActive, vars, sets, ReportInv, At
<1> QED
  BY <1>2, <1>3, <1>4, <1>5, <1>6, <1>7, <1>8, <1>9, <1>10, <1>11 DEF Next, Track

-----------------------------------------------------------------------------
(* The theorems. *)

LEMMA InitInv == Init => Inv
<1> SUFFICES ASSUME Init PROVE Inv
  OBVIOUS
<1>1. TypeInv
  BY InitType
<1>2. EndsInv
  BY DEF Init, EndsInv, NoSets
<1>3. \A r \in Req : At(r, "idle") /\ Pending(req[r]) = {}
  BY NoTaskIsTask DEF Init, At
<1>4. ActiveInv /\ CohortWasActive
  BY <1>3 DEF Init, ActiveInv, CohortWasActive, NoSets
<1>5. SeenInv
  BY <1>3 DEF Init, SeenInv, NoSets
<1>6. KeptInv
  BY DEF Init, KeptInv
<1>7. ReportInv
  BY DEF Init, ReportInv, NoReport
<1> QED  BY <1>1, <1>2, <1>4, <1>5, <1>6, <1>7 DEF Inv

LEMMA StepInv == Inv /\ [Next]_vars => Inv'
BY StepType, StepEnds, StepActive, StepCohort, StepSeen, StepKept, StepReport DEF Inv

LEMMA Always == Spec => []Inv
BY InitInv, StepInv, PTL DEF Spec

\* However tasks of a device run at once, around midnight too, and whatever
\* lapses or is cut off, a device is in no two cohorts of a segment that lapse.
THEOREM DevicesAreCountedOnce == Spec => []CountedOnce
<1>1. Inv => CountedOnce
  <2> SUFFICES ASSUME Inv, NEW s \in Segment, NEW x \in Day, NEW y \in Day, x # y,
                      Never \notin {cohortEnd[s][x], cohortEnd[s][y]},
                      NEW d \in cohort[s][x], d \in cohort[s][y]
               PROVE  FALSE
    BY DEF CountedOnce
  <2>1. \A z \in Day : d \in cohort[s][z] /\ cohortEnd[s][z] # Never => Fresh(z)
    <3> SUFFICES ASSUME NEW z \in Day, d \in cohort[s][z], cohortEnd[s][z] # Never PROVE Fresh(z)
      OBVIOUS
    <3>1. today <= cohortEnd[s][z] /\ cohortEnd[s][z] <= z + 1 + SetTtl
      BY DEF Inv, EndsInv
    <3>2. today \in Nat /\ z \in Nat /\ cohortEnd[s][z] \in 0..Never
      BY Numbers DEF Inv, TypeInv, SetsOK
    <3> QED  BY <3>1, <3>2, Numbers DEF Fresh
  <2> QED  BY <2>1 DEF Inv, SeenInv
<1> QED  BY <1>1, Always, PTL

\* A cohort was active on its day, as long as the day's activity is kept.
THEOREM CohortsWereActive == Spec => []CohortWasActive
<1>1. Inv => CohortWasActive
  BY DEF Inv
<1> QED  BY <1>1, Always, PTL

\* No order of the commands of its tasks loses a new user.
THEOREM NewUsersAreKept == Spec => []NewUsersAreCounted
<1>1. Inv => NewUsersAreCounted
  <2> SUFFICES ASSUME Inv, NEW s \in Segment, NEW d \in Device \ cut,
                      firstSeen[s][d] > today + FirstSeenTtl - SetTtl,
                      \A r \in Req : At(r, "idle") \/ req[r].dev # d
               PROVE  \E x \in Day : d \in cohort[s][x]
    BY DEF NewUsersAreCounted
  <2>1. today \in Nat /\ firstSeen[s][d] \in Nat
    BY Numbers DEF Inv, TypeInv
  <2>2. firstSeen[s][d] # 0 /\ ~(firstSeen[s][d] + SetTtl <= today + FirstSeenTtl)
    BY <2>1, Numbers
  <2>3. \A r \in Req : req[r].dev = d => s \notin Pending(req[r])
    BY PendingTask DEF Inv, At
  <2> QED  BY <2>2, <2>3 DEF Inv, KeptInv, Kept
<1> QED  BY <1>1, Always, PTL

\* Fewer of the new users of a day are counted later than there were.
THEOREM RatesAreAtMostOne == Spec => RatesAreRates
<1>1. Inv /\ [Next]_vars =>
        [\A n \in RetentionDays :
            CountColumn(n) /\ report.settled
                => Retained(report.seg, report.date, n) <= report.users]_vars
  <2> SUFFICES ASSUME Inv, NEW n \in RetentionDays, CountColumn(n), report.settled
               PROVE  Retained(report.seg, report.date, n) <= report.users
    OBVIOUS
  <2> DEFINE devices == cohort[report.seg][report.date]
             retained == devices \cap active[report.seg][report.date + n]
  <2>1. report.left # {}
    BY DEF CountColumn
  <2>2. report.seg \in Segment /\ report.date \in Day /\ Cardinality(devices) <= report.users
    BY <2>1 DEF Inv, ReportInv
  <2>3. IsFiniteSet(devices) /\ report.users \in Nat
    BY <2>2 DEF Inv, TypeInv, ReportShape
  <2>4. Cardinality(retained) <= Cardinality(devices)
    BY <2>3, FS_Subset
  <2>5. Cardinality(devices) \in Nat /\ Cardinality(retained) \in Nat
    BY <2>3, FS_Subset, FS_CardinalityType
  <2> QED  BY <2>2, <2>3, <2>4, <2>5 DEF Retained
<1> QED  BY <1>1, Always, PTL DEF Spec, RatesAreRates

-----------------------------------------------------------------------------
(***************************************************************************)
(* The report: a counter holds, for each device of the dates in its        *)
(* window, on how many of them it was active, so that it is in the counter *)
(* until the last of them has left.                                        *)
(***************************************************************************)

\* What a counter holds of some dates.
SeenOn(days) == UNION {activity[d] : d \in days}
DaysOf(m, days) == {d \in days : m \in activity[d]}
Counts(counter, days) == counter = [m \in SeenOn(days) |-> Cardinality(DaysOf(m, days))]

\* The dates read, and those in a window of some days before a date.
First == Preload(range.start)
Window(date, days) == {d \in First..(date - 1) : d >= date - days}

ReportTyped ==
    /\ range.start \in Int /\ range.end \in Int /\ range.start <= range.end
    /\ First..range.end \subseteq Recorded
    /\ activity \in [Recorded -> SUBSET Member]
    /\ cursor \in First..(range.end + 1)

RowOK(date, row) ==
    /\ row.dau = Cardinality(activity[date])
    /\ row.wau = Cardinality(UsersOf(date, WeekDays))
    /\ row.mau = Cardinality(UsersOf(date, MonthDays))

CountersInv ==
    /\ ReportTyped
    /\ Counts(weekly, Window(cursor, WeekDays)) /\ Counts(monthly, Window(cursor, MonthDays))
    /\ DOMAIN rows \subseteq range.start..(cursor - 1)
    /\ \A date \in DOMAIN rows : RowOK(date, rows[date])

LEMMA WindowNumbers ==
    WeekDays \in Nat /\ WeekDays >= 1 /\ MonthDays \in Nat /\ MonthDays >= 1 /\ WeekDays <= MonthDays
BY WindowAssumption

LEMMA DatesOfRange ==
    ASSUME NEW S \in Dates, NEW E \in Dates, S <= E
    PROVE  /\ S \in Int /\ E \in Int /\ Recorded \subseteq Int
           /\ Preload(S) \in Int /\ Preload(S) <= S /\ Preload(S)..E \subseteq Recorded
<1>1. PICK f \in Dates, l \in Dates : f <= l /\ Dates = f..l
  BY DateAssumption
<1>2. f \in Int /\ l \in Int /\ S \in f..l /\ E \in f..l
  BY <1>1, DateAssumption
<1>3. Min(Dates) = f
  <2>1. f \in Dates /\ \A y \in Dates : f <= y
    BY <1>1, <1>2
  <2>2. Min(Dates) \in Dates /\ \A y \in Dates : Min(Dates) <= y
    BY <2>1 DEF Min
  <2> QED  BY <1>1, <1>2, <2>1, <2>2
<1>4. Max(Dates) = l
  <2>1. l \in Dates /\ \A y \in Dates : l >= y
    BY <1>1, <1>2
  <2>2. Max(Dates) \in Dates /\ \A y \in Dates : Max(Dates) >= y
    BY <2>1 DEF Max
  <2> QED  BY <1>1, <1>2, <2>1, <2>2
<1>5. Recorded = (f - (MonthDays - 1))..l
  BY <1>3, <1>4 DEF Recorded
<1> QED  BY <1>2, <1>5, WindowNumbers DEF Preload

LEMMA NumberOfDays ==
    ASSUME NEW W, IsFiniteSet(W), NEW m
    PROVE  /\ IsFiniteSet(DaysOf(m, W)) /\ Cardinality(DaysOf(m, W)) \in Nat
           /\ m \in SeenOn(W) <=> Cardinality(DaysOf(m, W)) > 0
<1>1. IsFiniteSet(DaysOf(m, W))
  BY FS_Subset DEF DaysOf
<1>2. Cardinality(DaysOf(m, W)) \in Nat /\ (Cardinality(DaysOf(m, W)) = 0 <=> DaysOf(m, W) = {})
  BY <1>1, FS_CardinalityType, FS_EmptySet
<1>3. m \in SeenOn(W) <=> DaysOf(m, W) # {}
  BY DEF SeenOn, DaysOf
<1> QED  BY <1>1, <1>2, <1>3

\* The days of a window with one date more, or one less.
LEMMA DaysWith ==
    ASSUME NEW W, IsFiniteSet(W), NEW c, c \notin W, NEW m
    PROVE  Cardinality(DaysOf(m, W \cup {c})) =
             Cardinality(DaysOf(m, W)) + (IF m \in activity[c] THEN 1 ELSE 0)
<1>1. IsFiniteSet(DaysOf(m, W)) /\ Cardinality(DaysOf(m, W)) \in Nat /\ c \notin DaysOf(m, W)
  BY NumberOfDays DEF DaysOf
<1>2. CASE m \in activity[c]
  <2>1. DaysOf(m, W \cup {c}) = DaysOf(m, W) \cup {c}
    BY <1>2 DEF DaysOf
  <2> QED  BY <1>1, <1>2, <2>1, FS_AddElement
<1>3. CASE m \notin activity[c]
  <2>1. DaysOf(m, W \cup {c}) = DaysOf(m, W)
    BY <1>3 DEF DaysOf
  <2> QED  BY <1>1, <1>3, <2>1
<1> QED  BY <1>2, <1>3

LEMMA DaysWithout ==
    ASSUME NEW W, IsFiniteSet(W), NEW c \in W, NEW m
    PROVE  Cardinality(DaysOf(m, W \ {c})) =
             Cardinality(DaysOf(m, W)) - (IF m \in activity[c] THEN 1 ELSE 0)
<1>1. IsFiniteSet(DaysOf(m, W)) /\ Cardinality(DaysOf(m, W)) \in Nat
  BY NumberOfDays
<1>2. CASE m \in activity[c]
  <2>1. DaysOf(m, W \ {c}) = DaysOf(m, W) \ {c} /\ c \in DaysOf(m, W)
    BY <1>2 DEF DaysOf
  <2> QED  BY <1>1, <1>2, <2>1, FS_RemoveElement
<1>3. CASE m \notin activity[c]
  <2>1. DaysOf(m, W \ {c}) = DaysOf(m, W)
    BY <1>3 DEF DaysOf
  <2> QED  BY <1>1, <1>3, <2>1
<1> QED  BY <1>2, <1>3

LEMMA CountsOf ==
    ASSUME NEW B, NEW W, IsFiniteSet(W)
    PROVE  Counts(B, W) <=>
              /\ B = [m \in DOMAIN B |-> B[m]]
              /\ \A m : m \in DOMAIN B <=> Cardinality(DaysOf(m, W)) > 0
              /\ \A m \in DOMAIN B : B[m] = Cardinality(DaysOf(m, W))
<1>1. ASSUME Counts(B, W)
      PROVE  /\ B = [m \in DOMAIN B |-> B[m]]
             /\ \A m : m \in DOMAIN B <=> Cardinality(DaysOf(m, W)) > 0
             /\ \A m \in DOMAIN B : B[m] = Cardinality(DaysOf(m, W))
  BY <1>1, NumberOfDays DEF Counts
<1>2. ASSUME B = [m \in DOMAIN B |-> B[m]],
             \A m : m \in DOMAIN B <=> Cardinality(DaysOf(m, W)) > 0,
             \A m \in DOMAIN B : B[m] = Cardinality(DaysOf(m, W))
      PROVE  Counts(B, W)
  <2>1. DOMAIN B = SeenOn(W)
    BY <1>2, NumberOfDays
  <2> QED  BY <1>2, <2>1 DEF Counts
<1> QED  BY <1>1, <1>2

\* What Counter.update adds, and what is left of it after Counter.subtract.
LEMMA CountDateMore ==
    ASSUME NEW B, NEW W, IsFiniteSet(W), Counts(B, W), NEW c, c \notin W
    PROVE  Counts(AddUsers(B, activity[c]), W \cup {c})
<1> DEFINE A == activity[c]  C == AddUsers(B, A)  n(m) == Cardinality(DaysOf(m, W))
<1>1. /\ \A m : n(m) \in Nat
      /\ \A m : m \in DOMAIN B <=> n(m) > 0
      /\ \A m \in DOMAIN B : B[m] = n(m)
  BY CountsOf, NumberOfDays
<1>2. C = [m \in DOMAIN B \cup A |-> (IF m \in DOMAIN B THEN B[m] ELSE 0)
                                     + (IF m \in A THEN [x \in A |-> 1][m] ELSE 0)]
  BY DEF AddUsers, SetToBag, (+)
<1> HIDE DEF n, C
<1>3. /\ C = [m \in DOMAIN C |-> C[m]] /\ DOMAIN C = DOMAIN B \cup A
      /\ \A m \in DOMAIN C : C[m] = n(m) + (IF m \in A THEN 1 ELSE 0)
  BY <1>1, <1>2
<1>4. \A m : m \in DOMAIN C <=> n(m) + (IF m \in A THEN 1 ELSE 0) > 0
  BY <1>1, <1>3
<1>5. \A m : Cardinality(DaysOf(m, W \cup {c})) = n(m) + (IF m \in A THEN 1 ELSE 0)
  BY DaysWith DEF n
<1>6. IsFiniteSet(W \cup {c})
  BY FS_AddElement
<1>7. Counts(C, W \cup {c})
  BY <1>3, <1>4, <1>5, <1>6, CountsOf
<1> QED  BY <1>7 DEF C

LEMMA CountDateLess ==
    ASSUME NEW B, NEW W, IsFiniteSet(W), Counts(B, W), NEW c \in W
    PROVE  Counts(RemoveUsers(B, activity[c]), W \ {c})
<1> DEFINE A == activity[c]  C == RemoveUsers(B, A)  n(m) == Cardinality(DaysOf(m, W))
           l(m) == n(m) - (IF m \in A THEN 1 ELSE 0)
<1>1. /\ \A m : n(m) \in Nat
      /\ \A m : m \in DOMAIN B <=> n(m) > 0
      /\ \A m \in DOMAIN B : B[m] = n(m)
  BY CountsOf, NumberOfDays
<1> DEFINE D == [m \in DOMAIN B |-> IF m \in A THEN B[m] - [x \in A |-> 1][m] ELSE B[m]]
<1>2. C = [m \in {d \in DOMAIN D : D[d] > 0} |-> D[m]]
  BY DEF RemoveUsers, SetToBag, (-)
<1>3. DOMAIN D = DOMAIN B /\ \A m \in DOMAIN B : D[m] = l(m)
  BY <1>1
<1>4. \A m \in A : m \in DOMAIN B
  <2>1. \A m \in A : c \in DaysOf(m, W)
    BY DEF DaysOf
  <2>2. \A m \in A : m \in SeenOn(W)
    BY DEF SeenOn
  <2> QED  BY <1>1, <2>2, NumberOfDays
<1> HIDE DEF n, l, C, D
<1>5. /\ C = [m \in DOMAIN C |-> C[m]]
      /\ \A m : m \in DOMAIN C <=> m \in DOMAIN B /\ l(m) > 0
      /\ \A m \in DOMAIN C : C[m] = l(m)
  BY <1>2, <1>3
<1>6. \A m : l(m) > 0 => m \in DOMAIN B
  BY <1>1 DEF l
<1>7. \A m : Cardinality(DaysOf(m, W \ {c})) = l(m)
  BY DaysWithout DEF l, n
<1>8. IsFiniteSet(W \ {c})
  BY FS_RemoveElement
<1>9. Counts(C, W \ {c})
  BY <1>5, <1>6, <1>7, <1>8, CountsOf
<1> QED  BY <1>9 DEF C

LEMMA CountNoneLess ==
    ASSUME NEW B, NEW W, IsFiniteSet(W), Counts(B, W)
    PROVE  RemoveUsers(B, {}) = B
<1>1. /\ B = [m \in DOMAIN B |-> B[m]]
      /\ \A m \in DOMAIN B : B[m] > 0
  BY CountsOf
<1> DEFINE D == [m \in DOMAIN B |-> IF m \in {} THEN B[m] - [x \in {} |-> 1][m] ELSE B[m]]
<1>2. RemoveUsers(B, {}) = [m \in {d \in DOMAIN D : D[d] > 0} |-> D[m]]
  BY DEF RemoveUsers, SetToBag, (-)
<1>3. D = B
  BY <1>1
<1>4. {d \in DOMAIN B : B[d] > 0} = DOMAIN B
  BY <1>1
<1> QED  BY <1>1, <1>2, <1>3, <1>4

LEMMA WindowIsFinite ==
    ASSUME ReportTyped, NEW date \in Int, NEW days \in Nat
    PROVE  IsFiniteSet(Window(date, days))
<1>1. First \in Int
  BY WindowNumbers DEF ReportTyped, First, Preload
<1>2. IsFiniteSet(First..(date - 1))
  BY <1>1, FS_Interval
<1> QED  BY <1>2, FS_Subset DEF Window

LEMMA WindowAfter ==
    ASSUME First \in Int, NEW c \in Int, NEW days \in Nat, NEW d
    PROVE  d \in Window(c + 1, days) <=> d \in First..c /\ d >= c + 1 - days
<1>1. c + 1 - 1 = c
  OBVIOUS
<1> QED  BY <1>1 DEF Window

\* The counter of a window after the turn of a date.
LEMMA CounterTurns ==
    ASSUME ReportTyped, cursor <= range.end, NEW days \in Nat \ {0}, NEW B,
           Counts(B, Window(cursor, days))
    PROVE  Counts(RemoveUsers(AddUsers(B, ActiveOn(cursor)), Leaving(cursor, days)),
                  Window(cursor + 1, days))
<1> DEFINE W == Window(cursor, days)  V == W \cup {cursor}  x == cursor - days
<1>1. /\ First \in Int /\ cursor \in Int /\ cursor >= First /\ range.end \in Int
      /\ cursor \in First..range.end
  BY WindowNumbers DEF ReportTyped, First, Preload
<1>2. IsFiniteSet(W) /\ cursor \notin W
  <2>1. cursor \notin W
    BY <1>1 DEF Window
  <2> QED  BY <1>1, <2>1, WindowIsFinite
<1>3. ActiveOn(cursor) = activity[cursor]
  BY <1>1 DEF ActiveOn, First
<1> DEFINE C == AddUsers(B, activity[cursor])
<1>4. Counts(C, V) /\ IsFiniteSet(V)
  BY <1>2, CountDateMore, FS_AddElement
<1>5. Window(cursor + 1, days) = V \ {x}
  <2>1. ASSUME NEW d PROVE d \in Window(cursor + 1, days) <=> d \in V /\ d # x
    <3>1. d \in Window(cursor + 1, days) <=> d \in First..cursor /\ d >= cursor + 1 - days
      BY <1>1, WindowAfter
    <3>2. d \in V <=> (d \in First..(cursor - 1) /\ d >= cursor - days) \/ d = cursor
      BY DEF Window
    <3> QED  BY <1>1, <3>1, <3>2
  <2> QED  BY <2>1
<1>6. CASE x \in First..range.end
  <2>1. Leaving(cursor, days) = activity[x]
    BY <1>6 DEF Leaving, ActiveOn, First
  <2>2. x \in V
    BY <1>1, <1>6 DEF Window
  <2> HIDE DEF V, C
  <2>3. Counts(RemoveUsers(C, activity[x]), V \ {x})
    BY <1>4, <2>2, CountDateLess
  <2> QED  BY <1>3, <1>5, <2>1, <2>3 DEF C
<1>7. CASE x \notin First..range.end
  <2>1. Leaving(cursor, days) = {}
    BY <1>7 DEF Leaving, ActiveOn, First
  <2>2. V \ {x} = V
    BY <1>1, <1>7 DEF Window
  <2> HIDE DEF V, C
  <2>3. RemoveUsers(C, {}) = C
    BY <1>4, CountNoneLess
  <2> QED  BY <1>3, <1>4, <1>5, <2>1, <2>2, <2>3 DEF C
<1> QED  BY <1>6, <1>7

\* From the first date of the range on, a window is in what was read.
LEMMA WindowIsWhole ==
    ASSUME ReportTyped, cursor >= range.start, NEW days \in Nat \ {0}, days <= MonthDays,
           NEW B, Counts(B, Window(cursor + 1, days))
    PROVE  BagToSet(B) = UsersOf(cursor, days)
<1>1. Window(cursor + 1, days) = (cursor - days + 1)..cursor
  <2>1. /\ First = range.start - (MonthDays - 1) /\ cursor \in Int /\ range.start \in Int
        /\ MonthDays \in Nat
    BY WindowNumbers DEF ReportTyped, First, Preload
  <2>2. cursor + 1 - 1 = cursor /\ cursor + 1 - days = cursor - days + 1
        /\ First <= cursor - days + 1
    BY <2>1
  <2>3. First \in Int
    BY <2>1
  <2> QED  BY <2>1, <2>2, <2>3 DEF Window
<1> QED  BY <1>1 DEF Counts, SeenOn, UsersOf, BagToSet

LEMMA InitCounters == ReportInit => CountersInv
<1> SUFFICES ASSUME ReportInit PROVE CountersInv
  OBVIOUS
<1>1. PICK S \in Dates, E \in Dates : S <= E /\ range = [start |-> S, end |-> E]
  <2>1. PICK f \in Dates, l \in Dates :
          range = IF l < f THEN [start |-> l, end |-> f] ELSE [start |-> f, end |-> l]
    BY DEF ReportInit
  <2>2. f \in Int /\ l \in Int
    BY DateAssumption
  <2> QED  BY <2>1, <2>2
<1>2. range.start = S /\ range.end = E
  BY <1>1
<1>3. ReportTyped
  <2>1. cursor = First /\ First \in Int /\ First <= S
    BY <1>1, <1>2, DatesOfRange DEF ReportInit, First
  <2> QED  BY <1>1, <1>2, <2>1, DatesOfRange DEF ReportInit, ReportTyped, First
<1>4. \A days \in Nat : Window(cursor, days) = {}
  <2>1. cursor = First /\ First \in Int
    BY <1>1, <1>2, DatesOfRange DEF ReportInit, First
  <2> QED  BY <2>1 DEF Window
<1>5. Counts(EmptyBag, {})
  BY DEF Counts, SeenOn, EmptyBag, SetToBag
<1>6. Counts(weekly, Window(cursor, WeekDays)) /\ Counts(monthly, Window(cursor, MonthDays))
  BY <1>4, <1>5, WindowNumbers DEF ReportInit
<1> QED  BY <1>3, <1>6 DEF ReportInit, CountersInv

LEMMA StepCounters == CountersInv /\ [ReportStep]_reportVars => CountersInv'
<1> SUFFICES ASSUME CountersInv, [ReportStep]_reportVars PROVE CountersInv'
  OBVIOUS
<1>1. CASE CountDate
  <2>1. /\ cursor <= range.end /\ cursor' = cursor + 1 /\ range' = range /\ activity' = activity
        /\ weekly' = RemoveUsers(AddUsers(weekly, ActiveOn(cursor)), Leaving(cursor, WeekDays))
        /\ monthly' = RemoveUsers(AddUsers(monthly, ActiveOn(cursor)), Leaving(cursor, MonthDays))
    BY <1>1 DEF CountDate
  <2>2. ReportTyped /\ ReportTyped'
    <3>1. cursor \in Int /\ range.end \in Int /\ First \in Int /\ First <= cursor /\ ReportTyped
      BY WindowNumbers DEF CountersInv, ReportTyped, First, Preload
    <3>2. cursor' \in First..(range.end + 1)
      BY <2>1, <3>1
    <3> QED  BY <2>1, <3>1, <3>2 DEF ReportTyped, First
  <2>3. /\ Counts(weekly', Window(cursor + 1, WeekDays))
        /\ Counts(monthly', Window(cursor + 1, MonthDays))
    BY <2>1, <2>2, CounterTurns, WindowNumbers DEF CountersInv
  <2>4. Counts(weekly, Window(cursor, WeekDays))' /\ Counts(monthly, Window(cursor, MonthDays))'
    BY <2>1, <2>3 DEF Counts, SeenOn, DaysOf, Window, First
  <2> DEFINE OK(d, row) == /\ row.dau = Cardinality(activity[d])
                           /\ row.wau = Cardinality(UsersOf(d, WeekDays))
                           /\ row.mau = Cardinality(UsersOf(d, MonthDays))
  <2>a. \A d, row : RowOK(d, row) <=> OK(d, row)
    BY DEF RowOK
  <2>b. \A d, row : RowOK(d, row)' <=> OK(d, row)
    <3>1. \A d, days : UsersOf(d, days)' = UsersOf(d, days)
      BY <2>1 DEF UsersOf
    <3> QED  BY <2>1, <3>1 DEF RowOK
  <2> HIDE DEF OK
  <2>c. ASSUME \A d \in DOMAIN rows' : OK(d, rows'[d]), DOMAIN rows' \subseteq range.start..cursor
        PROVE  CountersInv'
    <3>1. DOMAIN rows' \subseteq range'.start..(cursor' - 1)
      <4>1. cursor' - 1 = cursor
        BY <2>1, <2>2 DEF ReportTyped
      <4> QED  BY <2>1, <2>c, <4>1
    <3>2. \A d \in DOMAIN rows' : RowOK(d, rows[d])'
      <4> TAKE d \in DOMAIN rows'
      <4>1. PICK row : row = rows'[d]
        OBVIOUS
      <4>2. RowOK(d, row)'
        BY <2>b, <2>c, <4>1
      <4> QED  BY <4>1, <4>2 DEF RowOK
    <3> QED  BY <2>2, <2>4, <3>1, <3>2 DEF CountersInv
  <2>5. CASE cursor < range.start
    <3>1. rows' = rows
      BY <1>1, <2>5 DEF CountDate
    <3>2. DOMAIN rows \subseteq range.start..cursor
      BY <2>2 DEF CountersInv, ReportTyped
    <3> QED  BY <2>a, <2>c, <3>1, <3>2 DEF CountersInv
  <2>6. CASE ~(cursor < range.start)
    <3>1. /\ DOMAIN rows' = DOMAIN rows \cup {cursor}
          /\ \A d \in DOMAIN rows : rows'[d] = rows[d]
          /\ cursor \notin DOMAIN rows =>
               rows'[cursor] = [dau |-> Cardinality(ActiveOn(cursor)),
                                wau |-> Cardinality(BagToSet(weekly')),
                                mau |-> Cardinality(BagToSet(monthly'))]
      BY <1>1, <2>6 DEF CountDate
    <3>2. cursor \in Int /\ range.start \in Int /\ range.start <= cursor
          /\ cursor \in First..range.end
      BY <2>1, <2>2, <2>6, WindowNumbers DEF ReportTyped, First, Preload
    <3>3. cursor \notin DOMAIN rows /\ DOMAIN rows' \subseteq range.start..cursor
      BY <3>1, <3>2 DEF CountersInv
    <3>4. RowOK(cursor, rows'[cursor])
      <4>1. ActiveOn(cursor) = activity[cursor]
        BY <3>2 DEF ActiveOn, First
      <4>2. /\ BagToSet(weekly') = UsersOf(cursor, WeekDays)
            /\ BagToSet(monthly') = UsersOf(cursor, MonthDays)
        BY <2>2, <2>3, <3>2, WindowIsWhole, WindowNumbers
      <4> QED  BY <3>1, <3>3, <4>1, <4>2 DEF RowOK
    <3> QED  BY <2>a, <2>c, <3>1, <3>3, <3>4 DEF CountersInv
  <2> QED  BY <2>5, <2>6
<1>2. CASE DetailDate \/ UNCHANGED reportVars
  <2>1. UNCHANGED <<range, activity, weekly, monthly, cursor, rows>>
    BY <1>2 DEF DetailDate, reportVars
  <2>2. ReportTyped /\ ReportTyped'
    BY <2>1 DEF CountersInv, ReportTyped, First
  <2>3. Counts(weekly, Window(cursor, WeekDays))' /\ Counts(monthly, Window(cursor, MonthDays))'
    BY <2>1 DEF CountersInv, Counts, SeenOn, DaysOf, Window, First
  <2>4. \A d \in DOMAIN rows : RowOK(d, rows[d])'
    <3>1. \A d, days : UsersOf(d, days)' = UsersOf(d, days)
      BY <2>1 DEF UsersOf
    <3> QED  BY <2>1, <3>1 DEF CountersInv, RowOK
  <2> QED  BY <2>1, <2>2, <2>3, <2>4 DEF CountersInv
<1> QED  BY <1>1, <1>2 DEF ReportStep

\* The counters that slide over the dates give, for every date of the range, the
\* distinct devices of its week and month, so that no ratio exceeds one.
THEOREM UsersAreCountedOnce == ReportSpec => []RowsCountDistinctUsers
<1>1. CountersInv => RowsCountDistinctUsers
  <2> SUFFICES ASSUME CountersInv, NEW date \in DOMAIN rows
               PROVE  /\ RowOK(date, rows[date])
                      /\ rows[date].dau <= rows[date].wau /\ rows[date].wau <= rows[date].mau
    BY DEF RowsCountDistinctUsers, RowOK
  <2>1. RowOK(date, rows[date])
    BY DEF CountersInv
  <2>2. date \in Int /\ date \in range.start..(cursor - 1) /\ ReportTyped
    BY DEF CountersInv, ReportTyped
  <2>3. /\ activity[date] \subseteq UsersOf(date, WeekDays)
        /\ UsersOf(date, WeekDays) \subseteq UsersOf(date, MonthDays)
    <3>1. /\ date \in (date - WeekDays + 1)..date
          /\ (date - WeekDays + 1)..date \subseteq (date - MonthDays + 1)..date
      BY <2>2, WindowNumbers
    <3> QED  BY <3>1 DEF UsersOf
  <2>4. UsersOf(date, MonthDays) \subseteq Member
    <3>1. (date - MonthDays + 1)..date \subseteq Recorded
      <4>1. (date - MonthDays + 1)..date \subseteq First..range.end
        BY <2>2, WindowNumbers DEF ReportTyped, First, Preload
      <4> QED  BY <2>2, <4>1 DEF ReportTyped
    <3> QED  BY <2>2, <3>1 DEF ReportTyped, UsersOf
  <2>5. IsFiniteSet(UsersOf(date, MonthDays)) /\ IsFiniteSet(UsersOf(date, WeekDays))
    BY <2>3, <2>4, MemberAssumption, FS_Subset
  <2> QED  BY <2>1, <2>3, <2>5, FS_Subset DEF RowOK
<1> QED  BY <1>1, InitCounters, StepCounters, PTL DEF ReportSpec

(***************************************************************************)
(* The detail of a cohort, before a date, holds what the dates before it   *)
(* say of each member.                                                     *)
(***************************************************************************)
Present(m, first, last) == {d \in first..last : m \in members \cap activity[d]}

DetailOf(detl) ==
    /\ \A m \in members :
        CountOf(detl.days, m) = Cardinality(Present(m, detl.installed, detl.date - 1))
    /\ DOMAIN detl.last = {m \in members : Present(m, detl.installed, detl.date - 1) # {}}
    /\ \A m \in DOMAIN detl.last :
        /\ detl.last[m] \in Present(m, detl.installed, detl.date - 1)
        /\ \A d \in Present(m, detl.installed, detl.date - 1) : d <= detl.last[m]

DetailTyped ==
    /\ range.start \in Int /\ range.end \in Int
    /\ \A d \in range.start..range.end : ActiveOn(d) = activity[d]
    /\ detail = [installed |-> detail.installed, date |-> detail.date,
                 days |-> detail.days, last |-> detail.last]
    /\ detail.installed \in range.start..range.end
    /\ detail.date \in detail.installed..(range.end + 1)

DetailInv == DetailTyped /\ DetailOf(detail)

\* A device present on one date more.
LEMMA PresentMore ==
    ASSUME NEW f \in Int, NEW d \in Int, f <= d, NEW m
    PROVE  /\ Present(m, f, d) = IF m \in members \cap activity[d]
                                 THEN Present(m, f, d - 1) \cup {d} ELSE Present(m, f, d - 1)
           /\ Cardinality(Present(m, f, d - 1)) \in Nat
           /\ Cardinality(Present(m, f, d)) = Cardinality(Present(m, f, d - 1))
                                + (IF m \in members \cap activity[d] THEN 1 ELSE 0)
<1>1. f..d = (f..(d - 1)) \cup {d} /\ d \notin f..(d - 1)
  OBVIOUS
<1>2. Present(m, f, d) = IF m \in members \cap activity[d]
                         THEN Present(m, f, d - 1) \cup {d} ELSE Present(m, f, d - 1)
  BY <1>1 DEF Present
<1>3. IsFiniteSet(f..(d - 1))
  BY FS_Interval
<1>4. IsFiniteSet(Present(m, f, d - 1)) /\ d \notin Present(m, f, d - 1)
  BY <1>1, <1>3, FS_Subset DEF Present
<1>5. Cardinality(Present(m, f, d - 1)) \in Nat
  BY <1>4, FS_CardinalityType
<1>6. Cardinality(Present(m, f, d - 1) \cup {d}) = Cardinality(Present(m, f, d - 1)) + 1
  BY <1>4, FS_AddElement
<1> QED  BY <1>2, <1>5, <1>6

\* A turn of the loop.
LEMMA DetailTurns ==
    ASSUME NEW a \in Int, NEW d \in Int, a <= d, NEW days, NEW last,
           DetailOf([installed |-> a, date |-> d, days |-> days, last |-> last])
    PROVE  LET present == members \cap activity[d]
           IN  DetailOf([installed |-> a, date |-> d + 1, days |-> Counted(days, present),
                         last |-> [m \in DOMAIN last \cup present |->
                                      IF m \in present THEN d ELSE last[m]]])
<1> DEFINE P == members \cap activity[d]
           more == Counted(days, P)
           later == [m \in DOMAIN last \cup P |-> IF m \in P THEN d ELSE last[m]]
           Was(m) == Present(m, a, d - 1)
           Is(m) == Present(m, a, d)
<1>1. /\ \A m \in members : CountOf(days, m) = Cardinality(Was(m))
      /\ DOMAIN last = {m \in members : Was(m) # {}}
      /\ \A m \in DOMAIN last : last[m] \in Was(m) /\ \A x \in Was(m) : x <= last[m]
  BY DEF DetailOf
<1>2. \A m : /\ Is(m) = IF m \in P THEN Was(m) \cup {d} ELSE Was(m)
             /\ Cardinality(Is(m)) = Cardinality(Was(m)) + (IF m \in P THEN 1 ELSE 0)
             /\ Cardinality(Was(m)) \in Nat
  BY PresentMore
<1>3. \A m : \A x \in Was(m) : x \in Int /\ x < d
  BY DEF Present
<1> HIDE DEF Was, Is
<1>4. ASSUME NEW m \in members
      PROVE  CountOf(more, m) = Cardinality(Is(m))
  <2>1. CountOf(more, m) = CountOf(days, m) + (IF m \in P THEN 1 ELSE 0)
    <3>1. DOMAIN more = DOMAIN days \cup P
      BY DEF Counted, SetToBag, (+)
    <3>2. m \in DOMAIN more => more[m] = (IF m \in DOMAIN days THEN days[m] ELSE 0)
                                       + (IF m \in P THEN 1 ELSE 0)
      BY DEF Counted, SetToBag, (+)
    <3>3. CountOf(more, m) = IF m \in DOMAIN more THEN more[m] ELSE 0
      BY DEF CountOf, BagIn, BagToSet
    <3>4. CountOf(days, m) = IF m \in DOMAIN days THEN days[m] ELSE 0
      BY DEF CountOf, BagIn, BagToSet
    <3>5. CountOf(days, m) \in Nat
      BY <1>1, <1>2
    <3> HIDE DEF more
    <3> QED  BY <3>1, <3>2, <3>3, <3>4, <3>5
  <2> QED  BY <1>1, <1>2, <2>1
<1>5. DOMAIN later = {m \in members : Is(m) # {}}
  <2>1. DOMAIN later = DOMAIN last \cup P /\ P \subseteq members
    OBVIOUS
  <2> HIDE DEF P, later
  <2> QED  BY <1>1, <1>2, <2>1
<1>6. ASSUME NEW m \in DOMAIN later
      PROVE  later[m] \in Is(m) /\ \A x \in Is(m) : x <= later[m]
  <2>1. CASE m \in P
    <3>1. later[m] = d /\ Is(m) = Was(m) \cup {d}
      BY <1>2, <2>1
    <3> QED  BY <1>3, <3>1
  <2>2. CASE m \notin P
    <3>1. m \in DOMAIN last /\ later[m] = last[m] /\ Is(m) = Was(m)
      BY <1>2, <2>2
    <3> QED  BY <1>1, <3>1
  <2> QED  BY <2>1, <2>2
<1> HIDE DEF more, later
<1>7. d + 1 - 1 = d
  OBVIOUS
<1>8. DetailOf([installed |-> a, date |-> d + 1, days |-> more, last |-> later])
  BY <1>4, <1>5, <1>6, <1>7 DEF DetailOf, Is
<1> QED  BY <1>8 DEF more, later

LEMMA InitDetail == ReportInit => DetailInv
<1> SUFFICES ASSUME ReportInit PROVE DetailInv
  OBVIOUS
<1>1. ReportTyped
  BY InitCounters DEF CountersInv
<1>2. PICK i \in range.start..range.end : detail = NoDetail(i)
  BY DEF ReportInit
<1>3. DetailTyped
  <2>1. \A d \in range.start..range.end : ActiveOn(d) = activity[d]
    BY <1>1, WindowNumbers DEF ReportTyped, ActiveOn, Preload
  <2> QED  BY <1>1, <1>2, <2>1 DEF ReportTyped, DetailTyped, NoDetail
<1>4. DetailOf(detail)
  <2>1. detail.installed = i /\ detail.date = i /\ detail.days = EmptyBag /\ DOMAIN detail.last = {}
    BY <1>2 DEF NoDetail
  <2>2. \A m : Present(m, i, i - 1) = {}
    BY <1>1 DEF Present, ReportTyped
  <2>3. \A m : CountOf(EmptyBag, m) = 0
    BY DEF CountOf, BagIn, BagToSet, EmptyBag, SetToBag
  <2> QED  BY <2>1, <2>2, <2>3, FS_EmptySet DEF DetailOf
<1> QED  BY <1>3, <1>4 DEF DetailInv

LEMMA StepDetail == DetailInv /\ [ReportStep]_reportVars => DetailInv'
<1> SUFFICES ASSUME DetailInv, [ReportStep]_reportVars PROVE DetailInv'
  OBVIOUS
<1>1. UNCHANGED <<range, activity, members>>
  BY DEF ReportStep, CountDate, DetailDate, reportVars
<1>2. CASE DetailDate
  <2> DEFINE a == detail.installed  d == detail.date  present == members \cap activity[d]
             new == [installed |-> a, date |-> d + 1, days |-> Counted(detail.days, present),
                     last |-> [m \in DOMAIN detail.last \cup present |->
                                  IF m \in present THEN d ELSE detail.last[m]]]
  <2>1. /\ a \in Int /\ d \in Int /\ a <= d /\ d <= range.end /\ d \in range.start..range.end
        /\ ActiveOn(d) = activity[d]
        /\ detail = [installed |-> a, date |-> d, days |-> detail.days, last |-> detail.last]
    BY <1>2 DEF DetailInv, DetailTyped, DetailDate
  <2>2. detail' = new
    BY <1>2, <2>1 DEF DetailDate
  <2>3. DetailOf(new)
    BY <2>1, DetailTurns DEF DetailInv
  <2> HIDE DEF new
  <2>4. DetailOf(detail)'
    BY <1>1, <2>2, <2>3 DEF DetailOf, Present
  <2>5. DetailTyped'
    BY <1>1, <2>1, <2>2 DEF DetailInv, DetailTyped, ActiveOn, Preload, new
  <2> QED  BY <2>4, <2>5 DEF DetailInv
<1>3. CASE UNCHANGED detail
  BY <1>1, <1>3 DEF DetailInv, DetailTyped, DetailOf, Present, ActiveOn, Preload
<1> QED  BY <1>2, <1>3 DEF ReportStep, CountDate, reportVars

\* The detail of a cohort agrees with the columns that count its devices.
THEOREM DetailAlwaysAgrees == ReportSpec => []DetailAgreesWithColumns
<1>1. DetailInv => DetailAgreesWithColumns
  <2> SUFFICES ASSUME DetailInv, detail.date = range.end + 1 PROVE DetailAgreesWithColumns
    BY DEF DetailAgreesWithColumns
  <2>1. detail.date - 1 = range.end
    BY DEF DetailInv, DetailTyped
  <2> QED  BY <2>1 DEF DetailInv, DetailOf, Present, DetailAgreesWithColumns
<1> QED  BY <1>1, InitDetail, StepDetail, PTL DEF ReportSpec
===============================================================================
