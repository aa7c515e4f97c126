----------------------------- MODULE BatchArrivals -----------------------------
(***************************************************************************)
(* What an answer of the arrivals API says: a batch of (stop, service)     *)
(* pairs is answered stop by stop from the cache, from LTA or from the     *)
(* last good payload, while time passes; a payload holds the minutes to    *)
(* each bus as of the moment it was normalised and, for a service without  *)
(* a bus, whether bus_routes has it running at that moment.                *)
(*                                                                         *)
(* The steps of one read of a stop, with the attempts and the failures of  *)
(* Redis, are in ArrivalCache; here a read is one step, or two if LTA is   *)
(* asked.  Instants are ticks since the midnight a Monday begins with.     *)
(***************************************************************************)
EXTENDS Integers, FiniteSets, Sequences

CONSTANTS
    Stop, BadStop,          \* stop codes, and those that are not five digits
    Service,                \* service numbers
    DayHours, HourMinutes,  \* 24 and 60
    MinuteTicks,            \* 60 seconds
    Ttl, LastGoodTtl,       \* times to live of a payload in the cache
    Timeout,                \* the longest a request to LTA takes, retries included
    NoTime,                 \* a first or last bus that LTA leaves out
    NoBus,                  \* an empty NextBus
    NoPayload,              \* no live key in Redis
    Batches,                \* the batches clients post: sequences of items
    Boards,                 \* what LTA answers: for each service it lists, the
                            \* ticks to its next buses
    Tables,                 \* contents of bus_routes: the rows of a service at a stop
    Starts, Duration,       \* bound: the model runs for Duration from a start
    MaxBatches              \* bound

ASSUME ClockAssumption == {DayHours, HourMinutes, MinuteTicks} \subseteq Nat \ {0}
ASSUME TimesAssumption == {Ttl, LastGoodTtl, Timeout} \subseteq Nat \ {0} /\ Ttl < LastGoodTtl
ASSUME StopAssumption == BadStop \subseteq Stop
ASSUME BatchAssumption == Batches \subseteq Seq(Stop \X Service) \ {<<>>}
ASSUME BoardAssumption ==
    \A board \in Boards : \A s \in DOMAIN board : board[s] \in Seq(Int \cup {NoBus})
ASSUME NoTimeAssumption == NoTime \notin Seq(Nat)
ASSUME TableAssumption ==
    LET time == (Nat \X Nat) \cup {NoTime}
        row == [wd : time \X time, sat : time \X time, sun : time \X time]
    IN  Tables \subseteq [Stop \X Service -> SUBSET row]
ASSUME StartAssumption == Starts \subseteq Nat /\ MaxBatches \in Nat

VARIABLES
    start,      \* the instant the model begins at
    now,
    routes,     \* bus_routes
    cache,      \* arrival:<stop>
    lastGood,   \* arrival:last_good:<stop>
    batch,      \* the batch being answered
    posted      \* batches so far

vars == <<start, now, routes, cache, lastGood, batch, posted>>

\* The elements of a sequence at some of its positions, in their order.
Picked(seq, positions) ==
    LET place(i) == Cardinality({j \in positions : j <= i})
    IN  [k \in 1..Cardinality(positions) |-> seq[CHOOSE i \in positions : place(i) = k]]

-----------------------------------------------------------------------------
(* OperatingService. *)

HourTicks == HourMinutes * MinuteTicks
DayTicks == DayHours * HourTicks

TimeOf(t) == t % DayTicks
WeekdayOf(t) == (t \div DayTicks) % 7

Window(row, weekday) ==
    CASE weekday = 5 -> row.sat
      [] weekday = 6 -> row.sun
      [] OTHER       -> row.wd

\* Mutant: hours past midnight are not times.
ParseStrict(raw) ==
    IF raw = NoTime \/ raw[1] >= DayHours \/ raw[2] >= HourMinutes THEN NoTime
    ELSE <<raw[1] * HourTicks + raw[2] * MinuteTicks>>

\* _parse_hhmm: hours from 24 on are wrapped, more than 59 minutes refused.
Parse(raw) ==
    IF raw = NoTime \/ raw[2] >= HourMinutes THEN NoTime
    ELSE <<(raw[1] % DayHours) * HourTicks + raw[2] * MinuteTicks>>

InRange(t, first, last) ==
    IF first <= last THEN first <= t /\ t <= last ELSE first <= t \/ t <= last

\* Nothing known of the service, or of one of its rows, counts as running.
Operating(rows, t) ==
    \/ rows = {}
    \/ \E row \in rows :
        LET window == Window(row, WeekdayOf(t))
            first == Parse(window[1])
            last == Parse(window[2])
        IN  \/ NoTime \in {first, last}
            \/ InRange(TimeOf(t), first[1], last[1])

-----------------------------------------------------------------------------
(* normalize_arrival_time and _normalize_payload. *)

\* Mutant: minutes are rounded up.
MinutesUp(eta, t) == IF eta <= t THEN 0 ELSE (eta - t + MinuteTicks - 1) \div MinuteTicks

\* Whole minutes, and none for a bus that is due already.
Minutes(eta, t) == IF eta <= t THEN 0 ELSE (eta - t) \div MinuteTicks

Estimate(eta, t) ==
    [status |-> IF Minutes(eta, t) < 1 THEN "ARRIVING" ELSE "ESTIMATED",
     minutes |-> Minutes(eta, t), eta |-> eta]

\* No bus: one entry in place of the arrivals, without minutes.
NoEstimate(rows, t) ==
    [status |-> IF Operating(rows, t) THEN "NO_ESTIMATE" ELSE "NOT_IN_OPERATION",
     minutes |-> 0, eta |-> t]

\* Next buses that LTA leaves empty are skipped.
Arrivals(buses, rows, t) ==
    LET coming == Picked(buses, {i \in DOMAIN buses : buses[i] # NoBus})
    IN  IF coming = <<>> THEN <<NoEstimate(rows, t)>>
        ELSE [i \in DOMAIN coming |-> Estimate(t + coming[i], t)]

Payload(stop, board, t) ==
    [made |-> t,
     services |-> [s \in DOMAIN board |-> Arrivals(board[s], routes[<<stop, s>>], t)]]

-----------------------------------------------------------------------------
(* get_arrivals of one stop. *)

Live(entry, ttl) == entry # NoPayload /\ now < entry.made + ttl

Pruned(entries, t, ttl) ==
    [c \in Stop |-> IF entries[c] # NoPayload /\ t < entries[c].made + ttl
                    THEN entries[c] ELSE NoPayload]

NoBatch == [at |-> "idle", items |-> <<>>, stops |-> <<>>, results |-> <<>>,
            stale |-> FALSE, begun |-> 0, asked |-> 0]

At(label) == batch.at = label
Current == Head(batch.stops)

\* The items of the current stop are answered, and the batch goes on.
Answered(results, stale) ==
    batch' = [batch EXCEPT !.at = IF Len(batch.stops) = 1 THEN "done" ELSE "next",
                           !.stops = Tail(@), !.results = @ \o results, !.stale = stale]

\* Mutant: an item that was asked for twice is answered once.
ItemsOnce(stop) ==
    LET items == batch.items
    IN  Picked(items, {i \in DOMAIN items :
                          items[i][1] = stop /\ \A j \in 1..(i - 1) : items[j] # items[i]})
ItemsAt(stop) == Picked(batch.items, {i \in DOMAIN batch.items : batch.items[i][1] = stop})

Result(item, status, arrivals) ==
    [stop |-> item[1], service |-> item[2], status |-> status, arrivals |-> arrivals]

ErrorItems(stop) ==
    LET items == ItemsAt(stop)
    IN  [i \in DOMAIN items |-> Result(items[i], "ERROR", <<>>)]

FoundItems(stop, payload) ==
    LET items == ItemsAt(stop)
    IN  [i \in DOMAIN items |->
            IF items[i][2] \in DOMAIN payload.services
            THEN Result(items[i], "OK", payload.services[items[i][2]])
            ELSE Result(items[i], "NOT_FOUND", <<>>)]

EverStale(stale) == batch.stale \/ stale

\* A code that is not five digits is refused before anything is read.
RefuseCode ==
    /\ At("next")
    /\ Current \in BadStop
    /\ Answered(ErrorItems(Current), batch.stale)
    /\ UNCHANGED <<start, now, routes, cache, lastGood, posted>>

ReadCache ==
    /\ At("next")
    /\ Current \notin BadStop
    /\ IF Live(cache[Current], Ttl)
       THEN Answered(FoundItems(Current, cache[Current]), EverStale(FALSE))
       ELSE batch' = [batch EXCEPT !.at = "asked", !.asked = now]
    /\ UNCHANGED <<start, now, routes, cache, lastGood, posted>>

Store(stop, payload) ==
    /\ cache' = [cache EXCEPT ![stop] = payload]
    /\ lastGood' = [lastGood EXCEPT ![stop] = payload]

Fetch(board) ==
    LET payload == Payload(Current, board, now)
    IN  /\ At("asked")
        /\ Store(Current, payload)
        /\ Answered(FoundItems(Current, payload), EverStale(FALSE))
        /\ UNCHANGED <<start, now, routes, posted>>

\* LTA fails: the last good payload, marked as stale, or an error for the
\* items of this stop only.
FallBack ==
    /\ At("asked")
    /\ IF Live(lastGood[Current], LastGoodTtl)
       THEN Answered(FoundItems(Current, lastGood[Current]), EverStale(TRUE))
       ELSE Answered(ErrorItems(Current), batch.stale)
    /\ UNCHANGED <<start, now, routes, cache, lastGood, posted>>

\* The database fails while names and favourites are added to a payload: the
\* error is no AppError, so the batch as a whole fails.
Abort ==
    /\ At("next") \/ At("asked")
    /\ batch' = NoBatch
    /\ UNCHANGED <<start, now, routes, cache, lastGood, posted>>

\* A request of another client fetches a stop at any moment: it may have read the
\* cache before somebody stored what is now there.
FetchElsewhere(stop, board) ==
    /\ stop \notin BadStop
    /\ Store(stop, Payload(stop, board, now))
    /\ UNCHANGED <<start, now, routes, batch, posted>>

-----------------------------------------------------------------------------
(* get_batch_arrivals. *)

\* The stops in the order they first occur in.
Grouped(items) ==
    LET firsts == {i \in DOMAIN items : \A j \in 1..(i - 1) : items[j][1] # items[i][1]}
    IN  [k \in 1..Cardinality(firsts) |-> Picked(items, firsts)[k][1]]

Post(items) ==
    /\ At("idle") \/ At("done")
    /\ posted < MaxBatches
    /\ posted' = posted + 1
    /\ batch' = [NoBatch EXCEPT !.at = "next", !.items = items, !.stops = Grouped(items),
                                !.begun = now]
    /\ UNCHANGED <<start, now, routes, cache, lastGood>>

\* Time passes between batches and while LTA is asked.
Tick ==
    /\ now < start + Duration
    /\ \/ At("idle") \/ At("done")
       \/ At("asked") /\ now < batch.asked + Timeout
    /\ now' = now + 1
    /\ cache' = Pruned(cache, now + 1, Ttl)
    /\ lastGood' = Pruned(lastGood, now + 1, LastGoodTtl)
    /\ batch' = IF At("done") THEN NoBatch ELSE batch
    /\ UNCHANGED <<start, routes, posted>>

Init ==
    /\ start \in Starts
    /\ now = start
    /\ routes \in Tables
    /\ cache = [c \in Stop |-> NoPayload]
    /\ lastGood = cache
    /\ batch = NoBatch
    /\ posted = 0

Next ==
    \/ \E items \in Batches : Post(items)
    \/ RefuseCode \/ ReadCache \/ FallBack \/ Abort
    \/ \E board \in Boards :
        Fetch(board) \/ \E stop \in Stop : FetchElsewhere(stop, board)
    \/ Tick

Spec == Init /\ [][Next]_vars

-----------------------------------------------------------------------------
(* Properties. *)

Statuses == {"ARRIVING", "ESTIMATED", "NO_ESTIMATE", "NOT_IN_OPERATION"}

\* Redis holds no payload from the future or past its time to live, the cache
\* none that the last good payload is older than, and an item is answered with
\* arrivals exactly if it is OK.
TypeOK ==
    /\ \A c \in Stop :
        /\ cache[c] # NoPayload => cache[c].made \in (now - Ttl + 1)..now
        /\ lastGood[c] # NoPayload => lastGood[c].made \in (now - LastGoodTtl + 1)..now
        /\ cache[c] # NoPayload => lastGood[c] = cache[c]
    /\ batch.at \in {"idle", "next", "asked", "done"}
    /\ (batch.stops = <<>>) <=> batch.at \in {"idle", "done"}
    /\ batch.stops \in Seq(Stop)
    /\ \A i \in DOMAIN batch.results :
        LET result == batch.results[i]
        IN  /\ result.status \in {"OK", "NOT_FOUND", "ERROR"}
            /\ (result.status = "OK") <=> (result.arrivals # <<>>)
            /\ \A j \in DOMAIN result.arrivals : result.arrivals[j].status \in Statuses
    /\ posted \in 0..MaxBatches

\* How often an item was asked for, and answered.
TimesAsked(stop, s) == Cardinality({i \in DOMAIN batch.items : batch.items[i] = <<stop, s>>})
TimesAnswered(stop, s) ==
    Cardinality({i \in DOMAIN batch.results :
                    batch.results[i].stop = stop /\ batch.results[i].service = s})

\* Every item of a batch is answered, as often as it was asked for and no more,
\* whichever of its stops fail (the answers come grouped by stop).
EveryItemAnswered ==
    At("done") =>
        \A stop \in Stop, s \in Service : TimesAnswered(stop, s) = TimesAsked(stop, s)

\* The payloads of an answer that is not marked as stale were made between a
\* time to live before the batch and now.
Since == batch.begun - Ttl
SaidNow == At("done") /\ ~batch.stale

SaidArrivals(test(_, _, _)) ==
    \A i \in DOMAIN batch.results :
        LET result == batch.results[i]
        IN  \A j \in DOMAIN result.arrivals :
                test(result.stop, result.service, result.arrivals[j])

\* The minutes of an answer that is not marked as stale are near what is left:
\* they never promise less than there is, beyond the current minute, and are
\* too many by no more than the time the payload may have been cached and the
\* batch took.  One stop that falls back marks the whole batch.
MinutesAreNear ==
    SaidNow => SaidArrivals(LAMBDA stop, s, a :
        a.status \in {"ARRIVING", "ESTIMATED"} =>
            LET left == IF a.eta <= now THEN 0 ELSE a.eta - now
            IN  /\ left < (a.minutes + 1) * MinuteTicks
                /\ a.minutes * MinuteTicks <= left + (now - Since))

\* A window is not known if one of its times is not; its ticks begin with its day.
Unknowable(window) ==
    NoTime \in {window[1], window[2]}
        \/ HourMinutes <= window[1][2] \/ HourMinutes <= window[2][2]
AsTicks(raw) == raw[1] * HourTicks + raw[2] * MinuteTicks

\* What runs when, with windows laid out on the line of time instead of wrapped
\* into one day: the buses of a day go on past its midnight.
Runs(rows, t) ==
    \/ rows = {}
    \/ \E row \in rows, back \in {0, 1} :
        LET window == Window(row, (WeekdayOf(t) + 7 - back) % 7)
            first == AsTicks(window[1])
            last == AsTicks(window[2])
        IN  \/ Unknowable(window)
            \/ TimeOf(t) + back * DayTicks
                    \in first..(IF last < first THEN last + DayTicks ELSE last)

\* The rows have the same window yesterday and today.
SameWindows(rows, t) ==
    \A row \in rows : Window(row, WeekdayOf(t)) = Window(row, (WeekdayOf(t) + 6) % 7)

\* A window begins on its day and lasts less than one: of 00:00 to 24:00 the
\* code makes the first minute only.
ShortWindow(window) ==
    Unknowable(window) \/ /\ window[1][1] < DayHours
                          /\ AsTicks(window[2]) < AsTicks(window[1]) + DayTicks
ShortWindows(rows) ==
    \A row \in rows : \A window \in {row.wd, row.sat, row.sun} : ShortWindow(window)

OperatingIsTrue(rows, status) ==
    \E t \in Since..now : Runs(rows, t) <=> (status = "NO_ESTIMATE")

\* "No Est. Available" or "Not In Operation" is right at some moment since the
\* payload may have been made, also after midnight, as long as yesterday's
\* windows were today's and are shorter than a day.  (After the midnights of a
\* weekend the code uses the new day's windows for the buses of the day before.)
NightBusesRun ==
    SaidNow => SaidArrivals(LAMBDA stop, s, a :
        LET rows == routes[<<stop, s>>]
        IN  (a.status \in {"NO_ESTIMATE", "NOT_IN_OPERATION"} /\ ShortWindows(rows)
                /\ \A t \in Since..now : SameWindows(rows, t))
            => OperatingIsTrue(rows, a.status))

\* The same on days whose windows are not the day before's, as the design
\* document has it; a weekend's midnights refute it.
OperatingAlwaysTrue ==
    SaidNow => SaidArrivals(LAMBDA stop, s, a :
        LET rows == routes[<<stop, s>>]
        IN  a.status \in {"NO_ESTIMATE", "NOT_IN_OPERATION"} /\ ShortWindows(rows)
                => OperatingIsTrue(rows, a.status))
=============================================================================
