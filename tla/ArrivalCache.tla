----------------------------- MODULE ArrivalCache -----------------------------
(***************************************************************************)
(* Arrival times of one station: the read-through cache of ArrivalService, *)
(* the last good payload it falls back to, and the attempts of LTAClient.  *)
(* Stations have keys of their own, so one stands for all.                 *)
(*                                                                         *)
(* A payload is the number of ticks since LTA made it, up to Old.  Time    *)
(* passes only while requests wait for LTA or between two attempts; a      *)
(* statement or a Redis command takes none.  A deadline, a time to live    *)
(* and what is left of one are numbers of ticks.                           *)
(***************************************************************************)
EXTENDS Integers

CONSTANTS
    Req,            \* requests in flight at once
    Attempts,       \* stop_after_attempt(3)
    Timeout,        \* the longest an attempt lasts: lta_timeout_seconds per phase
    Pause,          \* wait_fixed(0.5)
    Ttl,            \* default_arrival_cache_ttl_seconds
    LastGoodTtl,    \* default_last_good_cache_ttl_seconds
    CacheFaults,    \* TRUE: a Redis command may fail, which CacheService swallows
    DbFaults,       \* TRUE: reading the database may raise
    NoEntry         \* no live key in Redis

ASSUME AttemptsAssumption == Attempts \in Nat \ {0}
ASSUME TimesAssumption ==
    /\ {Timeout, Pause, Ttl} \subseteq Nat \ {0}
    /\ LastGoodTtl \in Nat /\ LastGoodTtl > Ttl
ASSUME NoEntryAssumption == NoEntry \notin [age : Nat, left : Nat]
ASSUME FaultsAssumption == {CacheFaults, DbFaults} \subseteq BOOLEAN

\* Payloads are told apart up to this age.
Old == Ttl + Timeout + 1

\* How long after an unmarked answer the last good payload must still be there.
Bridge == LastGoodTtl - Ttl

VARIABLES
    cache,          \* arrival:<stop>, with what is left of its time to live
    lastGood,       \* arrival:last_good:<stop>, likewise
    req,            \* req[r]: where a request is
    bridged,        \* history: ticks of Bridge left since an unmarked answer
    lost            \* history: a last good payload could not be written

vars == <<cache, lastGood, req, bridged, lost>>

Idle == [at |-> "idle", tried |-> 0, left |-> 0, age |-> 0, made |-> FALSE,
         path |-> "none", stale |-> FALSE]

At(r, label) == req[r].at = label
Goto(r, label) == req' = [req EXCEPT ![r].at = label]
Stay == UNCHANGED <<cache, lastGood, bridged, lost>>

\* States in which a request only waits for time or for LTA.
Resting == {"idle", "answered", "no_data", "error", "asked", "pause"}

-----------------------------------------------------------------------------
(* Time. *)

Older(age) == IF age = Old THEN Old ELSE age + 1
Expire(entry) ==
    IF entry = NoEntry \/ entry.left = 1 THEN NoEntry
    ELSE [age |-> Older(entry.age), left |-> entry.left - 1]

Tick ==
    /\ \A r \in Req : /\ req[r].at \in Resting
                      /\ req[r].at \in {"asked", "pause"} => req[r].left > 0
    /\ cache' = Expire(cache)
    /\ lastGood' = Expire(lastGood)
    /\ req' = [r \in Req |->
                [req[r] EXCEPT !.age = IF req[r].made THEN Older(@) ELSE @,
                               !.left = IF @ = 0 THEN 0 ELSE @ - 1]]
    /\ bridged' = IF bridged = 0 THEN 0 ELSE bridged - 1
    /\ UNCHANGED lost

-----------------------------------------------------------------------------
(* get_arrivals. *)

Begin(r) ==
    /\ req[r].at \in {"idle", "answered", "no_data", "error"}
    /\ req' = [req EXCEPT ![r] = [Idle EXCEPT !.at = "get_cache"]]
    /\ Stay

GetCache(r) ==
    /\ At(r, "get_cache")
    /\ \/ /\ cache # NoEntry
          /\ req' = [req EXCEPT ![r].at = "hydrate", ![r].path = "cached",
                                ![r].age = cache.age, ![r].made = TRUE]
       \/ /\ cache = NoEntry \/ CacheFaults
          /\ Goto(r, "ask")
    /\ Stay

\* An attempt begins; it is given up after Timeout.
Ask(r) ==
    /\ At(r, "ask")
    /\ req' = [req EXCEPT ![r].at = "asked", ![r].tried = @ + 1, ![r].left = Timeout]
    /\ Stay

\* LTA makes the payload; it is some time on its way.
Make(r) ==
    /\ At(r, "asked")
    /\ ~req[r].made
    /\ req' = [req EXCEPT ![r].made = TRUE]
    /\ Stay

Receive(r) ==
    /\ At(r, "asked")
    /\ req[r].made
    /\ req' = [req EXCEPT ![r].at = "set_cache", ![r].path = "fetched", ![r].left = 0]
    /\ Stay

\* Mutant: the attempts are not counted.
RetryForEver(r) ==
    /\ At(r, "asked")
    /\ req' = [req EXCEPT ![r].made = FALSE, ![r].age = 0, ![r].tried = 0,
                          ![r].at = "pause", ![r].left = Pause]
    /\ Stay

\* A timeout or a transport error is tried again; the last one is raised.
AttemptFails(r) ==
    /\ At(r, "asked")
    /\ req' = [req EXCEPT ![r].made = FALSE, ![r].age = 0,
                          ![r].at = IF req[r].tried < Attempts THEN "pause" ELSE "fallback",
                          ![r].left = IF req[r].tried < Attempts THEN Pause ELSE 0]
    /\ Stay

Resume(r) ==
    /\ At(r, "pause")
    /\ req[r].left = 0
    /\ Goto(r, "ask")
    /\ Stay

\* An HTTP error status or a body that is not JSON is not tried again, nor is a
\* payload that cannot be normalised.
Refuse(r) ==
    /\ At(r, "asked")
    /\ req' = [req EXCEPT ![r].made = FALSE, ![r].age = 0,
                          ![r].at = "fallback", ![r].left = 0]
    /\ Stay

Entry(r, ttl) == [age |-> req[r].age, left |-> ttl]

\* Mutant: the two times to live are mixed up.
SetCacheForLong(r) ==
    /\ At(r, "set_cache")
    /\ cache' = Entry(r, LastGoodTtl)
    /\ Goto(r, "set_last_good")
    /\ UNCHANGED <<lastGood, bridged, lost>>

SetCache(r) ==
    /\ At(r, "set_cache")
    /\ \/ cache' = Entry(r, Ttl)
       \/ CacheFaults /\ cache' = cache
    /\ Goto(r, "set_last_good")
    /\ UNCHANGED <<lastGood, bridged, lost>>

\* Mutant: the last good payload is only written when there is none.
SetFirstGood(r) ==
    /\ At(r, "set_last_good")
    /\ lastGood' = IF lastGood = NoEntry THEN Entry(r, LastGoodTtl) ELSE lastGood
    /\ Goto(r, "hydrate")
    /\ UNCHANGED <<cache, bridged, lost>>

SetLastGood(r) ==
    /\ At(r, "set_last_good")
    /\ \/ lastGood' = Entry(r, LastGoodTtl) /\ lost' = lost
       \/ CacheFaults /\ lastGood' = lastGood /\ lost' = TRUE
    /\ Goto(r, "hydrate")
    /\ UNCHANGED <<cache, bridged>>

\* The user's names and favourites are added, and the answer is sent.
Answer(r) ==
    /\ At(r, "hydrate")
    /\ Goto(r, "answered")
    /\ bridged' = IF req[r].stale THEN bridged ELSE Bridge + 1
    /\ UNCHANGED <<cache, lastGood, lost>>

\* Within the `try` an exception leads to the fallback, whatever raised it;
\* outside of it, to an error.
HydrateFails(r) ==
    /\ At(r, "hydrate")
    /\ DbFaults
    /\ req' = [req EXCEPT ![r].at = IF req[r].path = "fetched" THEN "fallback" ELSE "error",
                          ![r].made = FALSE, ![r].age = 0]
    /\ Stay

\* The fallback: the last good payload, marked as stale, or an error.
Fallback(r) ==
    /\ At(r, "fallback")
    /\ \/ /\ lastGood # NoEntry
          /\ req' = [req EXCEPT ![r].at = "hydrate", ![r].path = "fallback",
                                ![r].stale = TRUE,
                                ![r].age = lastGood.age, ![r].made = TRUE]
       \/ /\ lastGood = NoEntry \/ CacheFaults
          /\ Goto(r, "no_data")
    /\ Stay

-----------------------------------------------------------------------------
Init ==
    /\ cache = NoEntry
    /\ lastGood = NoEntry
    /\ req = [r \in Req |-> Idle]
    /\ bridged = 0
    /\ lost = FALSE

\* What the server does of itself once a request has begun.
Step(r) ==
    \/ GetCache(r) \/ Ask(r) \/ Resume(r) \/ SetCache(r) \/ SetLastGood(r)
    \/ Answer(r) \/ HydrateFails(r) \/ Fallback(r)

\* The end of an attempt, which the timeout brings about at the latest.
EndAttempt(r) == Receive(r) \/ AttemptFails(r) \/ Refuse(r)

Next ==
    \/ Tick
    \/ \E r \in Req : Begin(r) \/ Make(r) \/ Step(r) \/ EndAttempt(r)

\* The event loop runs every coroutine that can go on, attempts end, and time
\* passes although new requests keep coming: strong fairness excludes only
\* endlessly many requests within one tick.
Fairness ==
    /\ SF_vars(Tick)
    /\ \A r \in Req : WF_vars(Step(r)) /\ WF_vars(EndAttempt(r))

Spec == Init /\ [][Next]_vars /\ Fairness

-----------------------------------------------------------------------------
(* Properties. *)

TypeOK ==
    /\ cache = NoEntry \/ (cache.age \in 0..Old /\ cache.left \in 1..Ttl)
    /\ lastGood = NoEntry \/ (lastGood.age \in 0..Old /\ lastGood.left \in 1..LastGoodTtl)
    /\ bridged \in 0..(Bridge + 1)
    /\ \A r \in Req : /\ req[r].tried \in 0..Attempts
                      /\ req[r].age \in 0..Old

\* An answer that is not marked as stale was made by LTA no longer ago than an
\* attempt and a time to live take, also when a slow request overwrites what a
\* faster one cached, and whatever fails.
UnmarkedIsFresh ==
    [][\A r \in Req : At(r, "hydrate") /\ At(r, "answered")' /\ ~req[r].stale
        => req[r].age <= Ttl + Timeout]_vars

\* For LastGoodTtl - Ttl after an unmarked answer, an outage of LTA is bridged,
\* however slow requests interleave their two writes: a request is told that
\* there is no data only if Redis failed to store the last good payload, or
\* fails to return the one that is there.
OutageIsBridged ==
    [][\A r \in Req : ~At(r, "no_data") /\ At(r, "no_data")'
        => bridged \notin 1..Bridge \/ lost \/ lastGood # NoEntry]_vars

\* Every request ends, however often LTA, Redis and the database fail.
EveryRequestEnds ==
    \A r \in Req : At(r, "get_cache") ~> req[r].at \in {"answered", "no_data", "error"}
=============================================================================
