------------------------- MODULE ArrivalCacheProofs -------------------------
(***************************************************************************)
(* Theorems about ArrivalCache: its type correctness, that unmarked        *)
(* answers are fresh, and that an outage of LTA is bridged unless a write  *)
(* to Redis was lost.                                                      *)
(***************************************************************************)
EXTENDS ArrivalCache, TLAPS

\* The shape of what is known of a request.
Request(q) ==
    /\ DOMAIN q = {"at", "tried", "left", "age", "made", "path", "stale"}
    /\ q = [field \in DOMAIN q |-> q[field]]
    /\ q.tried \in 0..Attempts
    /\ q.left \in Nat
    /\ q.age \in 0..Old

\* What a request knows at each await: how many attempts it may still make,
\* and how old the payload it holds can be.  Of a payload on its way, the age
\* and the time left for the attempt add up to a Timeout at most.
RequestOK(q) ==
    /\ q.at = "get_cache" => q.tried = 0
    /\ q.at \in {"ask", "pause"} => q.tried < Attempts
    /\ q.at \in {"get_cache", "ask", "pause", "asked", "set_cache", "set_last_good"} => ~q.stale
    /\ q.at \in {"get_cache", "ask", "pause"} => ~q.made /\ q.age = 0
    /\ q.at = "asked" => /\ q.left <= Timeout
                         /\ IF q.made THEN q.age + q.left <= Timeout ELSE q.age = 0
    /\ q.at \in {"set_cache", "set_last_good"} => q.age <= Timeout
    /\ q.at = "hydrate" /\ ~q.stale => q.age <= Ttl + Timeout

\* A cached payload ages as its time to live goes down.
CacheFresh ==
    cache = NoEntry \/ (/\ cache \in [age : 0..Old, left : 1..Ttl]
                        /\ cache.age + cache.left <= Ttl + Timeout)

FreshInv ==
    /\ DOMAIN req = Req /\ req = [r \in Req |-> req[r]]
    /\ \A r \in Req : Request(req[r]) /\ RequestOK(req[r])
    /\ CacheFresh
    /\ lastGood = NoEntry \/ lastGood \in [age : 0..Old, left : 1..LastGoodTtl]
    /\ bridged \in 0..(Bridge + 1)

\* The last good payload is there for n more ticks, also after the step; or it
\* is about to be written.
Kept(n) == lastGood # NoEntry /\ lastGood.left >= n
KeptNext(n) == lastGood' # NoEntry /\ lastGood'.left >= n
Pending == \E r \in Req : At(r, "set_last_good")

\* The last good payload outlives every cached one by Bridge, but for requests
\* that are between their two writes; those finish before time passes.
BridgeInv ==
    /\ bridged \in 1..Bridge => Kept(bridged)
    /\ bridged = Bridge + 1 => Pending \/ Kept(Bridge + 1)
    /\ cache # NoEntry => Pending \/ Kept(cache.left + Bridge)
    /\ \A r \in Req : At(r, "hydrate") /\ ~req[r].stale => Pending \/ Kept(Bridge + 1)

-----------------------------------------------------------------------------
(* Freshness. *)

LEMMA Times ==
    /\ Old = Ttl + Timeout + 1 /\ Old \in Nat
    /\ Bridge = LastGoodTtl - Ttl /\ Bridge \in Nat \ {0}
    /\ Ttl \in Nat \ {0} /\ Timeout \in Nat \ {0} /\ Pause \in Nat \ {0}
    /\ LastGoodTtl \in Nat /\ Attempts \in Nat \ {0}
BY TimesAssumption, AttemptsAssumption DEF Old, Bridge

\* A step of one request keeps the others as they are.
LEMMA OneRequest ==
    ASSUME FreshInv, NEW r \in Req, NEW q, Request(q), RequestOK(q),
           req' = [req EXCEPT ![r] = q]
    PROVE  /\ DOMAIN req' = Req /\ req' = [p \in Req |-> req'[p]]
           /\ \A p \in Req : Request(req'[p]) /\ RequestOK(req'[p])
BY DEF FreshInv

\* Time: what is on its way or cached gets older, and its time runs out.
LEMMA TickFresh ==
    ASSUME FreshInv, Tick
    PROVE  FreshInv'
<1>1. /\ \A age \in 0..Old : Older(age) \in 0..Old
      /\ \A age \in 0..Old : age < Old => Older(age) = age + 1
  BY Times DEF Older
<1>2. DOMAIN req' = Req /\ req' = [r \in Req |-> req'[r]]
  BY DEF Tick
<1>3. \A r \in Req : Request(req'[r]) /\ RequestOK(req'[r])
  <2> SUFFICES ASSUME NEW r \in Req PROVE Request(req'[r]) /\ RequestOK(req'[r])
    OBVIOUS
  <2>1. Request(req[r]) /\ RequestOK(req[r])
    BY DEF FreshInv
  <2>2. /\ req[r].at \in Resting
        /\ req[r].at = "asked" => req[r].left > 0
    BY DEF Tick
  <2>3. req'[r] = [req[r] EXCEPT !.age = IF req[r].made THEN Older(@) ELSE @,
                                 !.left = IF @ = 0 THEN 0 ELSE @ - 1]
    BY DEF Tick
  <2> DEFINE age == IF req[r].made THEN Older(req[r].age) ELSE req[r].age
             left == IF req[r].left = 0 THEN 0 ELSE req[r].left - 1
  <2>4. /\ req[r].age \in 0..Old /\ req[r].left \in Nat
        /\ age \in 0..Old /\ left \in Nat
    BY <1>1, <2>1 DEF Request
  <2> HIDE DEF age, left
  <2>5. req'[r] = [req[r] EXCEPT !.age = age, !.left = left]
    BY <2>3 DEF age, left
  <2>6. Request(req'[r])
    BY <2>1, <2>4, <2>5 DEF Request
  <2>7. CASE req[r].at = "asked"
    <3>1. /\ req[r].left \in 1..Timeout /\ left = req[r].left - 1
          /\ req[r].made => req[r].age + req[r].left <= Timeout /\ age = req[r].age + 1
          /\ ~req[r].made => age = 0
      BY <1>1, <2>1, <2>2, <2>4, <2>7, Times DEF RequestOK, age, left
    <3> QED BY <2>1, <2>4, <2>5, <2>6, <2>7, <3>1, Times DEF RequestOK, Request
  <2>8. CASE req[r].at = "pause"
    <3>1. age = 0
      BY <2>1, <2>8 DEF RequestOK, age
    <3> QED BY <2>1, <2>5, <2>6, <2>8, <3>1 DEF Request, RequestOK
  <2>9. CASE req[r].at \in {"idle", "answered", "no_data", "error"}
    BY <2>1, <2>5, <2>6, <2>9 DEF Request, RequestOK
  <2> QED BY <2>2, <2>6, <2>7, <2>8, <2>9 DEF Resting
<1>4. CacheFresh'
  <2>1. CASE cache = NoEntry \/ cache.left = 1
    BY <2>1 DEF Tick, Expire, CacheFresh
  <2>2. CASE cache # NoEntry /\ cache.left # 1
    <3>1. /\ cache \in [age : 0..Old, left : 1..Ttl]
          /\ cache.age + cache.left <= Ttl + Timeout
      BY <2>2 DEF FreshInv, CacheFresh
    <3>2. cache' = [age |-> Older(cache.age), left |-> cache.left - 1]
      BY <2>2 DEF Tick, Expire
    <3> QED BY <1>1, <2>2, <3>1, <3>2, Times DEF CacheFresh
  <2> QED BY <2>1, <2>2
<1>5. (lastGood = NoEntry \/ lastGood \in [age : 0..Old, left : 1..LastGoodTtl])'
  <2>1. lastGood = NoEntry \/ lastGood \in [age : 0..Old, left : 1..LastGoodTtl]
    BY DEF FreshInv
  <2>2. CASE lastGood = NoEntry \/ lastGood.left = 1
    BY <2>2 DEF Tick, Expire
  <2>3. CASE lastGood # NoEntry /\ lastGood.left # 1
    <3>1. lastGood' = [age |-> Older(lastGood.age), left |-> lastGood.left - 1]
      BY <2>3 DEF Tick, Expire
    <3> QED BY <1>1, <2>1, <2>3, <3>1, Times
  <2> QED BY <2>2, <2>3
<1>6. bridged' \in 0..(Bridge + 1)
  <2>1. bridged \in 0..(Bridge + 1)
    BY DEF FreshInv
  <2>2. bridged' = IF bridged = 0 THEN 0 ELSE bridged - 1
    BY DEF Tick
  <2> QED BY <2>1, <2>2, Times
<1> QED BY <1>2, <1>3, <1>4, <1>5, <1>6 DEF FreshInv

LEMMA StepFresh ==
    ASSUME FreshInv, NEW r \in Req, Begin(r) \/ Make(r) \/ Step(r) \/ EndAttempt(r)
    PROVE  FreshInv'
<1>0. Request(req[r]) /\ RequestOK(req[r])
  BY DEF FreshInv
<1>01. 0 \in Nat /\ 0 \in 0..Old /\ Pause \in Nat /\ Timeout \in Nat
  BY Times
<1> DEFINE Moved(q) == Request(q) /\ RequestOK(q) /\ req' = [req EXCEPT ![r] = q]
<1>1. ASSUME NEW q, Moved(q), Stay PROVE FreshInv'
  BY <1>1, OneRequest DEF FreshInv, CacheFresh, Stay
<1>2. CASE Begin(r)
  <2> DEFINE q == [Idle EXCEPT !.at = "get_cache"]
  <2>1. Moved(q)
    BY <1>2, Times DEF Begin, Idle, Request, RequestOK
  <2> QED BY <1>1, <1>2, <2>1 DEF Begin
<1>3. CASE GetCache(r)
  <2>1. CASE cache # NoEntry /\ req' = [req EXCEPT ![r].at = "hydrate", ![r].path = "cached",
                                             ![r].age = cache.age, ![r].made = TRUE]
    <3> DEFINE q == [req[r] EXCEPT !.at = "hydrate", !.path = "cached",
                                   !.age = cache.age, !.made = TRUE]
    <3>1. cache.age \in 0..Old /\ cache.age <= Ttl + Timeout
      BY <2>1, Times DEF FreshInv, CacheFresh
    <3>2. Moved(q)
      BY <1>0, <2>1, <3>1 DEF Request, RequestOK
    <3> QED BY <1>1, <1>3, <3>2 DEF GetCache
  <2>2. CASE Goto(r, "ask")
    <3> DEFINE q == [req[r] EXCEPT !.at = "ask"]
    <3>1. Moved(q)
      BY <1>0, <1>3, <2>2, Times DEF GetCache, At, Goto, Request, RequestOK
    <3> QED BY <1>1, <1>3, <3>1 DEF GetCache
  <2> QED BY <1>3, <2>1, <2>2 DEF GetCache
<1>4. CASE Ask(r)
  <2> DEFINE q == [req[r] EXCEPT !.at = "asked", !.tried = @ + 1, !.left = Timeout]
  <2>1. Request(q)
    <3>1. req[r].tried + 1 \in 0..Attempts
      BY <1>0, <1>4, Times DEF Ask, At, Request, RequestOK
    <3> QED BY <1>0, <1>01, <3>1 DEF Request
  <2>2. RequestOK(q)
    BY <1>0, <1>4, Times DEF Ask, At, Request, RequestOK
  <2>3. Moved(q)
    BY <1>4, <2>1, <2>2 DEF Ask
  <2> QED BY <1>1, <1>4, <2>3 DEF Ask
<1>5. CASE Make(r)
  <2> DEFINE q == [req[r] EXCEPT !.made = TRUE]
  <2>1. Request(q)
    BY <1>0, <1>5, Times DEF Make, At, Request, RequestOK
  <2>2. RequestOK(q)
    BY <1>0, <1>5, Times DEF Make, At, Request, RequestOK
  <2>3. Moved(q)
    BY <1>5, <2>1, <2>2 DEF Make
  <2> QED BY <1>1, <1>5, <2>3 DEF Make
<1>6. CASE Receive(r)
  <2> DEFINE q == [req[r] EXCEPT !.at = "set_cache", !.path = "fetched", !.left = 0]
  <2>1. Request(q)
    BY <1>0, <1>6, Times DEF Receive, At, Request, RequestOK
  <2>2. RequestOK(q)
    BY <1>0, <1>6, Times DEF Receive, At, Request, RequestOK
  <2>3. Moved(q)
    BY <1>6, <2>1, <2>2 DEF Receive
  <2> QED BY <1>1, <1>6, <2>3 DEF Receive
<1>7. CASE AttemptFails(r)
  <2> DEFINE again == req[r].tried < Attempts
             q == [req[r] EXCEPT !.made = FALSE, !.age = 0,
                                 !.at = IF again THEN "pause" ELSE "fallback",
                                 !.left = IF again THEN Pause ELSE 0]
  <2>1. ASSUME again PROVE Request(q) /\ RequestOK(q)
    <3>1. q = [req[r] EXCEPT !.made = FALSE, !.age = 0, !.at = "pause", !.left = Pause]
      BY <2>1
    <3> HIDE DEF q
    <3>2. Request(q)
      BY <1>0, <1>01, <3>1 DEF Request
    <3>3. RequestOK(q)
      BY <1>0, <1>7, <2>1, <3>1 DEF AttemptFails, At, Request, RequestOK
    <3> QED BY <3>2, <3>3
  <2>2. ASSUME ~again PROVE Request(q) /\ RequestOK(q)
    <3>1. q = [req[r] EXCEPT !.made = FALSE, !.age = 0, !.at = "fallback", !.left = 0]
      BY <2>2
    <3> HIDE DEF q
    <3>2. Request(q)
      BY <1>0, <1>01, <3>1 DEF Request
    <3>3. RequestOK(q)
      BY <1>0, <3>1 DEF Request, RequestOK
    <3> QED BY <3>2, <3>3
  <2>3. Moved(q)
    BY <1>7, <2>1, <2>2 DEF AttemptFails
  <2> QED BY <1>1, <1>7, <2>3 DEF AttemptFails
<1>8. CASE Refuse(r)
  <2> DEFINE q == [req[r] EXCEPT !.made = FALSE, !.age = 0, !.at = "fallback", !.left = 0]
  <2>1. Request(q)
    BY <1>0, <1>01 DEF Request
  <2>2. RequestOK(q)
    BY <1>0, <1>8, Times DEF Refuse, Request, RequestOK
  <2>3. Moved(q)
    BY <1>8, <2>1, <2>2 DEF Refuse
  <2> QED BY <1>1, <1>8, <2>3 DEF Refuse
<1>9. CASE Resume(r)
  <2> DEFINE q == [req[r] EXCEPT !.at = "ask"]
  <2>1. Moved(q)
    BY <1>0, <1>9 DEF Resume, At, Goto, Request, RequestOK
  <2> QED BY <1>1, <1>9, <2>1 DEF Resume
<1>10. CASE SetCache(r)
  <2> DEFINE q == [req[r] EXCEPT !.at = "set_last_good"]
  <2>1. Moved(q)
    BY <1>0, <1>10 DEF SetCache, At, Goto, Request, RequestOK
  <2>2. CacheFresh'
    <3>1. req[r].age <= Timeout
      BY <1>0, <1>10 DEF SetCache, At, RequestOK
    <3> QED BY <1>0, <1>10, <3>1, Times DEF FreshInv, SetCache, Entry, CacheFresh, Request
  <2> QED BY <1>10, <2>1, <2>2, OneRequest DEF FreshInv, SetCache
<1>11. CASE SetLastGood(r)
  <2> DEFINE q == [req[r] EXCEPT !.at = "hydrate"]
  <2>1. Moved(q)
    BY <1>0, <1>11, Times DEF SetLastGood, At, Goto, Request, RequestOK
  <2>2. (lastGood = NoEntry \/ lastGood \in [age : 0..Old, left : 1..LastGoodTtl])'
    BY <1>0, <1>11, Times, TimesAssumption DEF FreshInv, SetLastGood, Entry, Request
  <2> QED BY <1>11, <2>1, <2>2, OneRequest DEF FreshInv, CacheFresh, SetLastGood
<1>12. CASE Answer(r)
  <2> DEFINE q == [req[r] EXCEPT !.at = "answered"]
  <2>1. Moved(q)
    BY <1>0, <1>12 DEF Answer, Goto, Request, RequestOK
  <2>2. bridged' \in 0..(Bridge + 1)
    BY <1>12, Times DEF FreshInv, Answer
  <2> QED BY <1>12, <2>1, <2>2, OneRequest DEF FreshInv, CacheFresh, Answer
<1>13. CASE HydrateFails(r)
  <2> DEFINE q == [req[r] EXCEPT !.at = IF req[r].path = "fetched" THEN "fallback" ELSE "error",
                                 !.made = FALSE, !.age = 0]
  <2>1. q.at \in {"fallback", "error"} /\ q.age = 0
    BY <1>0 DEF Request
  <2>2. Request(q)
    BY <1>0, <1>01 DEF Request
  <2>3. RequestOK(q)
    BY <2>1 DEF RequestOK
  <2>4. Moved(q)
    BY <1>13, <2>2, <2>3 DEF HydrateFails
  <2> QED BY <1>1, <1>13, <2>4 DEF HydrateFails
<1>14. CASE Fallback(r)
  <2>1. CASE /\ lastGood # NoEntry
             /\ req' = [req EXCEPT ![r].at = "hydrate", ![r].path = "fallback",
                                   ![r].stale = TRUE,
                                   ![r].age = lastGood.age, ![r].made = TRUE]
    <3> DEFINE q == [req[r] EXCEPT !.at = "hydrate", !.path = "fallback", !.stale = TRUE,
                                   !.age = lastGood.age, !.made = TRUE]
    <3>1. lastGood.age \in 0..Old
      BY <2>1 DEF FreshInv
    <3>2. Moved(q)
      BY <1>0, <2>1, <3>1 DEF Request, RequestOK
    <3> QED BY <1>1, <1>14, <3>2 DEF Fallback
  <2>2. CASE Goto(r, "no_data")
    <3> DEFINE q == [req[r] EXCEPT !.at = "no_data"]
    <3>1. Moved(q)
      BY <1>0, <2>2 DEF Goto, Request, RequestOK
    <3> QED BY <1>1, <1>14, <3>1 DEF Fallback
  <2> QED BY <1>14, <2>1, <2>2 DEF Fallback
<1> QED BY <1>2, <1>3, <1>4, <1>5, <1>6, <1>7, <1>8, <1>9, <1>10, <1>11, <1>12, <1>13, <1>14
        DEF Step, EndAttempt

LEMMA AlwaysFresh == Spec => []FreshInv
<1>1. Init => FreshInv
  BY Times DEF Init, FreshInv, CacheFresh, Idle, Request, RequestOK
<1>2. FreshInv /\ [Next]_vars => FreshInv'
  <2> SUFFICES ASSUME FreshInv, [Next]_vars PROVE FreshInv'
    OBVIOUS
  <2>1. CASE UNCHANGED vars
    BY <2>1 DEF vars, FreshInv, CacheFresh
  <2> QED BY <2>1, TickFresh, StepFresh DEF Next
<1> QED BY <1>1, <1>2, PTL DEF Spec

\* Types, among them that no request makes more than Attempts attempts.
THEOREM TypeCorrect == Spec => []TypeOK
<1>1. FreshInv => TypeOK
  BY Times DEF FreshInv, CacheFresh, Request, TypeOK
<1> QED BY <1>1, AlwaysFresh, PTL

\* Whatever fails and whichever request writes the cache last, an unmarked
\* answer is no older than a time to live and an attempt.
THEOREM AnswersAreFresh == Spec => UnmarkedIsFresh
<1> DEFINE Fresh == \A r \in Req : At(r, "hydrate") /\ At(r, "answered")' /\ ~req[r].stale
                                  => req[r].age <= Ttl + Timeout
<1>1. FreshInv => Fresh
  BY DEF FreshInv, RequestOK, At
<1> QED BY <1>1, AlwaysFresh, PTL DEF UnmarkedIsFresh
-----------------------------------------------------------------------------
(* The bridge over an outage. *)

\* A request that is not between its two writes leaves the bridge alone, unless
\* it sets out for an unmarked answer, which takes the whole bridge.
LEMMA KeepsBridge ==
    ASSUME FreshInv, BridgeInv, NEW r \in Req, ~At(r, "set_last_good"),
           NEW q, req' = [req EXCEPT ![r] = q], Stay,
           q.at = "hydrate" /\ ~q.stale => Pending \/ Kept(Bridge + 1)
    PROVE  BridgeInv'
<1>1. /\ req'[r] = q
      /\ \A p \in Req : p # r => req'[p] = req[p]
  BY DEF FreshInv
<1>2. Pending => Pending'
  BY <1>1 DEF Pending, At
<1>3. \A n : KeptNext(n) <=> Kept(n)
  BY DEF Kept, KeptNext, Stay
<1>4. /\ bridged' \in 1..Bridge => KeptNext(bridged')
      /\ bridged' = Bridge + 1 => Pending' \/ KeptNext(Bridge + 1)
      /\ cache' # NoEntry => Pending' \/ KeptNext(cache'.left + Bridge)
  BY <1>2, <1>3 DEF BridgeInv, Stay
<1>5. ASSUME NEW p \in Req, At(p, "hydrate")', ~req'[p].stale
      PROVE  Pending' \/ KeptNext(Bridge + 1)
  <2>1. CASE p = r
    BY <1>1, <1>2, <1>3, <1>5, <2>1 DEF At
  <2>2. CASE p # r
    BY <1>1, <1>2, <1>3, <1>5, <2>2 DEF At, BridgeInv
  <2> QED BY <2>1, <2>2
<1> QED BY <1>4, <1>5 DEF BridgeInv, Kept, KeptNext, Bridge

\* When time passes no request is between its two writes.
LEMMA TickBridge ==
    ASSUME FreshInv, BridgeInv, Tick
    PROVE  BridgeInv'
<1>1. ~Pending /\ \A r \in Req : ~At(r, "hydrate")
  BY DEF Tick, Pending, At, Resting
<1>2. \A r \in Req : ~At(r, "hydrate")'
  <2> SUFFICES ASSUME NEW r \in Req PROVE req'[r].at # "hydrate"
    BY DEF At
  <2>1. Request(req[r]) /\ req[r].at # "hydrate"
    BY <1>1 DEF FreshInv, At
  <2>2. req'[r] = [req[r] EXCEPT !.age = IF req[r].made THEN Older(@) ELSE @,
                                 !.left = IF @ = 0 THEN 0 ELSE @ - 1]
    BY DEF Tick
  <2> QED BY <2>1, <2>2 DEF Request
<1>3. /\ lastGood = NoEntry \/ lastGood \in [age : 0..Old, left : 1..LastGoodTtl]
      /\ cache = NoEntry \/ cache \in [age : 0..Old, left : 1..Ttl]
      /\ bridged \in 0..(Bridge + 1)
  BY DEF FreshInv, CacheFresh
<1>4. ASSUME NEW n \in Nat \ {0}, Kept(n + 1)
      PROVE  KeptNext(n)
  <2>1. lastGood # NoEntry /\ lastGood.left \in 1..LastGoodTtl /\ lastGood.left >= n + 1
    BY <1>3, <1>4 DEF Kept
  <2>2. lastGood.left # 1
    BY <1>4, <2>1, Times
  <2>3. lastGood' = [age |-> Older(lastGood.age), left |-> lastGood.left - 1]
    BY <2>1, <2>2 DEF Tick, Expire
  <2>4. Older(lastGood.age) \in Nat /\ lastGood.left - 1 \in Nat
    BY <1>3, <2>1, Times DEF Older
  <2>5. lastGood' # NoEntry
    BY <2>3, <2>4, NoEntryAssumption
  <2>6. lastGood'.left >= n
    BY <1>4, <2>1, <2>3, Times
  <2> QED BY <2>5, <2>6 DEF KeptNext
<1>5. bridged' \in 0..Bridge /\ (bridged' # 0 => bridged # 0 /\ bridged = bridged' + 1)
  <2>1. bridged' = IF bridged = 0 THEN 0 ELSE bridged - 1
    BY DEF Tick
  <2> QED BY <1>3, <2>1, Times
<1>6. ASSUME bridged' \in 1..Bridge PROVE KeptNext(bridged')
  <2>1. bridged = bridged' + 1 /\ bridged' \in Nat \ {0} /\ bridged \in 1..(Bridge + 1)
    BY <1>5, <1>6, Times
  <2>2. Kept(bridged)
    <3>1. CASE bridged \in 1..Bridge
      BY <3>1 DEF BridgeInv
    <3>2. CASE bridged = Bridge + 1
      BY <1>1, <3>2 DEF BridgeInv
    <3>3. bridged \in 0..(Bridge + 1) /\ bridged # 0 /\ Bridge \in Nat
      <4>1. bridged # 0
        BY <1>5, <1>6, Times
      <4>2. bridged \in 0..(Bridge + 1)
        BY <1>3
      <4>3. Bridge \in Nat
        BY Times
      <4> QED BY <4>1, <4>2, <4>3
    <3>4. bridged \in 1..Bridge \/ bridged = Bridge + 1
      BY <3>3
    <3> QED BY <3>1, <3>2, <3>4
  <2>3. Kept(bridged' + 1)
    BY <2>1, <2>2
  <2>4. \A n \in Nat \ {0} : Kept(n + 1) => KeptNext(n)
    BY <1>4
  <2> QED BY <2>1, <2>3, <2>4
<1>7. ASSUME cache' # NoEntry PROVE KeptNext(cache'.left + Bridge)
  <2>1. /\ cache # NoEntry
        /\ cache' = [age |-> Older(cache.age), left |-> cache.left - 1]
        /\ cache.left # 1
    BY <1>7 DEF Tick, Expire
  <2>2. cache.left \in Nat /\ cache.left >= 2 /\ cache'.left = cache.left - 1
    BY <1>3, <2>1, Times
  <2>3. Kept(cache.left + Bridge)
    BY <1>1, <2>1 DEF BridgeInv
  <2>4. /\ cache'.left + Bridge \in Nat \ {0}
        /\ cache.left + Bridge = (cache'.left + Bridge) + 1
    BY <2>2, Times
  <2>5. \A n \in Nat \ {0} : Kept(n + 1) => KeptNext(n)
    BY <1>4
  <2>6. Kept((cache'.left + Bridge) + 1)
    BY <2>3, <2>4
  <2> QED BY <2>4, <2>5, <2>6
<1>8. bridged' # Bridge + 1
  BY <1>5, Times
<1> QED BY <1>2, <1>6, <1>7, <1>8 DEF BridgeInv, Kept, KeptNext, Bridge

\* One step of a request; only the three that write the cache, write the last
\* good payload or answer touch what the bridge is made of.
LEMMA StepBridge ==
    ASSUME FreshInv, BridgeInv, NEW r \in Req,
           Begin(r) \/ Make(r) \/ Step(r) \/ EndAttempt(r)
    PROVE  lost' \/ BridgeInv'
<1>0. /\ Request(req[r]) /\ RequestOK(req[r])
      /\ DOMAIN req = Req
  BY DEF FreshInv
<1> DEFINE Moved(q) == /\ ~At(r, "set_last_good") /\ req' = [req EXCEPT ![r] = q] /\ Stay
                       /\ q.at = "hydrate" /\ ~q.stale => Pending \/ Kept(Bridge + 1)
<1>1. ASSUME NEW q, Moved(q) PROVE BridgeInv'
  BY <1>1, KeepsBridge
<1>2. CASE Begin(r)
  <2> DEFINE q == [Idle EXCEPT !.at = "get_cache"]
  <2>1. Moved(q)
    BY <1>2 DEF Begin, At, Idle
  <2> QED BY <1>1, <2>1
<1>3. CASE GetCache(r)
  <2>1. CASE cache # NoEntry /\ req' = [req EXCEPT ![r].at = "hydrate", ![r].path = "cached",
                                             ![r].age = cache.age, ![r].made = TRUE]
    <3> DEFINE q == [req[r] EXCEPT !.at = "hydrate", !.path = "cached",
                                   !.age = cache.age, !.made = TRUE]
    <3>1. Pending \/ Kept(Bridge + 1)
      <4>1. Pending \/ Kept(cache.left + Bridge)
        BY <2>1 DEF BridgeInv
      <4>2. cache.left \in Nat /\ cache.left >= 1
        BY <2>1, Times DEF FreshInv, CacheFresh
      <4>3. ASSUME Kept(cache.left + Bridge) PROVE Kept(Bridge + 1)
        <5>1. lastGood \in [age : 0..Old, left : 1..LastGoodTtl]
          BY <4>3 DEF FreshInv, Kept
        <5> QED BY <4>2, <4>3, <5>1, Times DEF Kept
      <4> QED BY <4>1, <4>3
    <3>2. Moved(q)
      BY <1>3, <2>1, <3>1 DEF GetCache, At
    <3> QED BY <1>1, <3>2
  <2>2. CASE Goto(r, "ask")
    <3> DEFINE q == [req[r] EXCEPT !.at = "ask"]
    <3>1. q.at = "ask"
      BY <1>0 DEF Request
    <3>2. Moved(q)
      BY <1>3, <2>2, <3>1 DEF GetCache, At, Goto
    <3> QED BY <1>1, <3>2
  <2> QED BY <1>3, <2>1, <2>2 DEF GetCache
<1>4. CASE Ask(r)
  <2> DEFINE q == [req[r] EXCEPT !.at = "asked", !.tried = @ + 1, !.left = Timeout]
  <2>1. q.at = "asked"
    BY <1>0 DEF Request
  <2>2. Moved(q)
    BY <1>4, <2>1 DEF Ask, At
  <2> QED BY <1>1, <2>2
<1>5. CASE Make(r)
  <2> DEFINE q == [req[r] EXCEPT !.made = TRUE]
  <2>1. q.at = "asked"
    BY <1>0, <1>5 DEF Request, Make, At
  <2>2. Moved(q)
    BY <1>5, <2>1 DEF Make, At
  <2> QED BY <1>1, <2>2
<1>6. CASE Receive(r)
  <2> DEFINE q == [req[r] EXCEPT !.at = "set_cache", !.path = "fetched", !.left = 0]
  <2>1. q.at = "set_cache"
    BY <1>0 DEF Request
  <2>2. Moved(q)
    BY <1>6, <2>1 DEF Receive, At
  <2> QED BY <1>1, <2>2
<1>7. CASE AttemptFails(r)
  <2> DEFINE q == [req[r] EXCEPT !.made = FALSE, !.age = 0,
                                 !.at = IF req[r].tried < Attempts THEN "pause" ELSE "fallback",
                                 !.left = IF req[r].tried < Attempts THEN Pause ELSE 0]
  <2>1. q.at # "hydrate"
    BY <1>0 DEF Request
  <2>2. Moved(q)
    BY <1>7, <2>1 DEF AttemptFails, At
  <2> QED BY <1>1, <2>2
<1>8. CASE Refuse(r)
  <2> DEFINE q == [req[r] EXCEPT !.made = FALSE, !.age = 0, !.at = "fallback", !.left = 0]
  <2>1. q.at = "fallback"
    BY <1>0 DEF Request
  <2>2. Moved(q)
    BY <1>8, <2>1 DEF Refuse, At
  <2> QED BY <1>1, <2>2
<1>9. CASE Resume(r)
  <2> DEFINE q == [req[r] EXCEPT !.at = "ask"]
  <2>1. q.at = "ask"
    BY <1>0 DEF Request
  <2>2. Moved(q)
    BY <1>9, <2>1 DEF Resume, At, Goto
  <2> QED BY <1>1, <2>2
<1>10. CASE SetCache(r)
  <2>1. Pending'
    BY <1>0, <1>10 DEF SetCache, Goto, Pending, At, Request
  <2>2. lastGood' = lastGood /\ bridged' = bridged
    BY <1>10 DEF SetCache
  <2> QED BY <2>1, <2>2 DEF BridgeInv, Kept, Bridge
<1>11. CASE SetLastGood(r)
  <2> SUFFICES ASSUME ~lost' PROVE BridgeInv'
    OBVIOUS
  <2>1. lastGood' = [age |-> req[r].age, left |-> LastGoodTtl]
        /\ cache' = cache /\ bridged' = bridged
    BY <1>11 DEF SetLastGood, Entry
  <2>2. lastGood' # NoEntry
    BY <1>0, <2>1, Times, NoEntryAssumption DEF Request
  <2>3. \A n \in Nat : n <= LastGoodTtl => KeptNext(n)
    BY <2>1, <2>2, Times DEF KeptNext
  <2>4. KeptNext(Bridge + 1)
    BY <2>3, Times
  <2>5. bridged \in 1..Bridge => KeptNext(bridged)
    BY <2>3, Times
  <2>6. cache # NoEntry => KeptNext(cache.left + Bridge)
    <3> SUFFICES ASSUME cache # NoEntry PROVE KeptNext(cache.left + Bridge)
      OBVIOUS
    <3>1. cache.left \in 1..Ttl
      BY DEF FreshInv, CacheFresh
    <3> QED BY <2>3, <3>1, Times
  <2> QED BY <2>1, <2>4, <2>5, <2>6 DEF BridgeInv, Kept, KeptNext, Bridge
<1>12. CASE Answer(r)
  <2>1. lastGood' = lastGood /\ cache' = cache
    BY <1>12 DEF Answer
  <2>2. /\ \A p \in Req : p # r => req'[p] = req[p]
        /\ req'[r].at = "answered" /\ req[r].at = "hydrate"
    BY <1>0, <1>12 DEF Answer, Goto, At, Request
  <2>3. Pending => Pending'
    BY <2>2 DEF Pending, At
  <2>4. \A p \in Req : At(p, "hydrate")' /\ ~req'[p].stale => Pending \/ Kept(Bridge + 1)
    BY <2>2 DEF BridgeInv, At
  <2>5. CASE req[r].stale
    <3>1. bridged' = bridged
      BY <1>12, <2>5 DEF Answer
    <3> QED BY <2>1, <2>3, <2>4, <3>1 DEF BridgeInv, Kept, Bridge
  <2>6. CASE ~req[r].stale
    <3>1. bridged' = Bridge + 1
      BY <1>12, <2>6 DEF Answer
    <3>2. Pending \/ Kept(Bridge + 1)
      BY <2>2, <2>6 DEF BridgeInv, At
    <3>3. bridged' \notin 1..Bridge
      BY <3>1, Times
    <3> QED BY <2>1, <2>3, <2>4, <3>1, <3>2, <3>3 DEF BridgeInv, Kept, Bridge
  <2> QED BY <2>5, <2>6
<1>13. CASE HydrateFails(r)
  <2> DEFINE q == [req[r] EXCEPT !.at = IF req[r].path = "fetched" THEN "fallback" ELSE "error",
                                 !.made = FALSE, !.age = 0]
  <2>1. q.at # "hydrate"
    BY <1>0 DEF Request
  <2>2. Moved(q)
    BY <1>13, <2>1 DEF HydrateFails, At
  <2> QED BY <1>1, <2>2
<1>14. CASE Fallback(r)
  <2>1. CASE req' = [req EXCEPT ![r].at = "hydrate", ![r].path = "fallback",
                                ![r].stale = TRUE,
                                ![r].age = lastGood.age, ![r].made = TRUE]
    <3> DEFINE q == [req[r] EXCEPT !.at = "hydrate", !.path = "fallback", !.stale = TRUE,
                                   !.age = lastGood.age, !.made = TRUE]
    <3>1. q.stale
      BY <1>0 DEF Request
    <3>2. Moved(q)
      BY <1>14, <2>1, <3>1 DEF Fallback, At
    <3> QED BY <1>1, <3>2
  <2>2. CASE Goto(r, "no_data")
    <3> DEFINE q == [req[r] EXCEPT !.at = "no_data"]
    <3>1. q.at = "no_data"
      BY <1>0 DEF Request
    <3>2. Moved(q)
      BY <1>14, <2>2, <3>1 DEF Fallback, At, Goto
    <3> QED BY <1>1, <3>2
  <2> QED BY <1>14, <2>1, <2>2 DEF Fallback
<1> QED BY <1>2, <1>3, <1>4, <1>5, <1>6, <1>7, <1>8, <1>9, <1>10, <1>11, <1>12, <1>13, <1>14
        DEF Step, EndAttempt

\* What Redis has lost stays lost.
LEMMA LostStays ==
    ASSUME Next, lost
    PROVE  lost'
<1>1. Tick => lost'
  BY DEF Tick
<1>2. \A r \in Req : Begin(r) \/ Make(r) \/ EndAttempt(r) => lost'
  BY DEF Begin, Make, EndAttempt, Receive, AttemptFails, Refuse, Stay
<1>3. \A r \in Req : Step(r) => lost'
  BY DEF Step, GetCache, Ask, Resume, SetCache, SetLastGood, Answer, HydrateFails, Fallback, Stay
<1> QED BY <1>1, <1>2, <1>3 DEF Next

\* Unless Redis failed to store a last good payload, there is one until the
\* bridge has run out, so that a request is told that there is no data before
\* only if Redis does not return it.
THEOREM OutagesAreBridged == Spec => OutageIsBridged
<1> DEFINE Bridged == \A r \in Req : ~At(r, "no_data") /\ At(r, "no_data")'
                                    => bridged \notin 1..Bridge \/ lost \/ lastGood # NoEntry
           Inv == lost \/ BridgeInv
<1>1. Init => Inv
  BY Times DEF Init, BridgeInv, Idle, At
<1>2. FreshInv /\ Inv /\ [Next]_vars => Inv'
  <2> SUFFICES ASSUME FreshInv, Inv, [Next]_vars PROVE Inv'
    OBVIOUS
  <2>1. CASE UNCHANGED vars
    BY <2>1 DEF vars, BridgeInv, Kept, Pending, At, Bridge
  <2>2. CASE Next /\ lost
    BY <2>2, LostStays
  <2>3. CASE Next /\ BridgeInv
    BY <2>3, TickBridge, StepBridge DEF Next
  <2> QED BY <2>1, <2>2, <2>3
<1>3. Inv => Bridged
  BY DEF BridgeInv, Kept
<1> QED BY <1>1, <1>2, <1>3, AlwaysFresh, PTL DEF Spec, OutageIsBridged
=============================================================================
