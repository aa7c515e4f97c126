---------------------------- MODULE FeedbackProofs ----------------------------
(***************************************************************************)
(* Theorems about Feedback: its type correctness; that no mail is about a  *)
(* post that is not stored, no row says "sent" of a mail that was not      *)
(* taken, and a mail that was taken is told otherwise only if its call     *)
(* raised or its request was cut off; that a row is set once; and the      *)
(* daily limits, whichever requests run at once and are cut off.           *)
(***************************************************************************)
EXTENDS Feedback, FiniteSetTheorems, TLAPS

Row == [client : Client \cup {NoClient}, ip : Ip, day : Day, status : Status]
Counting == {"count_client", "count_ip", "insert"}

\* The shape of a request, and what it knows at each of its steps.
Request(q, now) ==
    /\ DOMAIN q = {"at", "client", "ip", "day", "id", "sent"}
    /\ q = [field \in DOMAIN q |-> q[field]]
    /\ q.at \in Counting \cup {"idle", "mail", "status"}
    /\ q.at = "idle" => q = Idle
    /\ q.at \in Counting =>
        /\ q.client \in Client \cup {NoClient} /\ q.ip \in Ip
        /\ q.day \in 1..now /\ q.id = 0

\* A request that mails has a row; what it knows of its mail is so.
Stands(q, stored, taken, failing) ==
    /\ q.at \in {"mail", "status"} => q.id \in stored
    /\ q.at = "status" => IF q.sent THEN q.id \in taken ELSE q.id \in failing

RowsOK ==
    /\ rows \in [Id -> Row \cup {NoRow}]
    /\ \A id \in Stored : rows[id].day <= today
    /\ \A id \in Stored : rows[id].status = "sent" => id \in mailed
    /\ \A id \in Stored : rows[id].status = "failed" => id \in raised

RequestsOK ==
    /\ DOMAIN req = Req /\ req = [r \in Req |-> req[r]]
    /\ \A r \in Req : Request(req[r], today) /\ Stands(req[r], Stored, mailed, raised)

FeedbackInv ==
    /\ today \in Day /\ faults \in 0..MaxFaults
    /\ RowsOK /\ RequestsOK
    /\ mailed \subseteq Stored /\ raised \subseteq Stored /\ interrupted \subseteq Stored

-----------------------------------------------------------------------------
LEMMA Bounds == LastDay \in Nat \ {0} /\ MaxFaults \in Nat /\ MaxRows \in Nat /\ Id \subseteq Nat \ {0}
BY BoundAssumption DEF Id

\* A row has a status and NoRow has another one.
LEMMA RowIsStored == \A row \in Row : row # NoRow
<1> SUFFICES ASSUME NEW row \in Row PROVE row # NoRow
  OBVIOUS
<1>1. row.status \in Status /\ NoRow.status \notin Status
  BY DEF Row, NoRow, Status
<1> QED  BY <1>1

LEMMA IdleStands ==
    \A now, stored, taken, failing : Request(Idle, now) /\ Stands(Idle, stored, taken, failing)
BY DEF Request, Stands, Idle, Counting

\* A step of one request that only adds to the tables keeps the other requests.
LEMMA OneRequest ==
    ASSUME RequestsOK, NEW r \in Req, NEW q, Request(q, today), Stands(q, Stored', mailed', raised'),
           req' = [req EXCEPT ![r] = q], today' = today,
           Stored \subseteq Stored', mailed \subseteq mailed', raised \subseteq raised'
    PROVE  RequestsOK'
<1>1. \A p \in Req : Stands(req[p], Stored', mailed', raised')
  BY DEF RequestsOK, Stands
<1> QED  BY <1>1 DEF RequestsOK

\* A request ends.
LEMMA EndKeeps ==
    ASSUME RequestsOK, NEW r \in Req, End(r), today' = today,
           Stored \subseteq Stored', mailed \subseteq mailed', raised \subseteq raised'
    PROVE  RequestsOK'
BY OneRequest, IdleStands DEF End

\* A request that goes on with the same post.
LEMMA GoesOn ==
    ASSUME NEW q, Request(q, today), q.at \in Counting
    PROVE  /\ Request([q EXCEPT !.at = "count_ip"], today)
           /\ Request([q EXCEPT !.at = "insert", !.day = today], today) \/ today \notin Day
           /\ \A stored, taken, failing :
                 Stands([q EXCEPT !.at = "count_ip"], stored, taken, failing)
           /\ \A stored, taken, failing :
                 Stands([q EXCEPT !.at = "insert", !.day = today], stored, taken, failing)
<1>1. [q EXCEPT !.at = "count_ip"].at = "count_ip"
      /\ [q EXCEPT !.at = "insert", !.day = today].at = "insert"
  BY DEF Request
<1>2. Request([q EXCEPT !.at = "count_ip"], today)
  <2> DEFINE p == [q EXCEPT !.at = "count_ip"]
  <2>1. DOMAIN p = DOMAIN q /\ p = [field \in DOMAIN p |-> p[field]]
    BY DEF Request
  <2>2. p.at = "count_ip" /\ p.client = q.client /\ p.ip = q.ip /\ p.day = q.day /\ p.id = q.id
    BY DEF Request
  <2> QED  BY <2>1, <2>2 DEF Request, Counting
<1>3. Request([q EXCEPT !.at = "insert", !.day = today], today) \/ today \notin Day
  <2> DEFINE p == [q EXCEPT !.at = "insert", !.day = today]
  <2>1. DOMAIN p = DOMAIN q /\ p = [field \in DOMAIN p |-> p[field]]
    BY DEF Request
  <2>2. p.at = "insert" /\ p.client = q.client /\ p.ip = q.ip /\ p.day = today /\ p.id = q.id
    BY DEF Request
  <2>3. today \in Day => today \in 1..today
    BY Bounds DEF Day
  <2> QED  BY <2>1, <2>2, <2>3 DEF Request, Counting
<1> QED  BY <1>1, <1>2, <1>3 DEF Stands, Counting

-----------------------------------------------------------------------------
LEMMA InitFeedback == Init => FeedbackInv
<1> SUFFICES ASSUME Init PROVE FeedbackInv
  OBVIOUS
<1>1. Stored = {}
  BY DEF Init, Stored
<1>2. RowsOK
  BY <1>1 DEF Init, RowsOK
<1>3. RequestsOK
  BY <1>1, IdleStands DEF Init, RequestsOK
<1> QED  BY <1>1, <1>2, <1>3, Bounds DEF Init, FeedbackInv, Day

\* A post is accepted or refused; the tables are as they were.
LEMMA CountKeeps ==
    ASSUME FeedbackInv, NEW r \in Req, Begin(r) \/ CountClient(r) \/ CountIp(r)
    PROVE  FeedbackInv'
<1>1. UNCHANGED <<today, rows, mailed, raised, interrupted, faults>> /\ Stored' = Stored
  BY DEF Begin, CountClient, CountIp, Stored
<1>2. RequestsOK'
  <2>1. CASE Begin(r)
    <3>1. PICK c \in Client \cup {NoClient}, ip \in Ip :
            req' = [req EXCEPT ![r] =
                      [Idle EXCEPT !.at = IF c = NoClient THEN "count_ip" ELSE "count_client",
                                   !.client = c, !.day = today, !.ip = ip]]
      BY <2>1 DEF Begin
    <3> DEFINE label == IF c = NoClient THEN "count_ip" ELSE "count_client"
               q == [Idle EXCEPT !.at = label, !.client = c, !.day = today, !.ip = ip]
    <3>2. /\ DOMAIN q = DOMAIN Idle /\ q = [field \in DOMAIN q |-> q[field]]
          /\ q.at = label /\ q.client = c /\ q.ip = ip /\ q.day = today /\ q.id = 0
      <4> HIDE DEF label
      <4> QED  BY DEF Idle
    <3>3. today \in 1..today
      BY Bounds DEF FeedbackInv, Day
    <3>4. DOMAIN q = {"at", "client", "ip", "day", "id", "sent"} /\ q.at \in {"count_ip", "count_client"}
      <4>1. DOMAIN q = DOMAIN Idle /\ q.at = label
        BY <3>2
      <4> HIDE DEF q
      <4> QED  BY <4>1 DEF Idle
    <3> HIDE DEF q
    <3>5. Request(q, today) /\ Stands(q, Stored', mailed', raised')
      BY <3>2, <3>3, <3>4 DEF Request, Stands, Counting
    <3> QED  BY <1>1, <3>1, <3>5, OneRequest DEF FeedbackInv, q
  <2>2. CASE End(r)
    BY <1>1, <2>2, EndKeeps DEF FeedbackInv
  <2>3. CASE CountClient(r) /\ req' = [req EXCEPT ![r].at = "count_ip"]
    <3>1. Request(req[r], today) /\ req[r].at \in Counting
      BY <2>3 DEF CountClient, At, FeedbackInv, RequestsOK, Counting
    <3>2. req' = [req EXCEPT ![r] = [req[r] EXCEPT !.at = "count_ip"]]
      BY <2>3
    <3> QED  BY <1>1, <3>1, <3>2, GoesOn, OneRequest DEF FeedbackInv
  <2>4. CASE CountIp(r) /\ req' = [req EXCEPT ![r].at = "insert", ![r].day = today]
    <3>1. Request(req[r], today) /\ req[r].at \in Counting
      BY <2>4 DEF CountIp, At, FeedbackInv, RequestsOK, Counting
    <3>2. req' = [req EXCEPT ![r] = [req[r] EXCEPT !.at = "insert", !.day = today]]
      BY <2>4 DEF FeedbackInv, RequestsOK
    <3> QED  BY <1>1, <3>1, <3>2, GoesOn, OneRequest DEF FeedbackInv
  <2> QED  BY <2>1, <2>2, <2>3, <2>4 DEF CountClient, CountIp
<1> QED  BY <1>1, <1>2 DEF FeedbackInv, RowsOK

\* The new row is pending and takes no id of another.
LEMMA InsertKeeps == ASSUME FeedbackInv, NEW r \in Req, Insert(r) PROVE FeedbackInv'
<1>1. NewId \in Id /\ NewId \notin Stored
  BY DEF Insert, NewId, Stored
<1>2. RowOf(r) \in Row /\ RowOf(r) # NoRow /\ RowOf(r).status = "pending" /\ RowOf(r).day <= today
  <2>1. RowOf(r) \in Row /\ RowOf(r).day <= today
    BY Bounds DEF Insert, At, FeedbackInv, RequestsOK, Request, RowOf, Row, Status, Counting, Day
  <2> QED  BY <2>1, RowIsStored DEF RowOf
<1>3. rows' = [rows EXCEPT ![NewId] = RowOf(r)] /\ UNCHANGED <<today, mailed, raised, interrupted, faults>>
  BY DEF Insert
<1>4. Stored' = Stored \cup {NewId}
  BY <1>1, <1>2, <1>3 DEF Stored, FeedbackInv, RowsOK
<1>5. RowsOK'
  BY <1>1, <1>2, <1>3, <1>4 DEF FeedbackInv, RowsOK
<1>6. RequestsOK'
  <2> DEFINE q == [Idle EXCEPT !.at = "mail", !.id = NewId]
  <2>1. /\ DOMAIN q = {"at", "client", "ip", "day", "id", "sent"}
        /\ q = [field \in DOMAIN q |-> q[field]] /\ q.at = "mail" /\ q.id = NewId
    BY DEF Idle
  <2>2. req' = [req EXCEPT ![r] = q]
    BY DEF Insert
  <2> HIDE DEF q
  <2>3. Request(q, today) /\ Stands(q, Stored', mailed', raised')
    BY <1>4, <2>1 DEF Request, Stands, Counting
  <2> QED  BY <1>3, <1>4, <2>2, <2>3, OneRequest DEF FeedbackInv
<1> QED  BY <1>3, <1>4, <1>5, <1>6 DEF FeedbackInv

\* The mail may be taken although the request is told that it was not.
LEMMA MailKeeps == ASSUME FeedbackInv, NEW r \in Req, Mail(r) PROVE FeedbackInv'
<1>1. /\ req[r].at = "mail" /\ req[r].id \in Stored /\ Request(req[r], today)
      /\ UNCHANGED <<today, rows, interrupted, faults>> /\ Stored' = Stored
  BY DEF Mail, At, FeedbackInv, RequestsOK, Stands, Stored
<1>2. PICK taken \in BOOLEAN, error \in {"none", "smtp", "other"} :
        /\ error = "none" => taken
        /\ mailed' = IF taken THEN mailed \cup {req[r].id} ELSE mailed
        /\ raised' = IF error = "none" THEN raised ELSE raised \cup {req[r].id}
        /\ Caught(r, error = "none", error)
  BY DEF Mail
<1>3. /\ mailed \subseteq mailed' /\ mailed' \subseteq Stored
      /\ raised \subseteq raised' /\ raised' \subseteq Stored
      /\ IF error = "none" THEN req[r].id \in mailed' ELSE req[r].id \in raised'
  BY <1>1, <1>2 DEF FeedbackInv
<1>4. RequestsOK'
  <2> DEFINE q == [req[r] EXCEPT !.at = "status", !.sent = (error = "none")]
  <2>1. req' = [req EXCEPT ![r] = q]
    BY <1>2 DEF Caught, FeedbackInv, RequestsOK
  <2>2. /\ DOMAIN q = DOMAIN req[r] /\ q = [field \in DOMAIN q |-> q[field]]
        /\ q.at = "status" /\ q.id = req[r].id /\ q.sent = (error = "none")
    BY <1>1 DEF Request
  <2>3. Request(q, today) /\ Stands(q, Stored', mailed', raised')
    BY <1>1, <1>3, <2>2 DEF Request, Stands, Counting
  <2> HIDE DEF q
  <2> QED  BY <1>1, <1>3, <2>1, <2>3, OneRequest DEF FeedbackInv
<1> QED  BY <1>1, <1>3, <1>4 DEF FeedbackInv, RowsOK

\* A row says "sent" only of a mail that was.
LEMMA StatusKeeps == ASSUME FeedbackInv, NEW r \in Req, SetStatus(r) PROVE FeedbackInv'
<1> DEFINE id == req[r].id
<1>1. id \in Stored /\ IF req[r].sent THEN id \in mailed ELSE id \in raised
  BY DEF SetStatus, At, FeedbackInv, RequestsOK, Stands
<1>2. PICK status \in {"sent", "failed"} :
        /\ rows' = [rows EXCEPT ![id] = [rows[id] EXCEPT !.status = status]]
        /\ status = "sent" => id \in mailed
        /\ status = "failed" => id \in raised
  BY <1>1 DEF SetStatus
<1>3. UNCHANGED <<today, mailed, raised, interrupted, faults>> /\ End(r)
  BY DEF SetStatus
<1>4. id \in Id /\ rows[id] \in Row
  BY <1>1 DEF Stored, FeedbackInv, RowsOK
<1>5. [rows[id] EXCEPT !.status = status] \in Row
  BY <1>4 DEF Row, Status
<1>6. /\ [rows[id] EXCEPT !.status = status].status = status
      /\ [rows[id] EXCEPT !.status = status].day = rows[id].day
  BY <1>4 DEF Row
<1>7. Stored' = Stored
  BY <1>1, <1>2, <1>4, <1>5, RowIsStored DEF Stored, FeedbackInv, RowsOK
<1>8. RowsOK'
  BY <1>1, <1>2, <1>3, <1>4, <1>5, <1>6, <1>7 DEF FeedbackInv, RowsOK
<1>9. RequestsOK'
  BY <1>3, <1>7, EndKeeps DEF FeedbackInv
<1> QED  BY <1>3, <1>7, <1>8, <1>9 DEF FeedbackInv

\* What is cut off leaves a stored post, or none.
LEMMA FaultKeeps ==
    ASSUME FeedbackInv, (\E r \in Req : Refuse(r)) \/ Restart
    PROVE  FeedbackInv'
<1>1. faults' \in 0..MaxFaults /\ UNCHANGED <<today, rows, raised>> /\ Stored' = Stored
  BY Bounds DEF FeedbackInv, Refuse, Restart, Stored
<1>2. \A r \in Req : Open(r) \subseteq Stored
  <2> SUFFICES ASSUME NEW r \in Req, req[r].id # 0 PROVE req[r].id \in Stored
    BY DEF Open
  <2>1. req[r].at \notin Counting /\ req[r].at # "idle"
    BY DEF FeedbackInv, RequestsOK, Request, Idle
  <2> QED  BY <2>1 DEF FeedbackInv, RequestsOK, Request, Stands
<1>3. CASE \E r \in Req : Refuse(r)
  <2>1. PICK r \in Req : Refuse(r)
    BY <1>3
  <2>2. mailed' = mailed /\ interrupted' = interrupted \cup Open(r) /\ End(r)
    BY <2>1 DEF Refuse
  <2>3. RequestsOK'
    BY <1>1, <2>2, EndKeeps DEF FeedbackInv
  <2> QED  BY <1>1, <1>2, <2>2, <2>3 DEF FeedbackInv, RowsOK
<1>4. CASE Restart
  <2>1. PICK taken \in SUBSET {req[r].id : r \in {r \in Req : At(r, "mail")}} :
          mailed' = mailed \cup taken
    BY <1>4 DEF Restart
  <2>2. taken \subseteq Stored
    BY DEF At, FeedbackInv, RequestsOK, Stands
  <2>3. req' = [r \in Req |-> Idle] /\ interrupted' = interrupted \cup UNION {Open(r) : r \in Req}
    BY <1>4 DEF Restart
  <2>4. RequestsOK'
    BY <2>3, IdleStands DEF RequestsOK
  <2> QED  BY <1>1, <1>2, <2>1, <2>2, <2>3, <2>4 DEF FeedbackInv, RowsOK
<1> QED  BY <1>3, <1>4

LEMMA NewDayKeeps == ASSUME FeedbackInv, NewDay PROVE FeedbackInv'
<1>1. /\ today \in Int /\ today' = today + 1 /\ today' \in Day
      /\ UNCHANGED <<rows, req, mailed, raised, interrupted, faults>> /\ Stored' = Stored
  BY Bounds DEF FeedbackInv, NewDay, Day, Stored
<1>2. \A q : Request(q, today) => Request(q, today')
  BY <1>1 DEF Request
<1>3. RowsOK'
  BY <1>1, Bounds DEF FeedbackInv, RowsOK, Row, Day, Stored
<1>4. RequestsOK'
  BY <1>1, <1>2 DEF FeedbackInv, RequestsOK
<1> QED  BY <1>1, <1>3, <1>4 DEF FeedbackInv

LEMMA StepFeedback == FeedbackInv /\ [Next]_vars => FeedbackInv'
<1>1. ASSUME FeedbackInv, UNCHANGED vars PROVE FeedbackInv'
  BY <1>1 DEF vars, FeedbackInv, RowsOK, RequestsOK, Stored
<1> QED
  BY <1>1, CountKeeps, InsertKeeps, MailKeeps, StatusKeeps, FaultKeeps, NewDayKeeps DEF Next, Step

LEMMA FeedbackAlways == Spec => []FeedbackInv
BY InitFeedback, StepFeedback, PTL DEF Spec

\* Rows and requests have their types, and a request that mails has a row.
THEOREM TypeCorrect == Spec => []TypeOK
<1>1. FeedbackInv => TypeOK
  <2> SUFFICES ASSUME FeedbackInv PROVE TypeOK
    OBVIOUS
  <2>1. \A id \in Stored : rows[id] \in Row /\ rows[id].day <= today
    BY DEF FeedbackInv, RowsOK, Stored
  <2>2. \A id \in Stored :
          /\ rows[id].client \in Client \cup {NoClient} /\ rows[id].ip \in Ip
          /\ rows[id].day \in 1..today /\ rows[id].status \in Status
    BY <2>1, Bounds DEF Row, FeedbackInv, Day
  <2>3. \A r \in Req : /\ At(r, "idle") => req[r] = Idle
                       /\ req[r].at \in {"mail", "status"} => req[r].id \in Stored
    BY DEF FeedbackInv, RequestsOK, Request, Stands, At
  <2>4. mailed \subseteq Id /\ raised \subseteq Id /\ interrupted \subseteq Id
    BY DEF FeedbackInv, Stored
  <2> QED  BY <2>2, <2>3, <2>4 DEF FeedbackInv, TypeOK
<1> QED  BY <1>1, FeedbackAlways, PTL

-----------------------------------------------------------------------------
(***************************************************************************)
(* Rows and their requests.  A row that a request works on is pending, is  *)
(* that request's alone, and has not been mailed before.                   *)
(***************************************************************************)
Working(q) == q.at \in {"mail", "status"}

OwnRows ==
    /\ \A r \in Req : Working(req[r]) => rows[req[r].id].status = "pending"
    /\ \A r, q \in Req : r # q /\ Working(req[r]) /\ Working(req[q]) => req[r].id # req[q].id
    /\ \A r \in Req : req[r].at = "mail" => req[r].id \notin mailed

\* A mail that was taken is told, or it is known why not.
Told(id) ==
    \/ rows[id].status = "sent"
    \/ id \in raised \cup interrupted
    \/ \E r \in Req : req[r].at = "status" /\ req[r].id = id

RowInv == OwnRows /\ \A id \in mailed : Told(id)

\* A request that does not work on a row begins, goes on or ends.
LEMMA AsideKeeps ==
    ASSUME FeedbackInv, RowInv, NEW r \in Req, NEW q, req' = [req EXCEPT ![r] = q],
           ~Working(q), ~Working(req[r]), UNCHANGED <<rows, mailed, raised, interrupted>>
    PROVE  RowInv'
<1>1. /\ \A p \in Req \ {r} : req'[p] = req[p]
      /\ req'[r] = q
  BY DEF FeedbackInv, RequestsOK
<1>2. OwnRows'
  BY <1>1 DEF RowInv, OwnRows, Working
<1>3. ASSUME NEW id \in mailed PROVE Told(id)'
  BY <1>1 DEF RowInv, Told, Working
<1> QED  BY <1>2, <1>3 DEF RowInv

LEMMA InsertOwns == ASSUME FeedbackInv, RowInv, NEW r \in Req, Insert(r) PROVE RowInv'
<1> DEFINE q == [Idle EXCEPT !.at = "mail", !.id = NewId]
<1>1. NewId \in Id /\ NewId \notin Stored
  BY DEF Insert, NewId, Stored
<1>2. /\ \A p \in Req \ {r} : req'[p] = req[p]
      /\ req'[r].at = "mail" /\ req'[r].id = NewId /\ req[r].at = "insert"
      /\ UNCHANGED <<mailed, raised, interrupted>>
  BY DEF Insert, At, Idle, FeedbackInv, RequestsOK
<1>3. /\ \A id \in Stored : rows'[id] = rows[id]
      /\ rows'[NewId].status = "pending"
  BY <1>1 DEF Insert, RowOf, FeedbackInv, RowsOK
<1>4. \A p \in Req : Working(req[p]) => req[p].id \in Stored
  BY DEF FeedbackInv, RequestsOK, Stands, Working
<1>5. OwnRows'
  BY <1>1, <1>2, <1>3, <1>4 DEF FeedbackInv, RowInv, OwnRows, Working
<1>6. ASSUME NEW id \in mailed PROVE Told(id)'
  BY <1>2, <1>3 DEF FeedbackInv, RowInv, Told
<1> QED  BY <1>2, <1>5, <1>6 DEF RowInv

LEMMA MailOwns == ASSUME FeedbackInv, RowInv, NEW r \in Req, Mail(r) PROVE RowInv'
<1>0. PICK error \in {"none", "smtp", "other"} : Caught(r, error = "none", error)
  BY DEF Mail
<1> DEFINE sent == error = "none"
<1>1. req' = [req EXCEPT ![r] = [req[r] EXCEPT !.at = "status", !.sent = sent]]
  BY <1>0 DEF Caught, FeedbackInv, RequestsOK
<1>2. /\ \A p \in Req \ {r} : req'[p] = req[p]
      /\ req'[r].at = "status" /\ req'[r].id = req[r].id /\ req[r].at = "mail"
  BY <1>1 DEF Mail, At, FeedbackInv, RequestsOK, Request
<1>3. /\ UNCHANGED <<rows, interrupted>> /\ raised \subseteq raised'
      /\ mailed' \subseteq mailed \cup {req[r].id}
  BY DEF Mail
<1>4. OwnRows'
  BY <1>2, <1>3 DEF RowInv, OwnRows, Working
<1>5. ASSUME NEW id \in mailed' PROVE Told(id)'
  <2>1. CASE id = req[r].id
    BY <1>2, <2>1 DEF Told
  <2>2. CASE id # req[r].id
    BY <1>2, <1>3, <2>2 DEF RowInv, Told
  <2> QED  BY <2>1, <2>2
<1> QED  BY <1>4, <1>5 DEF RowInv

\* The row of a request is set, and of no other.
LEMMA StatusOwns ==
    ASSUME FeedbackInv, RowInv, NEW r \in Req, SetStatus(r)
    PROVE  RowInv'
<1> DEFINE id == req[r].id
<1>1. /\ id \in Stored /\ id \in Id /\ rows[id] \in Row /\ req[r].at = "status"
      /\ ~req[r].sent => id \in raised
  BY DEF SetStatus, At, FeedbackInv, RequestsOK, RowsOK, Stands, Stored
<1>2. /\ \A p \in Req \ {r} : req'[p] = req[p]
      /\ req'[r].at = "idle" /\ UNCHANGED <<mailed, raised, interrupted>>
  BY DEF SetStatus, End, Idle, FeedbackInv, RequestsOK
<1>3. /\ \A other \in Id \ {id} : rows'[other] = rows[other]
      /\ req[r].sent => rows'[id].status = "sent"
  BY <1>1 DEF SetStatus, FeedbackInv, RowsOK, Row
<1>4. /\ \A p \in Req : Working(req[p]) => req[p].id \in Id
      /\ mailed \subseteq Id
  BY DEF FeedbackInv, RequestsOK, Stands, Working, Stored
<1> HIDE DEF id
<1>5. OwnRows'
  <2>1. \A p \in Req : Working(req'[p]) => p # r /\ req'[p] = req[p]
    BY <1>2 DEF Working
  <2>2. \A p \in Req : p # r /\ Working(req[p]) => req[p].id # id
    BY <1>1 DEF RowInv, OwnRows, Working, id
  <2> QED  BY <1>2, <1>3, <1>4, <2>1, <2>2 DEF RowInv, OwnRows, Working
<1>6. ASSUME NEW other \in mailed PROVE Told(other)'
  <2>1. CASE other = id
    BY <1>1, <1>2, <1>3, <2>1 DEF Told
  <2>2. CASE other # id
    <3>1. rows'[other] = rows[other]
      BY <1>3, <1>4, <2>2
    <3> QED  BY <1>2, <2>2, <3>1 DEF RowInv, Told, id
  <2> QED  BY <2>1, <2>2
<1> QED  BY <1>2, <1>5, <1>6 DEF RowInv

\* What is cut off is known to be.
LEMMA FaultOwns ==
    ASSUME FeedbackInv, RowInv, (\E r \in Req : Refuse(r)) \/ Restart
    PROVE  RowInv'
<1>0. UNCHANGED <<rows, raised>>
  BY DEF Refuse, Restart
<1>1. \A r \in Req : Working(req[r]) => Open(r) = {req[r].id}
  BY Bounds DEF FeedbackInv, RequestsOK, Stands, Stored, Working, Open
<1>2. ASSUME NEW r \in Req, Refuse(r) PROVE RowInv'
  <2>1. /\ \A p \in Req \ {r} : req'[p] = req[p]
        /\ req'[r].at = "idle" /\ mailed' = mailed /\ interrupted' = interrupted \cup Open(r)
    BY <1>2 DEF Refuse, End, Idle, FeedbackInv, RequestsOK
  <2>2. OwnRows'
    BY <1>0, <2>1 DEF RowInv, OwnRows, Working
  <2>3. ASSUME NEW id \in mailed PROVE Told(id)'
    <3>1. CASE req[r].at = "status" /\ req[r].id = id
      BY <1>1, <2>1, <3>1 DEF Working, Told
    <3>2. CASE ~(req[r].at = "status" /\ req[r].id = id)
      BY <1>0, <2>1, <3>2 DEF RowInv, Told
    <3> QED  BY <3>1, <3>2
  <2> QED  BY <2>1, <2>2, <2>3 DEF RowInv
<1>3. CASE Restart
  <2>1. PICK taken \in SUBSET {req[r].id : r \in {r \in Req : At(r, "mail")}} :
          mailed' = mailed \cup taken
    BY <1>3 DEF Restart
  <2>2. /\ \A r \in Req : req'[r].at = "idle"
        /\ interrupted' = interrupted \cup UNION {Open(r) : r \in Req}
    BY <1>3 DEF Restart, Idle
  <2>3. OwnRows'
    BY <2>2 DEF OwnRows, Working
  <2>4. ASSUME NEW id \in mailed' PROVE Told(id)'
    <3>1. \A r \in Req : Working(req[r]) => req[r].id \in interrupted'
      BY <1>1, <2>2
    <3>2. CASE id \in taken
      BY <3>1, <3>2 DEF At, Working, Told
    <3>3. CASE id \in mailed
      BY <1>0, <2>2, <3>1, <3>3 DEF RowInv, Told, Working
    <3> QED  BY <2>1, <3>2, <3>3
  <2> QED  BY <2>3, <2>4 DEF RowInv
<1> QED  BY <1>2, <1>3

LEMMA StepRows == FeedbackInv /\ RowInv /\ [Next]_vars => RowInv'
<1> SUFFICES ASSUME FeedbackInv, RowInv, [Next]_vars PROVE RowInv'
  OBVIOUS
<1>1. CASE UNCHANGED vars \/ NewDay
  <2>1. UNCHANGED <<rows, req, mailed, raised, interrupted>>
    BY <1>1 DEF vars, NewDay
  <2> QED  BY <2>1 DEF RowInv, OwnRows, Told, Working
<1>2. ASSUME NEW r \in Req, Begin(r) \/ CountClient(r) \/ CountIp(r) PROVE RowInv'
  <2>1. UNCHANGED <<rows, mailed, raised, interrupted>> /\ ~Working(req[r])
    BY <1>2 DEF Begin, CountClient, CountIp, At, Working
  <2>2. req' = [req EXCEPT ![r] = req'[r]]
    BY <1>2 DEF Begin, CountClient, CountIp, End, FeedbackInv, RequestsOK
  <2>3. ~Working(req'[r])
    <3>1. CASE Begin(r)
      <4>1. PICK c \in Client \cup {NoClient}, ip \in Ip :
              req'[r] = [Idle EXCEPT !.at = IF c = NoClient THEN "count_ip" ELSE "count_client",
                                     !.client = c, !.day = today, !.ip = ip]
        BY <3>1 DEF Begin, FeedbackInv, RequestsOK
      <4>2. req'[r].at \in {"count_ip", "count_client"}
        BY <4>1 DEF Idle
      <4> QED  BY <4>2 DEF Working
    <3>2. CASE End(r)
      BY <3>2 DEF End, Idle, Working, FeedbackInv, RequestsOK
    <3>3. CASE (CountClient(r) \/ CountIp(r)) /\ ~End(r)
      <4>1. Request(req[r], today)
        BY DEF FeedbackInv, RequestsOK
      <4>2. req'[r].at \in {"count_ip", "insert"}
        BY <3>3, <4>1 DEF CountClient, CountIp, FeedbackInv, RequestsOK, Request
      <4> QED  BY <4>2 DEF Working
    <3> QED  BY <1>2, <3>1, <3>2, <3>3
  <2> QED  BY <2>1, <2>2, <2>3, AsideKeeps
<1> QED
  BY <1>1, <1>2, InsertOwns, MailOwns, StatusOwns, FaultOwns DEF Next, Step

LEMMA RowsAlways == Spec => [](FeedbackInv /\ RowInv)
<1>1. Init => RowInv
  BY DEF Init, Idle, RowInv, OwnRows, Working
<1> QED  BY <1>1, InitFeedback, StepFeedback, StepRows, PTL DEF Spec

\* No mail without its row, no row that says "sent" without its mail, and no
\* mail that is told otherwise but for an error or an end of its request.
THEOREM StoredAlwaysBeforeMailed == Spec => []StoredBeforeMailed
<1>1. FeedbackInv /\ RowInv => StoredBeforeMailed
  BY DEF FeedbackInv, RowsOK, RowInv, Told, StoredBeforeMailed, At
<1> QED  BY <1>1, RowsAlways, PTL

\* A row goes from "pending" to its outcome and stays there, and a mail that was
\* taken is not sent again.
THEOREM StatusIsAlwaysSetOnce == Spec => StatusIsSetOnce
<1> DEFINE Once ==
      /\ \A id \in Stored : rows'[id] # rows[id] =>
            /\ rows[id].status = "pending"
            /\ \E status \in {"sent", "failed"} : rows'[id] = [rows[id] EXCEPT !.status = status]
      /\ \A r \in Req : Mail(r) => req[r].id \notin mailed
<1>1. FeedbackInv /\ RowInv /\ [Next]_vars => [Once]_vars
  <2> SUFFICES ASSUME FeedbackInv, RowInv, Next PROVE Once
    OBVIOUS
  <2>1. \A r \in Req : Mail(r) => req[r].id \notin mailed
    BY DEF Mail, At, RowInv, OwnRows
  <2>2. ASSUME NEW id \in Stored, rows'[id] # rows[id]
        PROVE  /\ rows[id].status = "pending"
               /\ \E status \in {"sent", "failed"} : rows'[id] = [rows[id] EXCEPT !.status = status]
    <3>1. PICK r \in Req : Insert(r) \/ SetStatus(r)
      BY <2>2 DEF Next, Step, Begin, CountClient, CountIp, Mail, Refuse, Restart, NewDay
    <3>2. rows \in [Id -> Row \cup {NoRow}] /\ id \in Id
      BY DEF FeedbackInv, RowsOK, Stored
    <3>3. ~Insert(r)
      BY <2>2, <3>2 DEF Insert, NewId, Stored
    <3>4. SetStatus(r) /\ Working(req[r]) /\ req[r].id \in Id
      BY <3>1, <3>3 DEF SetStatus, At, Working, FeedbackInv, RequestsOK, Stands, Stored
    <3>5. id = req[r].id
      BY <2>2, <3>2, <3>4 DEF SetStatus
    <3> QED  BY <3>2, <3>4, <3>5 DEF SetStatus, RowInv, OwnRows
  <2> QED  BY <2>1, <2>2
<1> QED  BY <1>1, RowsAlways, PTL DEF Spec, StatusIsSetOnce

-----------------------------------------------------------------------------
(***************************************************************************)
(* The daily limits.  A request heads for a day when it may store a post   *)
(* on it and will not be counted against that day any more: the count is   *)
(* behind it, or is taken for the day before.  Posts of a day and requests *)
(* that head for it are together no more than the limit and all requests   *)
(* but one: a request that passes its count finds less than the limit, and *)
(* midnight starts an empty day.                                           *)
(***************************************************************************)
Fields == {"client", "ip"}
Limit(field) == IF field = "client" THEN ClientLimit ELSE IpLimit
Values(field) == IF field = "client" THEN Client ELSE Ip

PostsOf(field, value, day) == {id \in Stored : rows[id][field] = value /\ rows[id].day = day}

Heads(q, field, value, day, now) ==
    /\ q[field] = value
    /\ \/ q.at = "insert" /\ q.day = day
       \/ q.at = "count_ip" /\ field = "client" /\ day = now
       \/ q.at \in {"count_client", "count_ip"} /\ day = now /\ q.day # now

Heading(field, value, day) == {r \in Req : Heads(req[r], field, value, day, today)}

WithinLimit(field, value, day) ==
    Cardinality(PostsOf(field, value, day)) + Cardinality(Heading(field, value, day))
        <= Limit(field) + Cardinality(Req) - 1

LimitInv == \A field \in Fields, day \in Day : \A value \in Values(field) : WithinLimit(field, value, day)

\* Both counts are of finite sets, and no more requests head for a day than
\* there are.
LEMMA Counts ==
    ASSUME NEW field, NEW value, NEW day
    PROVE  /\ IsFiniteSet(PostsOf(field, value, day)) /\ Cardinality(PostsOf(field, value, day)) \in Nat
           /\ IsFiniteSet(Heading(field, value, day)) /\ Cardinality(Heading(field, value, day)) \in Nat
           /\ Cardinality(Heading(field, value, day)) <= Cardinality(Req)
           /\ Cardinality(Req) \in Nat
<1>1. IsFiniteSet(Id)
  BY FS_Interval, BoundAssumption DEF Id
<1>2. PostsOf(field, value, day) \in SUBSET Id /\ Heading(field, value, day) \in SUBSET Req
  BY DEF PostsOf, Stored, Heading
<1> QED  BY <1>1, <1>2, FS_Subset, FS_CardinalityType, RequestsAssumption

LEMMA Limits == \A field \in Fields : Limit(field) \in Nat \ {0}
BY LimitAssumption DEF Fields, Limit

\* What only shrinks stays within the limit.
LEMMA FewerFit ==
    ASSUME NEW field \in Fields, NEW value, NEW day, WithinLimit(field, value, day),
           PostsOf(field, value, day)' \subseteq PostsOf(field, value, day),
           Heading(field, value, day)' \subseteq Heading(field, value, day)
    PROVE  WithinLimit(field, value, day)'
<1>1. /\ Cardinality(PostsOf(field, value, day)') <= Cardinality(PostsOf(field, value, day))
      /\ Cardinality(Heading(field, value, day)') <= Cardinality(Heading(field, value, day))
  BY Counts, FS_Subset
<1>2. /\ IsFiniteSet(PostsOf(field, value, day)') /\ IsFiniteSet(Heading(field, value, day)')
      /\ Cardinality(PostsOf(field, value, day)') \in Nat /\ Cardinality(Heading(field, value, day)') \in Nat
  BY Counts, FS_Subset, FS_CardinalityType
<1> QED  BY <1>1, <1>2, Counts, Limits DEF WithinLimit

\* A day with less than the limit takes all requests.
LEMMA AllMayHead ==
    ASSUME NEW field \in Fields, NEW value, NEW day,
           Cardinality(PostsOf(field, value, day)') < Limit(field)
    PROVE  WithinLimit(field, value, day)'
<1>1. IsFiniteSet(Id)
  BY FS_Interval, BoundAssumption DEF Id
<1>2. PostsOf(field, value, day)' \in SUBSET Id /\ Heading(field, value, day)' \in SUBSET Req
  BY DEF PostsOf, Stored, Heading
<1>3. /\ Cardinality(PostsOf(field, value, day)') \in Nat /\ Cardinality(Req) \in Nat
      /\ Cardinality(Heading(field, value, day)') \in Nat
      /\ Cardinality(Heading(field, value, day)') <= Cardinality(Req)
  BY <1>1, <1>2, FS_Subset, FS_CardinalityType, RequestsAssumption
<1> QED  BY <1>3, Limits DEF WithinLimit
\* One request goes on or ends, the posts are as they were: unless it passes a
\* count of the day it heads for, nothing heads for a day that did not.
LEMMA OneHeads ==
    ASSUME NEW r \in Req, NEW q, DOMAIN req = Req, req' = [req EXCEPT ![r] = q], today' = today,
           NEW field \in Fields, NEW value, NEW day, WithinLimit(field, value, day),
           PostsOf(field, value, day)' = PostsOf(field, value, day),
           Heads(q, field, value, day, today) =>
               \/ Heads(req[r], field, value, day, today)
               \/ Cardinality(PostsOf(field, value, day)) < Limit(field)
    PROVE  WithinLimit(field, value, day)'
<1>1. req'[r] = q /\ \A p \in Req \ {r} : req'[p] = req[p]
  OBVIOUS
<1>2. CASE Heads(q, field, value, day, today) => Heads(req[r], field, value, day, today)
  <2>1. Heading(field, value, day)' \subseteq Heading(field, value, day)
    BY <1>1, <1>2 DEF Heading
  <2> QED  BY <2>1, FewerFit
<1>3. CASE Cardinality(PostsOf(field, value, day)) < Limit(field)
  BY <1>3, AllMayHead
<1> QED  BY <1>2, <1>3

\* Requests that end, or were neither counting nor storing.
LEMMA IdleHeadsNowhere ==
    \A field, value, day, now :
        /\ ~Heads(Idle, field, value, day, now)
        /\ \A q : q.at \in {"mail", "status"} => ~Heads(q, field, value, day, now)
BY DEF Heads, Idle

\* The posts of a day are those of its rows.
LEMMA SamePosts ==
    ASSUME rows' = rows
    PROVE  \A field, value, day : PostsOf(field, value, day)' = PostsOf(field, value, day)
BY DEF PostsOf, Stored

LEMMA BeginWithin == ASSUME FeedbackInv, LimitInv, NEW r \in Req, Begin(r) PROVE LimitInv'
<1>1. PICK c \in Client \cup {NoClient}, ip \in Ip :
        req' = [req EXCEPT ![r] =
                  [Idle EXCEPT !.at = IF c = NoClient THEN "count_ip" ELSE "count_client",
                               !.client = c, !.day = today, !.ip = ip]]
  BY DEF Begin
<1> DEFINE label == IF c = NoClient THEN "count_ip" ELSE "count_client"
           q == [Idle EXCEPT !.at = label, !.client = c, !.day = today, !.ip = ip]
<1>2. /\ q.at \in {"count_ip", "count_client"} /\ (q.at = "count_ip" => q.client = NoClient)
      /\ q.day = today
  <2>1. q.at = label /\ q.client = c /\ q.day = today
    <3> HIDE DEF label
    <3> QED  BY DEF Idle
  <2> QED  BY <2>1
<1>3. UNCHANGED <<today, rows>> /\ DOMAIN req = Req /\ req' = [req EXCEPT ![r] = q]
  BY <1>1 DEF Begin, FeedbackInv, RequestsOK
<1> HIDE DEF q
<1>4. ASSUME NEW field \in Fields, NEW day \in Day, NEW value \in Values(field)
      PROVE  ~Heads(q, field, value, day, today)
  BY <1>2, NobodyAssumption DEF Heads, Fields, Values
<1> QED  BY <1>3, <1>4, SamePosts, OneHeads DEF LimitInv

\* A count of today that is passed leaves room; one of the day before says
\* nothing, but its request headed for today already.
LEMMA CountWithin ==
    ASSUME FeedbackInv, LimitInv, NEW r \in Req, CountClient(r) \/ CountIp(r) PROVE LimitInv'
<1>1. UNCHANGED <<today, rows>> /\ DOMAIN req = Req /\ Request(req[r], today)
  BY DEF CountClient, CountIp, FeedbackInv, RequestsOK
<1>2. CASE End(r)
  BY <1>1, <1>2, SamePosts, OneHeads, IdleHeadsNowhere DEF LimitInv, End
<1>3. CASE CountClient(r) /\ ~Reached(CountOf("client", req[r].client, req[r].day), ClientLimit)
  <2> DEFINE q == [req[r] EXCEPT !.at = "count_ip"]
  <2>1. /\ req[r].at = "count_client" /\ req' = [req EXCEPT ![r] = q]
        /\ q.at = "count_ip" /\ q.client = req[r].client /\ q.ip = req[r].ip /\ q.day = req[r].day
    BY <1>1, <1>3 DEF CountClient, At, Request
  <2>2. Cardinality(PostsOf("client", req[r].client, req[r].day)) < ClientLimit
    <3>1. CountOf("client", req[r].client, req[r].day) = Cardinality(PostsOf("client", req[r].client, req[r].day))
      BY DEF CountOf, PostsOf
    <3> QED  BY <1>3, <3>1, Counts, LimitAssumption DEF Reached
  <2> HIDE DEF q
  <2>3. ASSUME NEW field \in Fields, NEW day \in Day, NEW value \in Values(field),
               Heads(q, field, value, day, today)
        PROVE  \/ Heads(req[r], field, value, day, today)
               \/ Cardinality(PostsOf(field, value, day)) < Limit(field)
    <3>1. day = today /\ (field = "client" \/ q.day # today)
      BY <2>1, <2>3 DEF Heads
    <3>2. CASE q.day # today
      BY <2>1, <2>3, <3>1, <3>2 DEF Heads, Fields
    <3>3. CASE q.day = today
      <4>1. field = "client" /\ value = req[r].client /\ day = req[r].day
        BY <2>1, <2>3, <3>1, <3>3 DEF Heads
      <4> QED  BY <2>2, <4>1 DEF Limit
    <3> QED  BY <3>2, <3>3
  <2> QED  BY <1>1, <2>1, <2>3, SamePosts, OneHeads DEF LimitInv
<1>4. CASE CountIp(r) /\ ~Reached(CountOf("ip", req[r].ip, req[r].day), IpLimit)
  <2> DEFINE q == [req[r] EXCEPT !.at = "insert", !.day = today]
  <2>1. /\ req[r].at = "count_ip" /\ req' = [req EXCEPT ![r] = q]
        /\ q.at = "insert" /\ q.client = req[r].client /\ q.ip = req[r].ip /\ q.day = today
    BY <1>1, <1>4 DEF CountIp, At, Request
  <2>2. Cardinality(PostsOf("ip", req[r].ip, req[r].day)) < IpLimit
    <3>1. CountOf("ip", req[r].ip, req[r].day) = Cardinality(PostsOf("ip", req[r].ip, req[r].day))
      BY DEF CountOf, PostsOf
    <3> QED  BY <1>4, <3>1, Counts, LimitAssumption DEF Reached
  <2> HIDE DEF q
  <2>3. ASSUME NEW field \in Fields, NEW day \in Day, NEW value \in Values(field),
               Heads(q, field, value, day, today)
        PROVE  \/ Heads(req[r], field, value, day, today)
               \/ Cardinality(PostsOf(field, value, day)) < Limit(field)
    <3>1. day = today
      BY <2>1, <2>3 DEF Heads
    <3>2. CASE field = "client" \/ req[r].day # today
      BY <2>1, <2>3, <3>1, <3>2 DEF Heads, Fields
    <3>3. CASE field = "ip" /\ req[r].day = today
      <4>1. value = req[r].ip /\ day = req[r].day
        BY <2>1, <2>3, <3>1, <3>3 DEF Heads
      <4> QED  BY <2>2, <3>3, <4>1 DEF Limit
    <3> QED  BY <3>2, <3>3 DEF Fields
  <2> QED  BY <1>1, <2>1, <2>3, SamePosts, OneHeads DEF LimitInv
<1> QED  BY <1>2, <1>3, <1>4 DEF CountClient, CountIp

\* A post that is stored is one that headed for its day.
LEMMA InsertWithin == ASSUME FeedbackInv, LimitInv, NEW r \in Req, Insert(r) PROVE LimitInv'
<1> DEFINE q == [Idle EXCEPT !.at = "mail", !.id = NewId]
<1>1. /\ NewId \in Id \ Stored /\ req[r].at = "insert" /\ DOMAIN req = Req
      /\ rows' = [rows EXCEPT ![NewId] = RowOf(r)] /\ rows \in [Id -> Row \cup {NoRow}]
      /\ req' = [req EXCEPT ![r] = q] /\ q.at = "mail" /\ today' = today
  BY DEF Insert, At, NewId, Stored, FeedbackInv, RowsOK, RequestsOK, Idle
<1>2. RowOf(r) # NoRow /\ RowOf(r).client = req[r].client /\ RowOf(r).ip = req[r].ip /\ RowOf(r).day = req[r].day
  <2>1. RowOf(r) \in Row
    BY <1>1, Bounds DEF FeedbackInv, RequestsOK, Request, RowOf, Row, Status, Counting, Day
  <2> QED  BY <2>1, RowIsStored DEF RowOf
<1> HIDE DEF q
<1>3. Stored' = Stored \cup {NewId}
  BY <1>1, <1>2 DEF Stored
<1>4. ASSUME NEW field \in Fields, NEW day \in Day, NEW value \in Values(field)
      PROVE  WithinLimit(field, value, day)'
  <2>0. WithinLimit(field, value, day)
    BY DEF LimitInv
  <2>1. Heading(field, value, day)' = Heading(field, value, day) \ {r}
    <3>1. req'[r] = q /\ \A p \in Req \ {r} : req'[p] = req[p]
      BY <1>1
    <3>2. ~Heads(q, field, value, day, today)
      BY <1>1, IdleHeadsNowhere
    <3>3. Heading(field, value, day)' = {p \in Req : Heads(req'[p], field, value, day, today)}
      BY <1>1 DEF Heading
    <3> QED  BY <3>1, <3>2, <3>3 DEF Heading
  <2>2. CASE RowOf(r)[field] = value /\ RowOf(r).day = day
    <3>1. PostsOf(field, value, day)' = PostsOf(field, value, day) \cup {NewId}
      BY <1>1, <1>3, <2>2 DEF PostsOf, Stored
    <3>2. NewId \notin PostsOf(field, value, day)
      BY <1>1 DEF PostsOf
    <3>3. r \in Heading(field, value, day)
      BY <1>1, <1>2, <2>2 DEF Heading, Heads, Fields
    <3>4. Cardinality(PostsOf(field, value, day)') = Cardinality(PostsOf(field, value, day)) + 1
      BY <3>1, <3>2, Counts, FS_AddElement
    <3>5. Cardinality(Heading(field, value, day)') = Cardinality(Heading(field, value, day)) - 1
      BY <2>1, <3>3, Counts, FS_RemoveElement
    <3>6. /\ Cardinality(PostsOf(field, value, day)) \in Nat
          /\ Cardinality(Heading(field, value, day)) \in Nat
          /\ Limit(field) \in Nat /\ Cardinality(Req) \in Nat
      BY Counts, Limits
    <3>7. Cardinality(PostsOf(field, value, day)') + Cardinality(Heading(field, value, day)')
            <= Limit(field) + Cardinality(Req) - 1
      BY <2>0, <3>4, <3>5, <3>6 DEF WithinLimit
    <3> QED  BY <3>7 DEF WithinLimit, Limit
  <2>3. CASE ~(RowOf(r)[field] = value /\ RowOf(r).day = day)
    <3>1. PostsOf(field, value, day)' = PostsOf(field, value, day)
      BY <1>1, <1>3, <2>3 DEF PostsOf, Stored
    <3> QED  BY <2>0, <2>1, <3>1, FewerFit
  <2> QED  BY <2>2, <2>3
<1> QED  BY <1>4 DEF LimitInv

\* The mail, the status, what is cut off: no post and no count.
LEMMA RestWithin ==
    ASSUME FeedbackInv, LimitInv,
           Restart \/ \E r \in Req : Mail(r) \/ SetStatus(r) \/ Refuse(r)
    PROVE  LimitInv'
<1>1. today' = today /\ DOMAIN req = Req /\ rows \in [Id -> Row \cup {NoRow}]
  BY DEF Restart, Mail, SetStatus, Refuse, FeedbackInv, RequestsOK, RowsOK
<1>2. \A field \in Fields : \A value, day :
        PostsOf(field, value, day)' = PostsOf(field, value, day)
  <2>1. CASE rows' = rows
    BY <2>1, SamePosts
  <2>2. ASSUME NEW r \in Req, SetStatus(r)
        PROVE  \A field \in Fields : \A value, day :
                  PostsOf(field, value, day)' = PostsOf(field, value, day)
    <3> DEFINE id == req[r].id
    <3>1. id \in Stored
      BY <2>2 DEF SetStatus, At, FeedbackInv, RequestsOK, Stands
    <3>2. id \in Id /\ rows[id] \in Row
      BY <1>1, <3>1 DEF Stored
    <3>3. PICK status \in Status : rows' = [rows EXCEPT ![id] = [rows[id] EXCEPT !.status = status]]
      BY <2>2, <1>1, <3>2 DEF SetStatus, Status
    <3>4. /\ rows'[id] = [rows[id] EXCEPT !.status = status]
          /\ \A other \in Id \ {id} : rows'[other] = rows[other]
      BY <1>1, <3>2, <3>3
    <3>5. /\ rows'[id] \in Row /\ rows'[id].day = rows[id].day
          /\ rows'[id].client = rows[id].client /\ rows'[id].ip = rows[id].ip
      BY <3>2, <3>4 DEF Row
    <3>6. Stored' = Stored
      BY <3>1, <3>2, <3>4, <3>5, RowIsStored DEF Stored
    <3>7. \A other \in Stored : rows'[other].day = rows[other].day
            /\ \A field \in Fields : rows'[other][field] = rows[other][field]
      BY <3>4, <3>5 DEF Fields, Stored
    <3> QED  BY <3>6, <3>7 DEF PostsOf
  <2> QED  BY <2>1, <2>2 DEF Restart, Mail, Refuse
<1>3. CASE Restart
  <2>1. \A field, value, day : Heading(field, value, day)' = {}
    BY <1>3, IdleHeadsNowhere DEF Restart, Heading
  <2> QED  BY <1>2, <2>1, FewerFit DEF LimitInv
<1>4. ASSUME NEW r \in Req, Mail(r) PROVE LimitInv'
  <2>1. PICK error \in {"none", "smtp", "other"} : Caught(r, error = "none", error)
    BY <1>4 DEF Mail
  <2> DEFINE q == [req[r] EXCEPT !.at = "status", !.sent = (error = "none")]
  <2>2. q.at = "status"
    BY DEF FeedbackInv, RequestsOK, Request
  <2>3. req' = [req EXCEPT ![r] = q]
    BY <2>1 DEF Caught, FeedbackInv, RequestsOK
  <2> HIDE DEF q
  <2>4. \A field, value, day : ~Heads(q, field, value, day, today)
    BY <2>2 DEF Heads
  <2> QED  BY <1>1, <1>2, <2>3, <2>4, OneHeads DEF LimitInv
<1>5. ASSUME NEW r \in Req, End(r) PROVE LimitInv'
  BY <1>1, <1>2, <1>5, OneHeads, IdleHeadsNowhere DEF LimitInv, End
<1> QED  BY <1>3, <1>4, <1>5 DEF SetStatus, Refuse

\* The new day has no posts, and what headed for the old one has stored its
\* post or will: nothing else heads for it.
LEMMA NewDayWithin == ASSUME FeedbackInv, LimitInv, NewDay PROVE LimitInv'
<1>1. today' = today + 1 /\ UNCHANGED <<rows, req>> /\ today \in Nat
  BY Bounds DEF NewDay, FeedbackInv, Day
<1>2. ASSUME NEW field \in Fields, NEW day \in Day, NEW value \in Values(field)
      PROVE  WithinLimit(field, value, day)'
  <2>0. day \in Int
    BY Bounds DEF Day
  <2>1. CASE day <= today
    <3>1. Heading(field, value, day)' \subseteq Heading(field, value, day)
      BY <1>1, <2>0, <2>1 DEF Heading, Heads
    <3> QED  BY <1>1, <3>1, SamePosts, FewerFit DEF LimitInv
  <2>2. CASE today < day
    <3>1. PostsOf(field, value, day)' = {}
      <4>1. \A id \in Stored : rows[id].day # day
        BY <1>1, <2>0, <2>2, Bounds DEF FeedbackInv, RowsOK, Row, Day, Stored
      <4> QED  BY <1>1, <4>1 DEF PostsOf, Stored
    <3>2. Cardinality(PostsOf(field, value, day)') < Limit(field)
      BY <3>1, FS_EmptySet, Limits
    <3> QED  BY <3>2, AllMayHead
  <2> QED  BY <1>1, <2>0, <2>1, <2>2
<1> QED  BY <1>2 DEF LimitInv

\* However many requests count at once, and whatever midnight does between a
\* count and its post: a device and an address are never over their limit of
\* a day by as many posts as there are requests.
THEOREM LimitsHold == Spec => []DailyLimits
<1>1. Init => LimitInv
  <2> SUFFICES ASSUME Init, NEW field \in Fields, NEW value, NEW day PROVE WithinLimit(field, value, day)
    BY DEF LimitInv
  <2>1. PostsOf(field, value, day) = {} /\ Heading(field, value, day) = {}
    BY IdleHeadsNowhere DEF Init, PostsOf, Stored, Heading
  <2> QED  BY <2>1, FS_EmptySet, Counts, Limits DEF WithinLimit
<1>2. FeedbackInv /\ LimitInv /\ [Next]_vars => LimitInv'
  <2>1. ASSUME LimitInv, UNCHANGED vars PROVE LimitInv'
    BY <2>1 DEF vars, LimitInv, WithinLimit, PostsOf, Stored, Heading
  <2> QED
    BY <2>1, BeginWithin, CountWithin, InsertWithin, RestWithin, NewDayWithin DEF Next, Step
<1>3. LimitInv => DailyLimits
  <2> SUFFICES ASSUME NEW field \in Fields, NEW day \in Day, NEW value \in Values(field),
                      WithinLimit(field, value, day)
               PROVE  CountOf(field, value, day) <= Limit(field) + Cardinality(Req) - 1
    BY DEF LimitInv, DailyLimits, Fields, Values, Limit
  <2>1. CountOf(field, value, day) = Cardinality(PostsOf(field, value, day))
    BY DEF CountOf, PostsOf
  <2> QED  BY <2>1, Counts, Limits DEF WithinLimit
<1> QED  BY <1>1, <1>2, <1>3, FeedbackAlways, PTL DEF Spec
=============================================================================
