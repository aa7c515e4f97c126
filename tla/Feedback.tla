------------------------------- MODULE Feedback -------------------------------
(***************************************************************************)
(* POST /v1/feedback: a post passes two daily limits, is stored, is mailed *)
(* by a thread, and its row then says whether the mail was sent.           *)
(*                                                                         *)
(* Posts run at once: each statement, commit and mail is a step.  The      *)
(* database may refuse a commit and the API may restart at any of them.    *)
(***************************************************************************)
EXTENDS Integers, FiniteSets

CONSTANTS
    Req,            \* requests that may run at once
    Client,         \* user_device_id
    NoClient,       \* the field is optional
    Ip,             \* what get_client_ip names: an address or "unknown"
    MaxRows,        \* bound: posts that are stored
    ClientLimit,    \* feedback_daily_limit_per_client_id: 6
    IpLimit,        \* feedback_daily_limit_per_ip: 18
    LastDay,        \* bound: the last day of the model
    MaxFaults       \* bound: restarts and refused commits

Day == 1..LastDay
Id == 1..MaxRows            \* a row's UUID is new: here, the next one that is free

ASSUME NobodyAssumption == NoClient \notin Client
ASSUME LimitAssumption == ClientLimit \in Nat \ {0} /\ IpLimit \in Nat \ {0}
ASSUME RequestsAssumption == IsFiniteSet(Req)
ASSUME BoundAssumption == LastDay \in Nat \ {0} /\ MaxFaults \in Nat /\ MaxRows \in Nat

VARIABLES
    today,          \* the day in Singapore
    rows,           \* the feedback table: id -> row
    req,            \* req[r]: a request
    mailed,         \* ids whose mail the SMTP server took
    raised,         \* ids whose send_feedback raised (history)
    interrupted,    \* ids whose request did not end (history)
    faults

vars == <<today, rows, req, mailed, raised, interrupted, faults>>

NoRow == [status |-> "none"]
Idle == [at |-> "idle", client |-> NoClient, ip |-> NoClient, day |-> 0, id |-> 0, sent |-> FALSE]

At(r, label) == req[r].at = label

End(r) == req' = [req EXCEPT ![r] = Idle]

Stored == {id \in Id : rows[id] # NoRow}

-----------------------------------------------------------------------------
(* create_feedback. *)

\* The day is taken once for both limits.
Begin(r) ==
    /\ At(r, "idle")
    /\ Cardinality(Stored) + Cardinality({q \in Req : ~At(q, "idle")}) < MaxRows
    /\ \E c \in Client \cup {NoClient}, ip \in Ip :
        req' = [req EXCEPT ![r] =
                  [Idle EXCEPT !.at = IF c = NoClient THEN "count_ip" ELSE "count_client",
                               !.client = c, !.day = today,
                               !.ip = ip]]
    /\ UNCHANGED <<today, rows, mailed, raised, interrupted, faults>>

CountOf(field, value, day) ==
    Cardinality({id \in Stored : rows[id][field] = value /\ rows[id].day = day})

\* Mutant: one more than the limit passes.
ExceedsLimit(count, limit) == count > limit
Reached(count, limit) == count >= limit

\* Two statements, each with a snapshot of its own.  The answer to a post over
\* a limit is 429.
CountClient(r) ==
    /\ At(r, "count_client")
    /\ IF Reached(CountOf("client", req[r].client, req[r].day), ClientLimit) THEN End(r)
       ELSE req' = [req EXCEPT ![r].at = "count_ip"]
    /\ UNCHANGED <<today, rows, mailed, raised, interrupted, faults>>

\* created_at is taken when both counts are known.
CountIp(r) ==
    /\ At(r, "count_ip")
    /\ IF Reached(CountOf("ip", req[r].ip, req[r].day), IpLimit) THEN End(r)
       ELSE req' = [req EXCEPT ![r].at = "insert", ![r].day = today]
    /\ UNCHANGED <<today, rows, mailed, raised, interrupted, faults>>

\* Mutant: the row expects the mail to be sent.
RowOfSent(r) == [client |-> req[r].client, ip |-> req[r].ip, day |-> req[r].day, status |-> "sent"]
RowOf(r) == [client |-> req[r].client, ip |-> req[r].ip, day |-> req[r].day, status |-> "pending"]

NewId == CHOOSE id \in Id : id \notin Stored

\* The row is committed before the mail is tried.
Insert(r) ==
    /\ At(r, "insert")
    /\ Stored # Id
    /\ rows' = [rows EXCEPT ![NewId] = RowOf(r)]
    /\ req' = [req EXCEPT ![r] = [Idle EXCEPT !.at = "mail", !.id = NewId]]
    /\ UNCHANGED <<today, mailed, raised, interrupted, faults>>

\* Mutant: a mail whose call raised is sent again.
CaughtAndRepeated(r, sent, error) ==
    req' = IF sent THEN [req EXCEPT ![r].at = "status", ![r].sent = TRUE] ELSE req
\* Mutant: only the errors of SMTP are caught.
CaughtOnly(r, sent, error) ==
    req' = IF error = "other" THEN [req EXCEPT ![r] = Idle]
           ELSE [req EXCEPT ![r].at = "status", ![r].sent = sent]
Caught(r, sent, error) == req' = [req EXCEPT ![r].at = "status", ![r].sent = sent]

\* send_feedback, in a thread.  The server may take the mail and the call still
\* raise (the answer to QUIT).  Every exception is caught: no configuration, a
\* header that cannot be built, an error of the network, a timeout.
Mail(r) ==
    /\ At(r, "mail")
    /\ \E taken \in BOOLEAN, error \in {"none", "smtp", "other"} :
        /\ error = "none" => taken
        /\ error = "other" => ~taken
        /\ mailed' = IF taken THEN mailed \cup {req[r].id} ELSE mailed
        /\ raised' = IF error = "none" THEN raised ELSE raised \cup {req[r].id}
        /\ Caught(r, error = "none", error)
    /\ UNCHANGED <<today, rows, interrupted, faults>>

SetStatus(r) ==
    /\ At(r, "status")
    /\ rows' = [rows EXCEPT ![req[r].id].status = IF req[r].sent THEN "sent" ELSE "failed"]
    /\ End(r)
    /\ UNCHANGED <<today, mailed, raised, interrupted, faults>>

Step(r) ==
    CountClient(r) \/ CountIp(r) \/ Insert(r) \/ Mail(r) \/ SetStatus(r)

-----------------------------------------------------------------------------
(* Faults and time. *)

Open(r) == IF req[r].id = 0 THEN {} ELSE {req[r].id}

\* A statement or commit raises, or the refresh of the new row before its mail:
\* the answer is 500.
Refuse(r) ==
    /\ req[r].at \in {"count_client", "count_ip", "insert", "mail", "status"}
    /\ faults < MaxFaults
    /\ faults' = faults + 1
    /\ interrupted' = interrupted \cup Open(r)
    /\ End(r)
    /\ UNCHANGED <<today, rows, mailed, raised>>

\* The API restarts; a mail under way may have been taken.
Restart ==
    /\ \E r \in Req : ~At(r, "idle")
    /\ faults < MaxFaults
    /\ faults' = faults + 1
    /\ interrupted' = interrupted \cup UNION {Open(r) : r \in Req}
    /\ \E taken \in SUBSET {req[r].id : r \in {r \in Req : At(r, "mail")}} :
          mailed' = mailed \cup taken
    /\ req' = [r \in Req |-> Idle]
    /\ UNCHANGED <<today, rows, raised>>

\* Midnight; counting takes less than a day.
NewDay ==
    /\ today < LastDay
    /\ \A r \in Req : req[r].day \in {0, today}
    /\ today' = today + 1
    /\ UNCHANGED <<rows, req, mailed, raised, interrupted, faults>>

Init ==
    /\ today = 1
    /\ rows = [id \in Id |-> NoRow]
    /\ req = [r \in Req |-> Idle]
    /\ mailed = {}
    /\ raised = {}
    /\ interrupted = {}
    /\ faults = 0

Next ==
    \/ \E r \in Req : Begin(r) \/ Step(r) \/ Refuse(r)
    \/ Restart
    \/ NewDay

\* The event loop runs every request, and the SMTP client gives up after its
\* timeout of 10 s.
Fairness == \A r \in Req : WF_vars(Step(r))

Spec == Init /\ [][Next]_vars /\ Fairness

-----------------------------------------------------------------------------
(* Properties. *)

Status == {"pending", "sent", "failed"}

\* A request that is not open holds nothing, and one that mails has a row.
TypeOK ==
    /\ today \in Day
    /\ \A id \in Stored :
        /\ rows[id].client \in Client \cup {NoClient} /\ rows[id].ip \in Ip
        /\ rows[id].day \in 1..today /\ rows[id].status \in Status
    /\ \A r \in Req :
        /\ At(r, "idle") => req[r] = Idle
        /\ req[r].at \in {"mail", "status"} => req[r].id \in Stored
    /\ mailed \subseteq Id /\ raised \subseteq Id /\ interrupted \subseteq Id
    /\ faults \in 0..MaxFaults

\* The daily limits: posts that run at once may pass a count together, so a
\* limit is exceeded by at most the requests that can run besides one, whatever
\* midnight does between the count and created_at.
DailyLimits ==
    \A day \in Day :
        /\ \A c \in Client : CountOf("client", c, day) <= ClientLimit + Cardinality(Req) - 1
        /\ \A ip \in Ip : CountOf("ip", ip, day) <= IpLimit + Cardinality(Req) - 1

\* FRONTEND_HANDOFF: "backend stores the feedback even if email forwarding
\* fails".  No mail is about a post that is not in the table, and a row says
\* "sent" only of a mail that was taken.  A mail that was taken while its row
\* says anything else is one whose call raised all the same, or whose request
\* was cut off, or is just about to set the status.
StoredBeforeMailed ==
    /\ mailed \subseteq Stored
    /\ \A id \in Stored : rows[id].status = "sent" => id \in mailed
    /\ \A id \in mailed :
        \/ rows[id].status = "sent"
        \/ id \in raised \cup interrupted
        \/ \E r \in Req : At(r, "status") /\ req[r].id = id

\* A row changes once, in its status, from "pending" to the outcome of the mail,
\* and no post is mailed again that was taken before: requests that run at once
\* never work on one row, and nothing is sent twice.
StatusIsSetOnce ==
    [][/\ \A id \in Stored : rows'[id] # rows[id] =>
            /\ rows[id].status = "pending"
            /\ \E status \in {"sent", "failed"} : rows'[id] = [rows[id] EXCEPT !.status = status]
       /\ \A r \in Req : Mail(r) => req[r].id \notin mailed]_vars

\* README: "response includes `email_status`", `sent` or `failed`.  A stored
\* post gets one of the two, unless its request was cut off; nobody looks at
\* "pending" rows again.
StatusIsFinal ==
    \A id \in Id :
        id \in Stored /\ rows[id].status = "pending"
            ~> rows[id].status # "pending" \/ id \in interrupted
=============================================================================
