---------------------------- MODULE MCRetention ----------------------------
(***************************************************************************)
(* The tracking of devices and the report made from the sets it leaves.    *)
(* The report reads its sets at once and is then on its own, so that in    *)
(* one behaviour there is one or the other.                                *)
(***************************************************************************)
EXTENDS Retention, Engagement, TLC

CONSTANTS FirstDate, LastDate
MCDates == FirstDate..LastDate

Symmetry == Permutations(Req) \cup Permutations(Platform)

VARIABLE scene

EmptyReport ==
    /\ range = [start |-> 1, end |-> 0]
    /\ activity = [d \in {} |-> {}]
    /\ weekly = EmptyBag /\ monthly = EmptyBag
    /\ cursor = 1
    /\ rows = [d \in {} |-> [dau |-> 0, wau |-> 0, mau |-> 0]]
    /\ members = {}
    /\ detail = NoDetail(1)

MCInit ==
    /\ Init
    /\ \/ scene = "tracking" /\ EmptyReport
       \/ scene = "report" /\ ReportInit

Tracking == scene = "tracking" /\ Next /\ UNCHANGED <<reportVars, scene>>
Report == scene = "report" /\ ReportStep /\ UNCHANGED <<vars, scene>>

MCSpec == MCInit /\ [][Tracking \/ Report]_<<vars, reportVars, scene>>
=============================================================================
