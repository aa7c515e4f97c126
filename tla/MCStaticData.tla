---------------------------- MODULE MCStaticData ----------------------------
(* Constants for model checking StaticData. *)
EXTENDS StaticData

MCStopOf == [r \in {"r1", "r2"} |-> IF r = "r1" THEN "a" ELSE "b"]

Rows(keys, value) == [k \in keys |-> value]

\* A stop comes with a route in the second edition, and goes if LTA goes back.
NewStops ==
    <<[stops |-> Rows({"a"}, 1), routes |-> Rows({"r1"}, 1), services |-> Rows({"v"}, 1)],
      [stops |-> Rows({"a", "b"}, 1), routes |-> Rows({"r1", "r2"}, 2), services |-> Rows({"v"}, 2)]>>

\* Editions that list the same stops: values change, a route comes.
SameStops ==
    <<[stops |-> Rows({"a", "b"}, 1), routes |-> Rows({"r1"}, 1), services |-> Rows({"v"}, 1)],
      [stops |-> Rows({"a", "b"}, 1), routes |-> Rows({"r1", "r2"}, 2), services |-> Rows({"v"}, 1)]>>
=============================================================================
