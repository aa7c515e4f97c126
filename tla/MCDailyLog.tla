---------------------------- MODULE MCDailyLog ----------------------------
(* Model checking DailyLog: all its constants are numbers. *)
EXTENDS DailyLog
=============================================================================
