---------------------------- MODULE MCFeedback ----------------------------
(* Model checking Feedback: its constants are model values and numbers. *)
EXTENDS Feedback
=============================================================================
