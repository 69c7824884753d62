---------------------------- MODULE MCScheduledRuns ----------------------------
(***************************************************************************)
(* An instance of ScheduledRuns: three boundaries, two of which fit in one  *)
(* gap, a window shorter than the period, and a manual start.              *)
(***************************************************************************)
EXTENDS ScheduledRuns

CONSTANT manual1

MCManual == {manual1}

=============================================================================
