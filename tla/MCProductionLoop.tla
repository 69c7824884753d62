--------------------------- MODULE MCProductionLoop ---------------------------
(***************************************************************************)
(* An instance of ProductionLoop: a plan of two items, two reviewers, two  *)
(* runs, and an agent loop of three iterations that the model may replace  *)
(* once.                                                                   *)
(***************************************************************************)
EXTENDS ProductionLoop

CONSTANTS item1, item2, reviewer1, reviewer2

MCItems == {item1, item2}

MCReviewers == {reviewer1, reviewer2}

=============================================================================
