------------------------- MODULE MCFailurePipeline -------------------------
(***************************************************************************)
(* Small instances of FailurePipeline for TLC.  m1 is a failure, which both*)
(* lives of the worker may come to process at once; m2 is an event that    *)
(* needs no correlation.  What the times of failures do to an incident is  *)
(* the business of the run of Evidence.                                    *)
(***************************************************************************)
EXTENDS FailurePipeline, TLC

CONSTANTS m1, m2, k1

FailureKeys == [m \in Messages |-> IF m = m1 THEN k1 ELSE Null]
Occurrences == [m \in Messages |-> 1]
=============================================================================
