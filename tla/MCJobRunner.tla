---------------------------- MODULE MCJobRunner ----------------------------
(* j1 is a structure extraction, j2 and j3 are jobs of any other type.     *)
EXTENDS JobRunner

CONSTANTS j1, j2, j3, e1, e2
=============================================================================
