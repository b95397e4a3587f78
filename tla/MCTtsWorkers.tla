---------------------------- MODULE MCTtsWorkers ----------------------------
(***************************************************************************)
(* Two threads that render and one that saves the settings.  One worker    *)
(* whose pool fills up, two whose turns come round again, and settings     *)
(* saved while both are in use.                                            *)
(***************************************************************************)
EXTENDS TtsWorkers

Engine(workers, calls, saves, faults) ==
  [workers |-> workers, calls |-> calls, saves |-> saves, faults |-> faults]
MCEngines == {Engine(1, 2, 1, 1), Engine(2, 3, 0, 1), Engine(2, 2, 1, 0)}
=============================================================================
