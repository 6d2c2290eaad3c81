---------------------------- MODULE MCTimeSeries ----------------------------
(***************************************************************************)
(* One variable is enough for what depends on the history, which each has  *)
(* for itself; a frame that leaves it out stands for a selection.  Two     *)
(* variables are needed when the decoder knows only one of them.           *)
(***************************************************************************)
EXTENDS TimeSeries

MCOneVar == {"v"}
MCTwoVars == {"v", "w"}
MCAllTypes == {"SNAPSHOT", "TEMPORAL", "PERIO"}
MCPerioOnly == {"PERIO"}
=============================================================================
