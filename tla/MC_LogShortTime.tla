-------------------------- MODULE MC_LogShortTime -------------------------
(* Model-checking instance of LogShortTime: a 3-bit counter (period 8).   *)
EXTENDS LogShortTime

MCPathNames == {"a", "b", "data"}
(* Index 0 names "a"; index 7 is missing from the dictionary.             *)
MCDict == 0 :> "a"
MCPathIds == {0, 7}
MCShortPaths == {"a", "data"}
(* Gaps below, near and beyond the period of 8.                            *)
MCDtSteps == {1, 5, 9}
=============================================================================
