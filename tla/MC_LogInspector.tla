-------------------------- MODULE MC_LogInspector --------------------------
(* Model-checking instance of LogInspector: the logs of MC_LogShortTime    *)
(* (a 3-bit counter) downloaded by up to two overlapping requests.        *)
EXTENDS LogInspector, TLC

MCPathNames == {"a", "b", "data"}
(* Index 0 names "a"; index 7 is missing from the dictionary.             *)
MCDict == 0 :> "a"
MCPathIds == {0, 7}
MCShortPaths == {"a", "data"}
(* Gaps below, near and beyond the period of 8.                            *)
MCDtSteps == {1, 5, 9}
=============================================================================
