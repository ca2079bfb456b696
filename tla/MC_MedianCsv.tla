---------------------------- MODULE MC_MedianCsv ----------------------------
(* Test cases 1 and 3 of one target and queue size.                        *)
EXTENDS MedianCsv

MCConfigs == <<1, 3>>

MCValues == [cycles |-> {1, 2, 4}, instructions |-> {4}, misses |-> {1}, ns |-> {3}]
=============================================================================
