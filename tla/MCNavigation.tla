---------------------------- MODULE MCNavigation ----------------------------
(* Three files the filter passes, one of them no picture, and one it hides; a *)
(* directory below that of the files.                                        *)
EXTENDS Navigation

CONSTANTS home, sub

MCFiles == 1 .. 4
MCParent == [d \in {home, sub} |-> home]
=============================================================================
