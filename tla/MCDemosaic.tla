----------------------------- MODULE MCDemosaic -----------------------------
(* Every pattern and both modes on the smallest pictures in which a lane has *)
(* two columns or two rows to fill.                                          *)
EXTENDS Demosaic

Format(p, w, h, b) == [pattern |-> p, width |-> w, height |-> h, bayer |-> b]

MCFormats ==
  {Format(p, 4, 4, b) : p \in Patterns, b \in BOOLEAN}
    \cup {Format(p, 6, 4, FALSE) : p \in Patterns}
    \cup {Format("RGGB", 4, 6, b) : b \in BOOLEAN}
=============================================================================
