------------------------------ MODULE MCPlanar ------------------------------
(* Gray pictures of up to three rows and columns with and without padding,   *)
(* and chroma planes of one to three pairs in a row and one or two rows;     *)
(* three lanes, fewer, as many and more than there are columns.              *)
EXTENDS Picture

Format(k, w, h, padding) == [kind |-> k, width |-> w, height |-> h, stride |-> w + padding]

MCFormats ==
  {Format("Gray8", w, h, p) : w \in 1 .. 3, h \in 1 .. 3, p \in {0, 2}}
    \cup {Format(k, w, h, 0) : k \in {"NV12", "NV21"}, w \in {2, 4, 6}, h \in {2, 4}}
=============================================================================
