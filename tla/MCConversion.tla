---------------------------- MODULE MCConversion ----------------------------
(* Every kind on small pictures: the smallest testIBuffer accepts, one of    *)
(* two groups of columns, and strides with padding at the end of a row.      *)
EXTENDS Conversion

Format(k, w, h, padding) ==
  [kind |-> k, width |-> w, height |-> h, stride |-> ValidWidth(k, w) + padding]

MosaicFormats == {Format(k, 4, 4, p) : k \in Mosaic, p \in {0, 1}}
ColourFormats == {Format(k, 2, h, p) : k \in Colour, h \in {1, 2}, p \in {0, 3}}
MCFormats == MosaicFormats \cup ColourFormats \cup {Format(k, 8, 2, 0) : k \in {"MIPI10", "MIPI12"}}
=============================================================================
