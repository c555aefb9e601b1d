----------------------------- MODULE MCSettings -----------------------------
(* Two programs on one file; sizes and names a hundredth of real ones.       *)
EXTENDS Settings, TLC

CONSTANTS p, q

Either == Permutations({p, q})

MCTypes == <<[name |-> "Bayer16", num |-> 2, den |-> 1], [name |-> "Gray8", num |-> 1, den |-> 1],
             [name |-> "MIPI10", num |-> 5, den |-> 4], [name |-> "RGB8", num |-> 3, den |-> 1],
             [name |-> "YUV420SP", num |-> 3, den |-> 2]>>

Known3(h, w, s, n) == [height |-> h, width |-> w, stride |-> s, weight |-> n]

MCShipped ==
  [PATH    |-> <<"home">>,
   FORMAT  |-> <<<<Known3(16, 20, 20, 1), Known3(10, 12, 12, 2)>>>>,
   FILTER  |-> <<"*.raw">>,
   VERSION |-> <<[current |-> 1, ignore |-> 0]>>]

Group(v) == [value |-> v, digits |-> 2]
File(ns, closed, size, suffix, raw) ==
  [numbers |-> [i \in DOMAIN ns |-> Group(ns[i])], closed |-> closed,
   size |-> size, suffix |-> suffix, raw |-> raw]

\* A known size in the other order behind one that fits better; a pair broken by a
\* zero and two that fit; a pair that ends the name; a picture.
MCFiles ==
  {File(<<8, 14, 20, 16>>, TRUE, 112, "none", TRUE),
   File(<<6, 0, 8, 10, 12>>, TRUE, 120, "none", TRUE),
   File(<<12, 8, 6, 4>>, TRUE, 96, "none", TRUE),
   File(<<10, 12>>, FALSE, 240, "YUV420SP", TRUE),
   File(<<>>, TRUE, 50, "none", FALSE)}

MCEdits == {[height |-> 1, width |-> 4, stride |-> 4, type |-> "Gray8"]}
=============================================================================
