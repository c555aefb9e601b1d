------------------------------- MODULE Guess -------------------------------
(***************************************************************************)
(* The format nyuv guesses for a raw file from its name, its size and the  *)
(* formats it knows: parse_filename and parse_type of                      *)
(* src/gui/autocomplete/autocomplete_utils.cpp, and the size score of the  *)
(* converters.  A name is the sequence of the numbers in it, each with its *)
(* count of digits; `closed` is FALSE when the name ends in a digit.       *)
(* A suffix is the type it resembles by more than 0.74, or "none".         *)
(***************************************************************************)
EXTENDS Naturals, Sequences, SequencesExt

CONSTANT Types   \* the source types in the order of their names: a sequence of
                 \* [name, num, den], the bytes a pixel takes being num / den

Least(a, b) == IF a < b THEN a ELSE b
Greatest(a, b) == IF a < b THEN b ELSE a
Apart(a, b) == Greatest(a, b) - Least(a, b)

-----------------------------------------------------------------------------
(* parse_filename *)

\* A number is stored when the first character after it is met, so the one that
\* ends the name never is.
Numbers(file) ==
  LET ended == IF file.closed THEN file.numbers ELSE Front(file.numbers)
      short == SelectSeq(ended, LAMBDA n : n.digits <= 6)
  IN  [i \in DOMAIN short |-> short[i].value]

\* One number: it begins a pair, completes one and begins the next, or, being
\* zero, ends what was begun.
Paired(acc, n) ==
  [first |-> n,
   pairs |-> IF n = 0 \/ acc.first = 0 THEN acc.pairs
             ELSE Append(acc.pairs, <<acc.first, n>>)]

Pairs(file) == FoldLeft(Paired, [first |-> 0, pairs |-> <<>>], Numbers(file)).pairs

\* check(): the format list has this height with this width.
Known(list, h, w) == \E i \in DOMAIN list : list[i].height = h /\ list[i].width = w

KnownSize(list, p) ==
  IF Known(list, p[1], p[2]) THEN <<p[1], p[2]>> ELSE <<p[2], p[1]>>

IsKnown(list, p) == Known(list, p[1], p[2]) \/ Known(list, p[2], p[1])

Plausible(p) ==
  /\ p[1] % 2 = 0 /\ p[2] % 2 = 0
  /\ 2 * Least(p[1], p[2]) >= Greatest(p[1], p[2])

\* Mutant: the distance of the best pair so far is not remembered.
NearerThanSize(file, best, p) ==
  IF Plausible(p) /\ file.size > Apart(p[1] * p[2], file.size)
  THEN [dis |-> best.dis, hw |-> <<Least(p[1], p[2]), Greatest(p[1], p[2])>>]
  ELSE best

\* One pair of the second loop; disSize starts at the size of the file.
Nearer(file, best, p) ==
  LET dis == Apart(p[1] * p[2], file.size)
  IN  IF Plausible(p) /\ best.dis > dis
      THEN [dis |-> dis, hw |-> <<Least(p[1], p[2]), Greatest(p[1], p[2])>>]
      ELSE best

Nearest(file, pairs) ==
  FoldLeft(LAMBDA best, p : Nearer(file, best, p), [dis |-> file.size, hw |-> <<>>], pairs).hw

\* <<height, width>>, or <<>> when sizeOK stays false.
Size(list, file) ==
  LET pairs == Pairs(file)
      known == SelectSeq(pairs, LAMBDA p : IsKnown(list, p))
  IN  IF known # <<>> THEN KnownSize(list, Head(known)) ELSE Nearest(file, pairs)

-----------------------------------------------------------------------------
(* parse_type *)

Target(type, format) == (format.height * format.width * type.num) \div type.den

\* coScore() is (c + t) / (1.414 sqrt(c^2 + t^2)), which falls with |c - t| / (c + t);
\* for a picture of no size it is not a number and compares with nothing.
Scores(file, format, a, b) ==
  LET c == file.size
      s == Target(a, format)
      t == Target(b, format)
  IN  /\ t > 0
      /\ s = 0 \/ Apart(c, t) * (c + s) < Apart(c, s) * (c + t)

BestScored(file, format) ==
  FoldLeft(LAMBDA best, type : IF Scores(file, format, best, type) THEN type ELSE best,
           [name |-> format.type, num |-> 0, den |-> 1], Types).name

\* The suffix has the last word.
Type(file, format) == IF file.suffix # "none" THEN file.suffix ELSE BestScored(file, format)

\* Both, from the format the information bar shows.
Guessed(list, file, shown) ==
  LET hw == Size(list, file)
      sized == IF hw = <<>> THEN shown
               ELSE [shown EXCEPT !.height = hw[1], !.width = hw[2], !.stride = file.size \div hw[1]]
  IN  [sized EXCEPT !.type = Type(file, sized)]
=============================================================================
