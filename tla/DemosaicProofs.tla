--------------------------- MODULE DemosaicProofs ---------------------------
(***************************************************************************)
(* The demosaic is correct for every list of formats with even sides above *)
(* two: no pixel is shared between threads, nothing outside the picture is *)
(* read or written, and the picture returned is complete and of the right  *)
(* colours.  The reason: a lane owns the inner pixels of one parity of row *)
(* and column, has written exactly those its two loops have passed, and    *)
(* the border pixels are no lane's.                                        *)
(***************************************************************************)
EXTENDS Demosaic, TLAPS

\* The formats the theorems are about.  ImageCvt asks for even sides only; with
\* a side of two the bounds height - 3 and width - 3 wrap (Bayer8.cpp:244).
Sized ==
  \A f \in Formats :
    /\ f.width % 2 = 0 /\ f.width > 2 /\ f.width < Word
    /\ f.height % 2 = 0 /\ f.height > 2 /\ f.height < Word

-----------------------------------------------------------------------------
(* The invariant.                                                          *)

Row(f, p) == p \div f.width
Col(f, p) == p % f.width

\* The lane an inner pixel belongs to, by the parities of its place.
RowParity(l) == IF l \in {1, 2} THEN 0 ELSE 1
ColParity(l) == IF l \in {1, 3} THEN 0 ELSE 1
LaneAt(r, c) ==
  IF r % 2 = 0 THEN (IF c % 2 = 0 THEN 1 ELSE 2) ELSE (IF c % 2 = 0 THEN 3 ELSE 4)
LaneOf(f, p) == LaneAt(Row(f, p), Col(f, p))

Computed(f, l, p) ==
  LET site == Sites(f.pattern)[l]
  IN  IF f.bayer THEN Raw(site, p) ELSE Interpolate(site, p, f.width)

\* The loops of a lane have gone over a place.
Passed(l, r, c) == r < y[l] \/ (r = y[l] /\ c < x[l])
PassedNext(l, r, c) == r < y'[l] \/ (r = y'[l] /\ c < x'[l])

\* The pixel the border loops write at step k.
EdgePixel(f, k) ==
  LET w == f.width
      h == f.height
  IN  IF k < w              THEN k
      ELSE IF k < 2 * w     THEN (h - 1) * w + (k - w)
      ELSE IF k < 2 * w + h THEN (k - 2 * w) * w
      ELSE (k - 2 * w - h) * w + (w - 1)

Places ==
  \A l \in Lanes :
    /\ y[l] \in 1 .. format.height /\ y[l] % 2 = RowParity(l)
    /\ x[l] \in 1 .. format.width /\ x[l] % 2 = ColParity(l)

\* The caller has a result only of lanes that went over all their rows.
Progress ==
  /\ calls > 4 => border = BorderLength
  /\ \A l \in Lanes : calls > 3 + l => status[l] = "finished"
  /\ \A l \in Lanes : status[l] = "finished" => y[l] > LastY(format, l)

\* Every pixel written is in the picture and has its final value.
Written ==
  \A p \in DOMAIN dest :
    /\ p \in Pixels(format)
    /\ IF OnBorder(format, p)
         THEN dest[p] = Black
         ELSE /\ Passed(LaneOf(format, p), Row(format, p), Col(format, p))
              /\ dest[p] = Computed(format, LaneOf(format, p), p)

\* ... and every pixel the loops have gone over is written.
Covered ==
  /\ \A p \in Pixels(format) :
       ~OnBorder(format, p) /\ Passed(LaneOf(format, p), Row(format, p), Col(format, p))
         => p \in DOMAIN dest
  /\ \A k \in 0 .. border - 1 : EdgePixel(format, k) \in DOMAIN dest

Inv == TypeOK /\ Places /\ Progress /\ Written /\ Covered
-----------------------------------------------------------------------------
(* Arithmetic of places.                                                   *)

LEMMA DivMod ==
  ASSUME NEW w \in Nat, NEW r \in Nat, NEW c \in Nat, c < w
  PROVE  (r * w + c) \div w = r /\ (r * w + c) % w = c
OBVIOUS

LEMMA Decode ==
  ASSUME NEW w \in Nat, w > 0, NEW h \in Nat, NEW p \in Nat, p < w * h
  PROVE  /\ p = (p \div w) * w + (p % w)
         /\ p \div w \in Nat /\ p \div w < h
         /\ p % w \in Nat /\ p % w < w
OBVIOUS

LEMMA RowsFit ==
  ASSUME NEW w \in Nat, NEW h \in Nat, NEW r \in Nat, r < h, NEW c \in Nat, c < w
  PROVE  r * w + c \in Nat /\ r * w + c < w * h
<1>1. PICK d \in Nat : h = r + 1 + d
  OBVIOUS
<1>2. w * h = r * w + w + d * w /\ d * w \in Nat /\ r * w \in Nat
  BY <1>1
<1> QED
  BY <1>2

LEMMA Sides ==
  ASSUME Sized, NEW f \in Formats
  PROVE  /\ f.width \in Nat /\ f.width > 2 /\ f.width % 2 = 0 /\ f.width < Word
         /\ f.height \in Nat /\ f.height > 2 /\ f.height % 2 = 0 /\ f.height < Word
         /\ Word \in Nat
         /\ f.pattern \in Patterns /\ f.bayer \in BOOLEAN
BY FormatAssumption DEF Sized

LEMMA MinusIs ==
  ASSUME NEW a \in Nat, NEW b \in Nat, b <= a, a < Word, Word \in Nat
  PROVE  Minus(a, b) = a - b
<1>1. a + Word - b = (a - b) + Word /\ a - b \in Nat /\ a - b < Word
  OBVIOUS
<1>2. ((a - b) + Word) % Word = a - b
  BY <1>1
<1> QED
  BY <1>1, <1>2 DEF Minus

\* The bounds of the loops do not wrap.
LEMMA LastIs ==
  ASSUME Sized, NEW f \in Formats, NEW l \in Lanes
  PROVE  /\ LastY(f, l) = f.height - (IF l \in {1, 2} THEN 2 ELSE 3)
         /\ LastX(f, l) = f.width - (IF l \in {1, 3} THEN 2 ELSE 3)
<1>1. f.height \in Nat /\ f.height > 2 /\ f.height < Word
      /\ f.width \in Nat /\ f.width > 2 /\ f.width < Word /\ Word \in Nat
  BY Sides
<1>2. /\ Minus(f.height, 2) = f.height - 2 /\ Minus(f.height, 3) = f.height - 3
      /\ Minus(f.width, 2) = f.width - 2 /\ Minus(f.width, 3) = f.width - 3
  BY <1>1, MinusIs
<1> QED
  BY <1>2 DEF LastY, LastX

\* A place of the picture is the place of one pixel.
LEMMA PlaceOf ==
  ASSUME Sized, NEW f \in Formats,
         NEW r \in Nat, r < f.height, NEW c \in Nat, c < f.width
  PROVE  /\ r * f.width + c \in Pixels(f)
         /\ Row(f, r * f.width + c) = r /\ Col(f, r * f.width + c) = c
<1>1. f.height \in Nat /\ f.width \in Nat
  BY Sides
<1>2. r * f.width + c \in Nat /\ r * f.width + c < f.width * f.height /\ f.width * f.height \in Nat
  BY <1>1, RowsFit
<1> QED
  <2>1. r * f.width + c \in Pixels(f)
    BY <1>2 DEF Pixels
  <2>2. f.width \in Nat
    BY <1>1
  <2> QED
    BY <2>1, <2>2, DivMod DEF Row, Col

LEMMA PlaceIn ==
  ASSUME Sized, NEW f \in Formats, NEW p \in Pixels(f)
  PROVE  /\ p \in Nat /\ p = Row(f, p) * f.width + Col(f, p)
         /\ Row(f, p) \in Nat /\ Row(f, p) < f.height
         /\ Col(f, p) \in Nat /\ Col(f, p) < f.width
<1>1. f.height \in Nat /\ f.width \in Nat /\ f.width > 0
  BY Sides
<1>2. f.width * f.height \in Nat
  BY <1>1
<1>3. p \in Nat /\ p < f.width * f.height
  BY <1>2 DEF Pixels
<1> QED
  BY <1>1, <1>3, Decode DEF Row, Col

LEMMA EdgeIs ==
  ASSUME NEW f, NEW p
  PROVE  OnBorder(f, p) <=> Row(f, p) \in {0, f.height - 1} \/ Col(f, p) \in {0, f.width - 1}
BY DEF OnBorder, Row, Col

\* The lane at a place is the one of its parities.
LEMMA LaneParity ==
  ASSUME NEW l \in Lanes, NEW r \in Nat, NEW c \in Nat
  PROVE  LaneAt(r, c) = l <=> r % 2 = RowParity(l) /\ c % 2 = ColParity(l)
<1>1. r % 2 \in {0, 1} /\ c % 2 \in {0, 1}
  OBVIOUS
<1>2. l \in {1, 2, 3, 4}
  BY DEF Lanes
<1> QED
  BY <1>1, <1>2 DEF LaneAt, RowParity, ColParity

\* What AtPixel says of a lane.
LEMMA AtInner ==
  ASSUME Sized, TypeOK, Places, NEW l \in Lanes, AtPixel(l)
  PROVE  /\ y[l] \in 1 .. format.height - 2 /\ x[l] \in 1 .. format.width - 2
         /\ Pixel(l) \in Pixels(format)
         /\ Row(format, Pixel(l)) = y[l] /\ Col(format, Pixel(l)) = x[l]
         /\ ~OnBorder(format, Pixel(l))
         /\ LaneOf(format, Pixel(l)) = l
<1>0. format \in Formats
  BY DEF TypeOK
<1>1. /\ format.height \in Nat /\ format.height > 2
      /\ format.width \in Nat /\ format.width > 2
  BY <1>0, Sides
<1>2. y[l] <= LastY(format, l) /\ x[l] <= LastX(format, l)
  BY DEF AtPixel
<1>3. y[l] \in 1 .. format.height - 2 /\ x[l] \in 1 .. format.width - 2
  BY <1>0, <1>1, <1>2, LastIs DEF Places
<1>4. y[l] \in Nat /\ y[l] < format.height /\ x[l] \in Nat /\ x[l] < format.width
  BY <1>1, <1>3
<1>5. /\ Pixel(l) \in Pixels(format)
      /\ Row(format, Pixel(l)) = y[l] /\ Col(format, Pixel(l)) = x[l]
  BY <1>0, <1>4, PlaceOf DEF Pixel
<1>6. ~OnBorder(format, Pixel(l))
  BY <1>1, <1>3, <1>5, EdgeIs
<1>7. LaneOf(format, Pixel(l)) = l
  BY <1>4, <1>5, LaneParity DEF LaneOf, Places
<1> QED
  BY <1>3, <1>5, <1>6, <1>7

\* The border loops stay on the border.
LEMMA EdgeOnBorder ==
  ASSUME Sized, NEW f \in Formats, NEW k \in Nat, k < 2 * (f.width + f.height)
  PROVE  EdgePixel(f, k) \in Pixels(f) /\ OnBorder(f, EdgePixel(f, k))
<1> DEFINE w == f.width
           h == f.height
<1>1. w \in Nat /\ w > 2 /\ h \in Nat /\ h > 2
  BY Sides
<1>2. ASSUME NEW r \in Nat, NEW c \in Nat, r < h, c < w,
             r \in {0, h - 1} \/ c \in {0, w - 1}, EdgePixel(f, k) = r * w + c
      PROVE  EdgePixel(f, k) \in Pixels(f) /\ OnBorder(f, EdgePixel(f, k))
  BY <1>2, PlaceOf, EdgeIs
<1> HIDE DEF w, h
<1>a. k < 2 * (w + h)
  BY DEF w, h
<1>3. CASE k < w
  <2>1. EdgePixel(f, k) = 0 * w + k
    BY <1>1, <1>3 DEF EdgePixel, w
  <2> QED
    BY <1>1, <1>3, <2>1, <1>2
<1>4. CASE ~(k < w) /\ k < 2 * w
  <2>1. EdgePixel(f, k) = (h - 1) * w + (k - w)
    BY <1>4 DEF EdgePixel, w, h
  <2>2. h - 1 \in Nat /\ k - w \in Nat /\ k - w < w /\ h - 1 < h
    BY <1>1, <1>4
  <2> QED
    BY <2>1, <2>2, <1>2
<1>5. CASE ~(k < 2 * w) /\ k < 2 * w + h
  <2>1. EdgePixel(f, k) = (k - 2 * w) * w
    BY <1>1, <1>5 DEF EdgePixel, w, h
  <2>2. k - 2 * w \in Nat /\ k - 2 * w < h
    BY <1>1, <1>5
  <2>3. EdgePixel(f, k) = (k - 2 * w) * w + 0
    BY <2>1, <2>2, <1>1
  <2> QED
    BY <1>1, <2>2, <2>3, <1>2
<1>6. CASE ~(k < 2 * w + h)
  <2>1. EdgePixel(f, k) = (k - 2 * w - h) * w + (w - 1)
    BY <1>1, <1>6 DEF EdgePixel, w, h
  <2>2. k - 2 * w - h \in Nat /\ k - 2 * w - h < h /\ w - 1 \in Nat /\ w - 1 < w
    BY <1>1, <1>6, <1>a
  <2> QED
    BY <2>1, <2>2, <1>2
<1> QED
  BY <1>1, <1>3, <1>4, <1>5, <1>6

\* ... and go over all of it.
LEMMA BorderIsEdges ==
  ASSUME Sized, NEW f \in Formats, NEW p \in Pixels(f), OnBorder(f, p)
  PROVE  \E k \in 0 .. 2 * (f.width + f.height) - 1 : EdgePixel(f, k) = p
<1> DEFINE w == f.width
           h == f.height
           r == Row(f, p)
           c == Col(f, p)
<1>1. w \in Nat /\ w > 2 /\ h \in Nat /\ h > 2
  BY Sides
<1>2. p = r * w + c /\ r \in Nat /\ r < h /\ c \in Nat /\ c < w
  BY PlaceIn
<1>3. r = 0 \/ r = h - 1 \/ c = 0 \/ c = w - 1
  BY EdgeIs
<1> HIDE DEF w, h, r, c
<1>4. SUFFICES \E k \in 0 .. 2 * (w + h) - 1 : EdgePixel(f, k) = p
  BY DEF w, h
<1>5. CASE r = 0
  <2>1. p = c
    BY <1>1, <1>2, <1>5
  <2>2. EdgePixel(f, c) = p
    BY <1>1, <1>2, <2>1 DEF EdgePixel, w
  <2> QED
    BY <1>1, <1>2, <2>2
<1>6. CASE r = h - 1
  <2>1. ~(c + w < w) /\ c + w < 2 * w /\ (c + w) - w = c
    BY <1>1, <1>2
  <2>2. EdgePixel(f, c + w) = (h - 1) * w + ((c + w) - w)
    BY <2>1 DEF EdgePixel, w, h
  <2>3. EdgePixel(f, c + w) = p
    BY <2>1, <2>2, <1>2, <1>6
  <2> QED
    BY <1>1, <1>2, <2>3
<1>7. CASE c = 0
  <2>1. ~(r + 2 * w < w) /\ ~(r + 2 * w < 2 * w) /\ r + 2 * w < 2 * w + h /\ (r + 2 * w) - 2 * w = r
    BY <1>1, <1>2
  <2>2. EdgePixel(f, r + 2 * w) = ((r + 2 * w) - 2 * w) * w
    BY <2>1 DEF EdgePixel, w, h
  <2>3. r * w + c = r * w
    BY <1>1, <1>2, <1>7
  <2>4. EdgePixel(f, r + 2 * w) = p
    BY <2>1, <2>2, <2>3, <1>2
  <2> QED
    BY <1>1, <1>2, <2>4
<1>8. CASE c = w - 1
  <2> DEFINE k == r + 2 * w + h
  <2>1. ~(k < w) /\ ~(k < 2 * w) /\ ~(k < 2 * w + h) /\ k - 2 * w - h = r
    BY <1>1, <1>2
  <2>2. EdgePixel(f, k) = (k - 2 * w - h) * w + (w - 1)
    BY <2>1 DEF EdgePixel, w, h
  <2>3. EdgePixel(f, k) = p
    BY <2>1, <2>2, <1>2, <1>8
  <2> QED
    BY <1>1, <1>2, <2>3
<1> QED
  BY <1>3, <1>5, <1>6, <1>7, <1>8

LEMMA BorderPixelIs == BorderPixel = EdgePixel(format, border)
BY DEF BorderPixel, EdgePixel

-----------------------------------------------------------------------------
(* Init and the steps.                                                     *)

LEMMA InitInv == Sized /\ Init => Inv
<1> SUFFICES ASSUME Sized, Init PROVE Inv
  OBVIOUS
<1>1. /\ format \in Formats
      /\ format.width \in Nat /\ format.width > 2 /\ format.width < Word
      /\ format.height \in Nat /\ format.height > 2 /\ format.height < Word /\ Word \in Nat
  BY Sides DEF Init
<1>2. /\ \A l \in Lanes : YBegin(l) \in 1 .. 2 /\ YBegin(l) % 2 = RowParity(l)
      /\ \A l \in Lanes : XBegin(l) \in 1 .. 2 /\ XBegin(l) % 2 = ColParity(l)
  BY DEF YBegin, XBegin, RowParity, ColParity
<1>3. TypeOK
  BY <1>1, <1>2 DEF Init, TypeOK, Pool!Statuses, BorderLength
<1>4. Places
  BY <1>1, <1>2 DEF Init, Places
<1>5. Progress
  BY DEF Init, Progress, Lanes
<1>6. Written
  BY DEF Init, Written
<1>7. Covered
  <2>1. ASSUME NEW p \in Pixels(format), ~OnBorder(format, p),
               Passed(LaneOf(format, p), Row(format, p), Col(format, p))
        PROVE  FALSE
    <3> DEFINE l == LaneOf(format, p)
               r == Row(format, p)
               c == Col(format, p)
    <3>1. r \in Nat /\ c \in Nat /\ r # 0 /\ c # 0
      BY <1>1, <2>1, PlaceIn, EdgeIs
    <3>2. l \in Lanes
      BY DEF LaneOf, LaneAt, Lanes
    <3>3. r % 2 = RowParity(l) /\ c % 2 = ColParity(l)
      BY <3>1, <3>2, LaneParity DEF LaneOf
    <3>4. y[l] = YBegin(l) /\ x[l] = XBegin(l)
      BY <3>2 DEF Init
    <3>5. r < YBegin(l) \/ (r = YBegin(l) /\ c < XBegin(l))
      BY <2>1, <3>4 DEF Passed
    <3> HIDE DEF l, r, c
    <3> QED
      BY <3>1, <3>2, <3>3, <3>5 DEF YBegin, XBegin, RowParity, ColParity, Lanes
  <2> QED
    BY <2>1 DEF Init, Covered
<1> QED
  BY <1>3, <1>4, <1>5, <1>6, <1>7 DEF Inv

\* A task of the service changes its own status only.
LEMMA OneStatus ==
  ASSUME TypeOK, NEW l \in Lanes,
         \/ Pool!Accept(l) \/ Pool!Start(l) \/ Pool!Finish(l)
  PROVE  status' \in [Lanes -> Pool!Statuses] /\ \A m \in Lanes \ {l} : status'[m] = status[m]
BY DEF TypeOK, Pool!Accept, Pool!Start, Pool!Finish, Pool!Become, Pool!Statuses

\* Steps that write nothing and move no loop keep all but the progress.
LEMMA Unmoved ==
  ASSUME Inv, UNCHANGED <<format, border, y, x, dest>>, TypeOK', Progress'
  PROVE  Inv'
BY DEF Inv, Places, Written, Covered, Passed

LEMMA EnqueueKeeps == ASSUME Inv, Enqueue PROVE Inv'
<1>1. TypeOK /\ calls + 1 \in Lanes /\ calls \in 0 .. 3
  BY DEF Inv, TypeOK, Enqueue, Lanes
<1>2. TypeOK'
  BY <1>1, OneStatus DEF Enqueue, TypeOK, BorderLength
<1>3. Progress'
  <2>1. \A m \in Lanes : status'[m] = "finished" => status[m] = "finished"
    BY <1>1 DEF Enqueue, Pool!Accept, Pool!Become, TypeOK
  <2>2. calls' <= 4
    BY <1>1 DEF Enqueue
  <2>3. \A m \in Lanes : ~(calls' > 3 + m)
    BY <1>1, <2>2 DEF Lanes, Enqueue
  <2> QED
    BY <1>1, <2>1, <2>2, <2>3 DEF Inv, Progress, Enqueue
<1> QED
  BY <1>2, <1>3, Unmoved DEF Enqueue

LEMMA StartKeeps == ASSUME Inv, NEW l \in Lanes, Start(l) PROVE Inv'
<1>1. TypeOK
  BY DEF Inv
<1>2. TypeOK'
  BY <1>1, OneStatus DEF Start, TypeOK, BorderLength
<1>3. Progress'
  <2>1. status[l] = "accepted" /\ \A m \in Lanes : status'[m] = (IF m = l THEN "running" ELSE status[m])
    BY <1>1 DEF Start, Pool!Start, Pool!Become, TypeOK
  <2> QED
    BY <2>1 DEF Inv, Progress, Start, BorderLength
<1> QED
  BY <1>2, <1>3, Unmoved DEF Start

LEMMA FinishKeeps == ASSUME Inv, NEW l \in Lanes, Finish(l) PROVE Inv'
<1>1. TypeOK
  BY DEF Inv
<1>2. TypeOK'
  BY <1>1, OneStatus DEF Finish, TypeOK, BorderLength
<1>3. Progress'
  <2>1. y[l] > LastY(format, l)
    BY DEF Finish
  <2>2. \A m \in Lanes : status'[m] = (IF m = l THEN "finished" ELSE status[m])
    BY <1>1 DEF Finish, Pool!Finish, Pool!Become, TypeOK
  <2> QED
    BY <2>1, <2>2 DEF Inv, Progress, Finish, BorderLength
<1> QED
  BY <1>2, <1>3, Unmoved DEF Finish

LEMMA GetKeeps == ASSUME Inv, Get PROVE Inv'
<1>1. TypeOK /\ calls \in 4 .. 7 /\ calls' = calls + 1 /\ border = BorderLength
      /\ status[calls - 3] = "finished"
  BY DEF Inv, Get
<1>2. TypeOK'
  BY <1>1 DEF Get, TypeOK, BorderLength
<1>3. Progress'
  <2>1. ASSUME NEW l \in Lanes, calls' > 3 + l PROVE status[l] = "finished"
    <3>1. calls > 3 + l \/ calls - 3 = l
      BY <1>1, <2>1 DEF Lanes
    <3> QED
      BY <1>1, <3>1 DEF Inv, Progress
  <2> QED
    BY <1>1, <2>1 DEF Inv, Progress, Get, BorderLength
<1> QED
  BY <1>2, <1>3, Unmoved DEF Get

LEMMA BorderKeeps == ASSUME Sized, Inv, Border PROVE Inv'
<1> DEFINE e == EdgePixel(format, border)
<1>1. /\ TypeOK /\ format \in Formats /\ border \in Nat /\ border < 2 * (format.width + format.height)
      /\ calls = 4 /\ border' = border + 1 /\ UNCHANGED <<format, status, calls, y, x>>
  BY Sides DEF Inv, TypeOK, Border, Blacken, BorderLength
<1>2. e \in Pixels(format) /\ OnBorder(format, e)
  BY <1>1, EdgeOnBorder
<1>3. DOMAIN dest' = DOMAIN dest \cup {e}
      /\ \A q \in DOMAIN dest' : dest'[q] = IF q = e THEN Black ELSE dest[q]
  BY BorderPixelIs DEF Border, Blacken, Store
<1> HIDE DEF e
<1>4. TypeOK'
  <2>1. e \in Nat
    BY <1>1, <1>2, PlaceIn
  <2>2. format.width + format.height \in Nat
    BY <1>1, Sides
  <2>3. border' \in 0 .. BorderLength'
    BY <1>1, <2>2 DEF BorderLength
  <2> QED
    BY <1>1, <1>3, <2>1, <2>3 DEF TypeOK
<1>5. Places' /\ Progress'
  BY <1>1 DEF Inv, Places, Progress
<1>6. Written'
  BY <1>1, <1>2, <1>3 DEF Inv, Written, Passed
<1>7. Covered'
  <2>1. \A k \in 0 .. border' - 1 : EdgePixel(format, k) \in DOMAIN dest'
    <3> SUFFICES ASSUME NEW k \in 0 .. border' - 1 PROVE EdgePixel(format, k) \in DOMAIN dest'
      OBVIOUS
    <3>1. k = border \/ k \in 0 .. border - 1
      BY <1>1
    <3> QED
      BY <1>3, <3>1 DEF Inv, Covered, e
  <2> QED
    BY <1>1, <1>3, <2>1 DEF Inv, Covered, Passed
<1> QED
  BY <1>4, <1>5, <1>6, <1>7 DEF Inv

\* An inner pixel of a lane has its parities and lies off the border.
LEMMA InnerPlace ==
  ASSUME Sized, NEW f \in Formats, NEW p \in Pixels(f), ~OnBorder(f, p)
  PROVE  /\ LaneOf(f, p) \in Lanes
         /\ Row(f, p) \in 1 .. f.height - 2 /\ Row(f, p) % 2 = RowParity(LaneOf(f, p))
         /\ Col(f, p) \in 1 .. f.width - 2 /\ Col(f, p) % 2 = ColParity(LaneOf(f, p))
<1>1. LaneOf(f, p) \in Lanes
  BY DEF LaneOf, LaneAt, Lanes
<1>2. /\ Row(f, p) \in Nat /\ Row(f, p) < f.height
      /\ Col(f, p) \in Nat /\ Col(f, p) < f.width
      /\ f.height \in Nat /\ f.width \in Nat
  BY PlaceIn, Sides
<1>3. Row(f, p) \notin {0, f.height - 1} /\ Col(f, p) \notin {0, f.width - 1}
  BY EdgeIs
<1>4. Row(f, p) \in 1 .. f.height - 2 /\ Col(f, p) \in 1 .. f.width - 2
  BY <1>2, <1>3
<1>5. Row(f, p) % 2 = RowParity(LaneOf(f, p)) /\ Col(f, p) % 2 = ColParity(LaneOf(f, p))
  BY <1>1, <1>2, LaneParity DEF LaneOf
<1> QED
  BY <1>1, <1>4, <1>5

\* A loop variable that has not reached its last value can be advanced by two.
LEMMA Advance ==
  ASSUME NEW a \in Nat, NEW n \in Nat, NEW b \in {2, 3}, NEW w \in Nat,
         a <= n - b, n < w
  PROVE  (a + 2) % w = a + 2 /\ a + 2 <= n /\ (a + 2) % 2 = a % 2
<1>1. a + 2 < w /\ a + 2 \in Nat
  OBVIOUS
<1>2. (a + 2) % w = a + 2
  BY <1>1
<1> QED
  BY <1>2

LEMMA FillKeeps == ASSUME Sized, Inv, NEW l \in Lanes, Fill(l) PROVE Inv'
<1> DEFINE e == Pixel(l)
           w == format.width
           h == format.height
<1>1. /\ TypeOK /\ format \in Formats /\ AtPixel(l) /\ Places
      /\ UNCHANGED <<format, status, calls, border, y>>
  BY DEF Inv, TypeOK, Fill
<1>2. /\ w \in Nat /\ w > 2 /\ w < Word /\ h \in Nat /\ Word \in Nat
  BY <1>1, Sides
<1>3. /\ y[l] \in 1 .. h - 2 /\ x[l] \in 1 .. w - 2
      /\ e \in Pixels(format) /\ Row(format, e) = y[l] /\ Col(format, e) = x[l]
      /\ ~OnBorder(format, e) /\ LaneOf(format, e) = l
  BY <1>1, AtInner
<1>4. DOMAIN dest' = DOMAIN dest \cup {e}
      /\ \A q \in DOMAIN dest' : dest'[q] = IF q = e THEN Computed(format, l, e) ELSE dest[q]
  BY DEF Fill, Store, Value, Computed
<1>5. x[l] + 2 <= w /\ (x[l] + 2) % Word = x[l] + 2 /\ (x[l] + 2) % 2 = x[l] % 2
  <2>1. x[l] <= w - (IF l \in {1, 3} THEN 2 ELSE 3)
    BY <1>1, LastIs DEF AtPixel
  <2>2. x[l] \in Nat
    BY <1>2, <1>3
  <2> HIDE DEF w
  <2> QED
    BY <1>2, <2>1, <2>2, Advance
<1>6. \A m \in Lanes : x'[m] = IF m = l THEN x[l] + 2 ELSE x[m]
  BY <1>1, <1>5 DEF Fill, TypeOK
<1> HIDE DEF e, w, h
<1>7. \A m \in Lanes : x'[m] \in 1 .. w /\ x'[m] % 2 = ColParity(m)
  <2>1. \A m \in Lanes : x[m] \in 1 .. w /\ x[m] % 2 = ColParity(m)
    BY <1>1 DEF Places, w
  <2>2. x[l] + 2 \in 1 .. w
    BY <1>2, <1>3, <1>5
  <2> QED
    BY <2>1, <2>2, <1>5, <1>6
<1>8. TypeOK'
  <2>1. e \in Nat
    BY <1>1, <1>3, PlaceIn
  <2>2. DOMAIN dest' \subseteq Nat
    BY <1>1, <1>4, <2>1 DEF TypeOK
  <2>3. x' \in [Lanes -> 0 .. Word - 1]
    <3>1. \A m \in Lanes : x'[m] \in 0 .. Word - 1
      BY <1>2, <1>7
    <3>2. x' = [x EXCEPT ![l] = (@ + 2) % Word] /\ DOMAIN x = Lanes
      BY <1>1 DEF Fill, TypeOK
    <3> QED
      BY <3>1, <3>2
  <2> QED
    BY <1>1, <2>2, <2>3 DEF TypeOK, BorderLength
<1>9. Places'
  BY <1>1, <1>7 DEF Places, w
<1>10. Progress'
  BY <1>1 DEF Inv, Progress, BorderLength
<1>11. Written'
  <2> SUFFICES ASSUME NEW p \in DOMAIN dest'
               PROVE  /\ p \in Pixels(format)
                      /\ IF OnBorder(format, p)
                           THEN dest'[p] = Black
                           ELSE /\ PassedNext(LaneOf(format, p), Row(format, p), Col(format, p))
                                /\ dest'[p] = Computed(format, LaneOf(format, p), p)
    BY <1>1 DEF Written, Passed, PassedNext
  <2>1. CASE p = e
    BY <2>1, <1>1, <1>2, <1>3, <1>4, <1>6 DEF Passed, PassedNext
  <2>2. CASE p # e
    <3>1. /\ p \in DOMAIN dest /\ dest'[p] = dest[p] /\ p \in Pixels(format)
      BY <2>2, <1>4 DEF Inv, Written
    <3>2. CASE OnBorder(format, p)
      BY <3>1, <3>2 DEF Inv, Written
    <3>3. CASE ~OnBorder(format, p)
      <4> DEFINE m == LaneOf(format, p)
                 r == Row(format, p)
                 c == Col(format, p)
      <4>1. m \in Lanes /\ r \in Nat /\ c \in Nat
        BY <1>1, <3>1, <3>3, InnerPlace, PlaceIn
      <4>2. Passed(m, r, c) /\ dest[p] = Computed(format, m, p)
        BY <3>1, <3>3 DEF Inv, Written
      <4> HIDE DEF m, r, c
      <4>3. x[m] \in Nat /\ x'[m] \in Nat /\ x[m] <= x'[m]
        BY <4>1, <1>1, <1>2, <1>6 DEF Places, w
      <4>4. PassedNext(m, r, c)
        BY <4>1, <4>2, <4>3, <1>1 DEF Passed, PassedNext
      <4> QED
        BY <3>1, <3>3, <4>2, <4>4 DEF m, r, c
    <3> QED
      BY <3>2, <3>3
  <2> QED
    BY <2>1, <2>2
<1>12. Covered'
  <2>1. ASSUME NEW p \in Pixels(format), ~OnBorder(format, p),
               PassedNext(LaneOf(format, p), Row(format, p), Col(format, p))
        PROVE  p \in DOMAIN dest'
    <3> DEFINE m == LaneOf(format, p)
               r == Row(format, p)
               c == Col(format, p)
    <3>1. m \in Lanes /\ r \in Nat /\ c \in Nat /\ c % 2 = ColParity(m)
      BY <1>1, <2>1, InnerPlace, PlaceIn
    <3>2. p = r * w + c /\ PassedNext(m, r, c)
      BY <1>1, <2>1, PlaceIn DEF w
    <3> HIDE DEF m, r, c
    <3>3. CASE Passed(m, r, c)
      BY <2>1, <3>3, <1>4 DEF Inv, Covered, m, r, c
    <3>4. CASE ~Passed(m, r, c)
      <4>1. m = l /\ r = y[l] /\ c < x[l] + 2 /\ ~(c < x[l])
        BY <1>1, <1>6, <3>1, <3>2, <3>4 DEF Passed, PassedNext
      <4>2. x[l] % 2 = c % 2 /\ x[l] \in Nat
        BY <1>1, <1>2, <1>3, <3>1, <4>1 DEF Places
      <4>3. c = x[l]
        BY <3>1, <4>1, <4>2
      <4>4. p = e
        BY <3>2, <4>1, <4>3 DEF e, Pixel, w
      <4> QED
        BY <1>4, <4>4
    <3> QED
      BY <3>3, <3>4
  <2> QED
    BY <2>1, <1>1, <1>4 DEF Inv, Covered, Passed, PassedNext
<1> QED
  BY <1>8, <1>9, <1>10, <1>11, <1>12 DEF Inv

LEMMA NextRowKeeps == ASSUME Sized, Inv, NEW l \in Lanes, NextRow(l) PROVE Inv'
<1> DEFINE w == format.width
           h == format.height
<1>1. /\ TypeOK /\ format \in Formats /\ Places
      /\ status[l] = "running" /\ y[l] <= LastY(format, l) /\ x[l] > LastX(format, l)
      /\ UNCHANGED <<format, status, calls, border, dest>>
  BY DEF Inv, TypeOK, NextRow, RowThen
<1>2. /\ w \in Nat /\ w > 2 /\ w < Word /\ w % 2 = 0 /\ h \in Nat /\ h > 2 /\ h < Word /\ Word \in Nat
  BY <1>1, Sides
<1>3. /\ LastY(format, l) = h - (IF l \in {1, 2} THEN 2 ELSE 3)
      /\ LastX(format, l) = w - (IF l \in {1, 3} THEN 2 ELSE 3)
  BY <1>1, LastIs
<1>4. \A m \in Lanes : /\ y[m] \in 1 .. h /\ y[m] % 2 = RowParity(m)
                       /\ x[m] \in 1 .. w /\ x[m] % 2 = ColParity(m)
  BY <1>1 DEF Places
<1> HIDE DEF w, h
<1>5. y[l] + 2 <= h /\ (y[l] + 2) % Word = y[l] + 2 /\ (y[l] + 2) % 2 = y[l] % 2
  <2>1. y[l] \in Nat
    BY <1>2, <1>4
  <2> QED
    BY <1>1, <1>2, <1>3, <2>1, Advance
<1>6. \A m \in Lanes : /\ y'[m] = IF m = l THEN y[l] + 2 ELSE y[m]
                       /\ x'[m] = IF m = l THEN XBegin(l) ELSE x[m]
  BY <1>1, <1>5 DEF NextRow, RowThen, TypeOK
<1>7. XBegin(l) \in 1 .. 2 /\ XBegin(l) % 2 = ColParity(l)
  BY DEF XBegin, ColParity
<1>8. \A m \in Lanes : /\ y'[m] \in 1 .. h /\ y'[m] % 2 = RowParity(m)
                       /\ x'[m] \in 1 .. w /\ x'[m] % 2 = ColParity(m)
  <2>1. y[l] + 2 \in 1 .. h /\ XBegin(l) \in 1 .. w
    BY <1>2, <1>4, <1>5, <1>7
  <2> QED
    BY <2>1, <1>4, <1>5, <1>6, <1>7
<1>9. TypeOK'
  <2>1. \A m \in Lanes : y'[m] \in 0 .. Word - 1 /\ x'[m] \in 0 .. Word - 1
    BY <1>2, <1>8
  <2>2. /\ y' = [y EXCEPT ![l] = (y[l] + 2) % Word] /\ DOMAIN y = Lanes
        /\ x' = [x EXCEPT ![l] = XBegin(l)] /\ DOMAIN x = Lanes
    BY <1>1 DEF NextRow, RowThen, TypeOK
  <2>3. y' \in [Lanes -> 0 .. Word - 1] /\ x' \in [Lanes -> 0 .. Word - 1]
    BY <2>1, <2>2
  <2> QED
    BY <1>1, <2>3 DEF TypeOK, BorderLength
<1>10. Places'
  BY <1>1, <1>8 DEF Places, w, h
<1>11. Progress'
  <2>1. \A m \in Lanes : status[m] = "finished" => y'[m] = y[m]
    BY <1>1, <1>6
  <2> QED
    BY <1>1, <2>1 DEF Inv, Progress, BorderLength
\* Between two rows, and before the first column, there is no pixel of the lane.
<1>12. ASSUME NEW p \in Pixels(format), ~OnBorder(format, p)
       PROVE  PassedNext(LaneOf(format, p), Row(format, p), Col(format, p))
                <=> Passed(LaneOf(format, p), Row(format, p), Col(format, p))
  <2> DEFINE m == LaneOf(format, p)
             r == Row(format, p)
             c == Col(format, p)
  <2>1. /\ m \in Lanes /\ r \in 1 .. h - 2 /\ r % 2 = RowParity(m)
        /\ c \in 1 .. w - 2 /\ c % 2 = ColParity(m)
    BY <1>1, <1>12, InnerPlace DEF w, h
  <2> HIDE DEF m, r, c
  <2>2. CASE m # l
    <3>1. PassedNext(m, r, c) <=> Passed(m, r, c)
      BY <2>1, <2>2, <1>6 DEF Passed, PassedNext
    <3> QED
      BY <3>1, <1>1 DEF m, r, c
  <2>3. CASE m = l
    <3>1. r \in Nat /\ c \in Nat /\ y[l] \in Nat /\ x[l] \in Nat /\ c >= 1
      BY <2>1, <1>2, <1>4
    <3>2. PassedNext(l, r, c) <=> r < y[l] + 2 \/ (r = y[l] + 2 /\ c < XBegin(l))
      BY <1>6 DEF Passed, PassedNext
    <3>3. ~(c < XBegin(l))
      BY <2>1, <2>3, <3>1 DEF XBegin, ColParity, Lanes
    <3>4. r < y[l] + 2 <=> r < y[l] \/ r = y[l]
      <4>1. r % 2 = y[l] % 2
        BY <2>1, <2>3, <1>4
      <4> QED
        BY <3>1, <4>1
    <3>5. c < x[l]
      <4>1. c <= LastX(format, l)
        <5>1. CASE l \in {1, 3}
          BY <5>1, <2>1, <3>1, <1>2, <1>3
        <5>2. CASE l \notin {1, 3}
          <6>1. c % 2 = 1 /\ LastX(format, l) = w - 3 /\ c <= w - 2
            BY <5>2, <2>1, <2>3, <1>2, <1>3 DEF ColParity
          <6>2. c # w - 2
            BY <6>1, <1>2, <3>1
          <6> QED
            BY <6>1, <6>2, <3>1, <1>2
        <5> QED
          BY <5>1, <5>2
      <4>2. LastX(format, l) \in Nat
        BY <1>2, <1>3
      <4> QED
        BY <4>1, <4>2, <3>1, <1>1
    <3>6. PassedNext(l, r, c) <=> Passed(l, r, c)
      BY <3>2, <3>3, <3>4, <3>5 DEF Passed, PassedNext
    <3> QED
      BY <3>6, <2>3, <1>1 DEF m, r, c
  <2> QED
    BY <2>2, <2>3
<1>13. Written'
  BY <1>1, <1>12 DEF Inv, Written, Passed, PassedNext
<1>14. Covered'
  BY <1>1, <1>12 DEF Inv, Covered, Passed, PassedNext
<1> QED
  BY <1>9, <1>10, <1>11, <1>13, <1>14 DEF Inv

LEMMA NextInv == Sized /\ Inv /\ [Next]_vars => Inv'
<1> SUFFICES ASSUME Sized, Inv, [Next]_vars PROVE Inv'
  OBVIOUS
<1>1. CASE Enqueue
  BY <1>1, EnqueueKeeps
<1>2. CASE Border
  BY <1>2, BorderKeeps
<1>3. CASE Get
  BY <1>3, GetKeeps
<1>4. ASSUME NEW l \in Lanes, LaneStep(l) PROVE Inv'
  BY <1>4, StartKeeps, FillKeeps, NextRowKeeps, FinishKeeps DEF LaneStep
<1>5. CASE UNCHANGED vars
  BY <1>5 DEF vars, Inv, TypeOK, BorderLength, Places, Progress, Written, Covered, Passed
<1> QED
  BY <1>1, <1>2, <1>3, <1>4, <1>5 DEF Next, Done

LEMMA InvHolds == ASSUME Sized PROVE Spec => []Inv
<1>1. Init => Inv
  BY InitInv
<1>2. Inv /\ [Next]_vars => Inv'
  BY NextInv
<1> QED
  BY <1>1, <1>2, PTL DEF Spec

-----------------------------------------------------------------------------
(* The pixels around an inner pixel.                                       *)

LEMMA Around ==
  ASSUME Sized, NEW f \in Formats, NEW p \in Pixels(f), ~OnBorder(f, p)
  PROVE  /\ \A q \in Beside(p) : q \in Pixels(f) /\ Row(f, q) = Row(f, p)
                                 /\ Col(f, q) \in {Col(f, p) - 1, Col(f, p) + 1}
         /\ \A q \in Above(p, f.width) : q \in Pixels(f) /\ Col(f, q) = Col(f, p)
                                         /\ Row(f, q) \in {Row(f, p) - 1, Row(f, p) + 1}
         /\ \A q \in Diagonal(p, f.width) :
              /\ q \in Pixels(f)
              /\ Row(f, q) \in {Row(f, p) - 1, Row(f, p) + 1}
              /\ Col(f, q) \in {Col(f, p) - 1, Col(f, p) + 1}
<1> DEFINE w == f.width
           h == f.height
           r == Row(f, p)
           c == Col(f, p)
<1>1. w \in Nat /\ h \in Nat
  BY Sides
<1>2. p \in Nat /\ p = r * w + c /\ r \in 1 .. h - 2 /\ c \in 1 .. w - 2
  BY PlaceIn, InnerPlace
<1>3. \A a \in Nat, b \in Nat : a < h /\ b < w =>
        a * w + b \in Pixels(f) /\ Row(f, a * w + b) = a /\ Col(f, a * w + b) = b
  BY PlaceOf
<1> HIDE DEF w, h, r, c
<1>4. \A a \in {r - 1, r, r + 1}, b \in {c - 1, c, c + 1} :
        a * w + b \in Pixels(f) /\ Row(f, a * w + b) = a /\ Col(f, a * w + b) = b
  <2>1. \A a \in {r - 1, r, r + 1} : a \in Nat /\ a < h
    BY <1>1, <1>2
  <2>2. \A b \in {c - 1, c, c + 1} : b \in Nat /\ b < w
    BY <1>1, <1>2
  <2> QED
    BY <2>1, <2>2, <1>3
<1>5. /\ r * w \in Nat /\ c \in Nat
      /\ (r + 1) * w = r * w + w /\ (r - 1) * w = r * w - w /\ r * w - w \in Nat
  BY <1>1, <1>2
<1>6. /\ p - 1 = r * w + (c - 1) /\ p + 1 = r * w + (c + 1)
      /\ p - w = (r - 1) * w + c /\ p + w = (r + 1) * w + c
  BY <1>1, <1>2, <1>5
<1>7. /\ p - w - 1 = (r - 1) * w + (c - 1) /\ p - w + 1 = (r - 1) * w + (c + 1)
      /\ p + w - 1 = (r + 1) * w + (c - 1) /\ p + w + 1 = (r + 1) * w + (c + 1)
  BY <1>1, <1>2, <1>5
<1>8. \A q \in Beside(p) : q \in Pixels(f) /\ Row(f, q) = r /\ Col(f, q) \in {c - 1, c + 1}
  BY <1>4, <1>6 DEF Beside
<1>9. \A q \in Above(p, w) : q \in Pixels(f) /\ Col(f, q) = c /\ Row(f, q) \in {r - 1, r + 1}
  BY <1>4, <1>6 DEF Above
<1>10. \A q \in Diagonal(p, w) :
         q \in Pixels(f) /\ Row(f, q) \in {r - 1, r + 1} /\ Col(f, q) \in {c - 1, c + 1}
  <2>1. \A q \in Diagonal(p, w) : q \in {p - w - 1, p - w + 1, p + w - 1, p + w + 1}
    BY <1>1, <1>2 DEF Diagonal, Beside
  <2>2. \A q \in {p - w - 1, p - w + 1, p + w - 1, p + w + 1} :
          \E a \in {r - 1, r + 1}, b \in {c - 1, c + 1} : q = a * w + b
    BY <1>7
  <2> QED
    BY <1>4, <2>1, <2>2
<1> QED
  BY <1>8, <1>9, <1>10 DEF w, r, c

LEMMA SiteIs ==
  ASSUME NEW pattern \in Patterns, NEW l \in Lanes
  PROVE  Sites(pattern)[l] \in {"GRG", "GBG", "RGB", "BGR"}
BY DEF Patterns, Lanes, Sites

\* What a lane computes is made of the pixel and those around it.
LEMMA SourcesIn ==
  ASSUME Sized, NEW f \in Formats, NEW p \in Pixels(f), ~OnBorder(f, p), NEW l \in Lanes
  PROVE  Sources(Computed(f, l, p)) \subseteq Pixels(f)
<1>1. Sites(f.pattern)[l] \in {"GRG", "GBG", "RGB", "BGR"}
  BY Sides, SiteIs
<1>2. \A q \in Beside(p) \cup Above(p, f.width) \cup Diagonal(p, f.width) : q \in Pixels(f)
  BY Around
<1>3. CASE f.bayer
  BY <1>1, <1>3 DEF Computed, Raw, Black, Sources, Own
<1>4. CASE ~f.bayer
  BY <1>1, <1>2, <1>4 DEF Computed, Interpolate, Sources, Own, Cross
<1> QED
  BY <1>3, <1>4

-----------------------------------------------------------------------------
(* The colours of the sensor.                                              *)

\* The colour at the parities of a place.
ColourOf(pattern, i, j) ==
  LET redRow == pattern \in {"RGGB", "GRBG"}
      redCol == pattern \in {"RGGB", "GBRG"}
  IN  IF (i = 0) = redRow /\ (j = 0) = redCol THEN "R"
      ELSE IF (i = 0) # redRow /\ (j = 0) # redCol THEN "B"
      ELSE "G"

LEMMA ColourIs ==
  ASSUME NEW f, NEW p
  PROVE  ColourAt(f, p) = ColourOf(f.pattern, Row(f, p) % 2, Col(f, p) % 2)
BY DEF ColourAt, ColourOf, Row, Col

LEMMA ParityNext ==
  ASSUME NEW n \in Nat, n > 0, NEW m \in {n - 1, n + 1}
  PROVE  m % 2 = 1 - (n % 2)
OBVIOUS

\* The function of a lane is the one for the colours at and around its places.
LEMMA SiteColours ==
  ASSUME NEW pattern \in Patterns, NEW l \in Lanes
  PROVE  LET i == RowParity(l)
             j == ColParity(l)
             own == ColourOf(pattern, i, j)
             beside == ColourOf(pattern, i, 1 - j)
             above == ColourOf(pattern, 1 - i, j)
             diagonal == ColourOf(pattern, 1 - i, 1 - j)
         IN  /\ Sites(pattern)[l] = "GRG" => own = "G" /\ beside = "R" /\ above = "B"
             /\ Sites(pattern)[l] = "GBG" => own = "G" /\ beside = "B" /\ above = "R"
             /\ Sites(pattern)[l] = "RGB" =>
                  own = "R" /\ beside = "G" /\ above = "G" /\ diagonal = "B"
             /\ Sites(pattern)[l] = "BGR" =>
                  own = "B" /\ beside = "G" /\ above = "G" /\ diagonal = "R"
<1> USE DEF Sites, ColourOf, RowParity, ColParity
<1>1. CASE l = 1
  BY <1>1 DEF Patterns
<1>2. CASE l = 2
  BY <1>2 DEF Patterns
<1>3. CASE l = 3
  BY <1>3 DEF Patterns
<1>4. CASE l = 4
  BY <1>4 DEF Patterns
<1> HIDE DEF Sites, ColourOf, RowParity, ColParity
<1> QED
  BY <1>1, <1>2, <1>3, <1>4 DEF Lanes

\* What a lane computes at its pixels has the right colours.
LEMMA RightColours ==
  ASSUME Sized, NEW f \in Formats, NEW p \in Pixels(f), ~OnBorder(f, p),
         NEW v, v = Computed(f, LaneOf(f, p), p)
  PROVE  /\ \A c \in {"R", "G", "B"} :
              /\ \A q \in v[c] : ColourAt(f, q) = c
              /\ v[c] = {} => f.bayer
         /\ v[ColourAt(f, p)] = {p}
<1> DEFINE l == LaneOf(f, p)
           i == RowParity(l)
           j == ColParity(l)
           w == f.width
           site == Sites(f.pattern)[l]
           C(a, b) == ColourOf(f.pattern, a, b)
<1>1. l \in Lanes /\ Row(f, p) % 2 = i /\ Col(f, p) % 2 = j
  BY InnerPlace
<1>2. Row(f, p) \in Nat /\ Row(f, p) > 0 /\ Col(f, p) \in Nat /\ Col(f, p) > 0
  BY InnerPlace, PlaceIn, EdgeIs
<1>3. ColourAt(f, p) = C(i, j)
  BY <1>1, ColourIs
<1>4. \A q \in Beside(p) : ColourAt(f, q) = C(i, 1 - j)
  BY <1>1, <1>2, Around, ColourIs, ParityNext
<1>5. \A q \in Above(p, w) : ColourAt(f, q) = C(1 - i, j)
  BY <1>1, <1>2, Around, ColourIs, ParityNext
<1>6. \A q \in Diagonal(p, w) : ColourAt(f, q) = C(1 - i, 1 - j)
  BY <1>1, <1>2, Around, ColourIs, ParityNext
<1>7. CASE site = "GRG"
  <2>1. C(i, j) = "G" /\ C(i, 1 - j) = "R" /\ C(1 - i, j) = "B"
    BY <1>1, <1>7, Sides, SiteColours
  <2> QED
    BY <1>3, <1>4, <1>5, <1>7, <2>1
       DEF Computed, Raw, Interpolate, Black, Own, Cross, Beside, Above, Diagonal
<1>8. CASE site = "GBG"
  <2>1. C(i, j) = "G" /\ C(i, 1 - j) = "B" /\ C(1 - i, j) = "R"
    BY <1>1, <1>8, Sides, SiteColours
  <2> QED
    BY <1>3, <1>4, <1>5, <1>8, <2>1
       DEF Computed, Raw, Interpolate, Black, Own, Cross, Beside, Above, Diagonal
<1>9. CASE site = "RGB"
  <2>1. C(i, j) = "R" /\ C(i, 1 - j) = "G" /\ C(1 - i, j) = "G" /\ C(1 - i, 1 - j) = "B"
    BY <1>1, <1>9, Sides, SiteColours
  <2> QED
    BY <1>3, <1>4, <1>5, <1>6, <1>9, <2>1
       DEF Computed, Raw, Interpolate, Black, Own, Cross, Beside, Above, Diagonal
<1>10. CASE site = "BGR"
  <2>1. C(i, j) = "B" /\ C(i, 1 - j) = "G" /\ C(1 - i, j) = "G" /\ C(1 - i, 1 - j) = "R"
    BY <1>1, <1>10, Sides, SiteColours
  <2> QED
    BY <1>3, <1>4, <1>5, <1>6, <1>10, <2>1
       DEF Computed, Raw, Interpolate, Black, Own, Cross, Beside, Above, Diagonal
<1> QED
  BY <1>1, <1>7, <1>8, <1>9, <1>10, Sides, SiteIs

-----------------------------------------------------------------------------
\* The loop variables of the lanes never wrap and the caller counts its calls
\* and its border pixels correctly (Bayer8.cpp:219-282).
THEOREM TypeCorrect == ASSUME Sized PROVE Spec => []TypeOK
<1>1. Inv => TypeOK
  BY DEF Inv
<1> QED
  BY <1>1, InvHolds, PTL

\* The four lanes and the border loops write every pixel at most once (but for
\* the black corners), so that they need no lock (Bayer8.cpp:219-282).
THEOREM ThreadsNeedNoLock == ASSUME Sized PROVE Spec => []NoPixelShared
<1>1. Inv => NoPixelShared
  <2> SUFFICES ASSUME Inv PROVE NoPixelShared
    OBVIOUS
  <2>1. TypeOK /\ Places /\ Written
    BY DEF Inv
  <2>2. ASSUME NEW l \in Lanes, AtPixel(l), Pixel(l) \in DOMAIN dest PROVE FALSE
    <3>1. /\ Row(format, Pixel(l)) = y[l] /\ Col(format, Pixel(l)) = x[l]
          /\ ~OnBorder(format, Pixel(l)) /\ LaneOf(format, Pixel(l)) = l
      BY <2>1, <2>2, AtInner
    <3>2. Passed(l, y[l], x[l])
      BY <2>1, <2>2, <3>1 DEF Written
    <3>3. format.height \in Nat /\ format.width \in Nat
      BY <2>1, Sides DEF TypeOK
    <3>4. y[l] \in Nat /\ x[l] \in Nat
      BY <2>1, <3>3 DEF Places
    <3> QED
      BY <3>2, <3>4 DEF Passed
  <2>3. ASSUME border < BorderLength, BorderPixel \in DOMAIN dest
        PROVE  dest[BorderPixel] = Black
    <3>1. format \in Formats /\ border \in Nat
      BY <2>1 DEF TypeOK
    <3>2. OnBorder(format, BorderPixel)
      BY <3>1, <2>3, EdgeOnBorder, BorderPixelIs DEF BorderLength
    <3> QED
      BY <2>1, <2>3, <3>2 DEF Written
  <2> QED
    BY <2>2, <2>3 DEF NoPixelShared
<1> QED
  BY <1>1, InvHolds, PTL

\* Reading all around a pixel stays in the input and writing in the output, for
\* every size of picture (Bayer8.cpp:107-112).
THEOREM AccessesStayInside == ASSUME Sized PROVE Spec => []InPicture
<1>1. Inv => InPicture
  <2> SUFFICES ASSUME Inv, NEW p \in DOMAIN dest
               PROVE  p \in Pixels(format) /\ Sources(dest[p]) \subseteq Pixels(format)
    BY DEF InPicture
  <2>1. format \in Formats /\ p \in Pixels(format)
    BY DEF Inv, TypeOK, Written
  <2>2. CASE OnBorder(format, p)
    <3>1. dest[p] = Black
      BY <2>2 DEF Inv, Written
    <3> QED
      BY <2>1, <3>1 DEF Black, Sources
  <2>3. CASE ~OnBorder(format, p)
    <3>1. dest[p] = Computed(format, LaneOf(format, p), p)
      BY <2>3 DEF Inv, Written
    <3> QED
      BY <2>1, <2>3, <3>1, InnerPlace, SourcesIn
  <2> QED
    BY <2>2, <2>3
<1> QED
  BY <1>1, InvHolds, PTL

\* The picture processV1 returns is complete and of the colours the sensor
\* measured, for every pattern and size and every order of the lanes
\* (Bayer8.cpp:286-330).
THEOREM PictureIsRight == ASSUME Sized PROVE Spec => []Demosaiced
<1>1. Inv => Demosaiced
  <2> SUFFICES ASSUME Inv, Returned PROVE Demosaiced
    BY DEF Demosaiced
  <2>1. TypeOK /\ Places /\ Progress /\ Written /\ Covered /\ format \in Formats /\ calls = 8
    BY DEF Inv, TypeOK, Returned
  <2>2. border = BorderLength /\ \A l \in Lanes : y[l] > LastY(format, l)
    <3>1. \A l \in Lanes : calls > 3 + l
      BY <2>1 DEF Lanes
    <3> QED
      BY <2>1, <3>1 DEF Progress
  <2>3. ASSUME NEW p \in Pixels(format) PROVE p \in DOMAIN dest
    <3>1. CASE OnBorder(format, p)
      <4>1. PICK k \in 0 .. BorderLength - 1 : EdgePixel(format, k) = p
        BY <2>1, <3>1, BorderIsEdges DEF BorderLength
      <4> QED
        BY <2>1, <2>2, <4>1 DEF Covered
    <3>2. CASE ~OnBorder(format, p)
      <4> DEFINE l == LaneOf(format, p)
                 r == Row(format, p)
                 h == format.height
      <4>1. l \in Lanes /\ r \in 1 .. h - 2 /\ r % 2 = RowParity(l)
        BY <2>1, <3>2, InnerPlace
      <4>2. h \in Nat /\ h > 2 /\ h % 2 = 0 /\ y[l] \in 1 .. h
        BY <2>1, <4>1, Sides DEF Places
      <4>3. y[l] > h - (IF l \in {1, 2} THEN 2 ELSE 3)
        BY <2>1, <2>2, <4>1, LastIs
      <4>4. r < y[l]
        <5> HIDE DEF l, r, h
        <5>1. CASE l \in {1, 2}
          BY <5>1, <4>1, <4>2, <4>3
        <5>2. CASE l \notin {1, 2}
          BY <5>2, <4>1, <4>2, <4>3 DEF RowParity
        <5> QED
          BY <5>1, <5>2
      <4> QED
        BY <2>1, <3>2, <4>4 DEF Covered, Passed
    <3> QED
      BY <3>1, <3>2
  <2>4. DOMAIN dest = Pixels(format)
    BY <2>1, <2>3 DEF Written
  <2>5. ASSUME NEW p \in Pixels(format), ~OnBorder(format, p)
        PROVE  /\ \A c \in {"R", "G", "B"} :
                    /\ \A q \in dest[p][c] : ColourAt(format, q) = c
                    /\ dest[p][c] = {} => format.bayer
               /\ dest[p][ColourAt(format, p)] = {p}
    <3>1. dest[p] = Computed(format, LaneOf(format, p), p)
      BY <2>1, <2>3, <2>5 DEF Written
    <3> QED
      BY <2>1, <2>5, <3>1, RightColours
  <2>6. \A p \in Pixels(format) : OnBorder(format, p) => dest[p] = Black
    BY <2>1, <2>4 DEF Written
  <2> QED
    BY <2>4, <2>5, <2>6 DEF Demosaiced
<1> QED
  BY <1>1, InvHolds, PTL
=============================================================================
