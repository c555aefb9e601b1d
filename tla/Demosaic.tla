------------------------------ MODULE Demosaic ------------------------------
(***************************************************************************)
(* Bayer8::processV1 (src/cvts/Bayer8/Bayer8.cpp, the version that         *)
(* CMakeLists.txt builds): a picture with one colour per pixel becomes     *)
(* RGB888.  Four pool tasks each fill the inner pixels of one place of the *)
(* 2x2 colour pattern, while the calling thread blackens the border and    *)
(* then waits for them.                                                    *)
(*                                                                         *)
(* An output pixel (three bytes) is represented by the input positions     *)
(* each of its channels is averaged from; none means zero.  The loop       *)
(* bounds are size_t: their subtractions wrap at Word.                     *)
(***************************************************************************)
EXTENDS Naturals

CONSTANTS Formats,   \* the [pattern, width, height, bayer] the converter is asked for
          Word       \* 2^64: the number of values of size_t

Patterns == {"RGGB", "BGGR", "GRBG", "GBRG"}

ASSUME FormatAssumption ==
  /\ \A f \in Formats :
       /\ f.pattern \in Patterns /\ f.bayer \in BOOLEAN
       /\ f.width \in Nat /\ f.height \in Nat
  /\ Word \in Nat /\ Word > 3

Lanes == 1 .. 4      \* processP1 .. processP4

VARIABLES format,    \* m_format, m_cvtypeout and m_bp
          status,    \* of each lane, as a task of the service
          calls,     \* how many of the enqueue() and get() calls have returned
          border,    \* how many pixels of the four border loops are done
          y, x,      \* the loop variables of each lane
          dest       \* the pixels written so far

vars == <<format, status, calls, border, y, x, dest>>

Pool == INSTANCE TaskService WITH Tasks <- Lanes, service <- "open"

Minus(a, b) == (a + Word - b) % Word

-----------------------------------------------------------------------------
(* What is computed at one pixel.                                          *)

Own(p)           == {p}
Beside(p)        == {p - 1, p + 1}
Above(p, w)      == {p - w, p + w}
Cross(p, w)      == Beside(p) \cup Above(p, w)
Diagonal(p, w)   == Beside(p - w) \cup Beside(p + w)

Black == [R |-> {}, G |-> {}, B |-> {}]

\* The four functions GRG, GBG, RGB and BGR, by the sources of each channel.
Interpolate(site, p, w) ==
  CASE site = "GRG" -> [R |-> Beside(p), G |-> Own(p), B |-> Above(p, w)]
    [] site = "GBG" -> [R |-> Above(p, w), G |-> Own(p), B |-> Beside(p)]
    [] site = "RGB" -> [R |-> Own(p), G |-> Cross(p, w), B |-> Diagonal(p, w)]
    [] site = "BGR" -> [R |-> Diagonal(p, w), G |-> Cross(p, w), B |-> Own(p)]

\* With m_bp the pixel keeps its own colour and the other channels are zero.
Raw(site, p) ==
  CASE site \in {"GRG", "GBG"} -> [Black EXCEPT !.G = Own(p)]
    [] site = "RGB" -> [Black EXCEPT !.R = Own(p)]
    [] site = "BGR" -> [Black EXCEPT !.B = Own(p)]

\* Mutant: P2 and P3 exchanged.
SitesSwapped(pattern) ==
  CASE pattern = "BGGR" -> <<"BGR", "GRG", "GBG", "RGB">>
    [] pattern = "GBRG" -> <<"GBG", "RGB", "BGR", "GRG">>
    [] pattern = "GRBG" -> <<"GRG", "BGR", "RGB", "GBG">>
    [] pattern = "RGGB" -> <<"RGB", "GBG", "GRG", "BGR">>

\* The function each lane applies: P1, P2, P3, P4.
Sites(pattern) ==
  CASE pattern = "BGGR" -> <<"BGR", "GBG", "GRG", "RGB">>
    [] pattern = "GBRG" -> <<"GBG", "BGR", "RGB", "GRG">>
    [] pattern = "GRBG" -> <<"GRG", "RGB", "BGR", "GBG">>
    [] pattern = "RGGB" -> <<"RGB", "GRG", "GBG", "BGR">>

\* The loops of the lanes.
YBegin(l) == IF l \in {1, 2} THEN 2 ELSE 1
XBeginSame(l) == IF l = 1 THEN 2 ELSE 1    \* mutant: P3 starts where P4 does
XBegin(l) == IF l \in {1, 3} THEN 2 ELSE 1
LastYFull(f, l) == f.height                \* mutant: y <= height
LastY(f, l) == IF l \in {1, 2} THEN Minus(f.height, 2) ELSE Minus(f.height, 3)
LastX(f, l) == IF l \in {1, 3} THEN Minus(f.width, 2) ELSE Minus(f.width, 3)

-----------------------------------------------------------------------------
Init ==
  /\ format \in Formats
  /\ status = [l \in Lanes |-> "new"]
  /\ calls = 0
  /\ border = 0
  /\ y = [l \in Lanes |-> YBegin(l)]
  /\ x = [l \in Lanes |-> XBegin(l)]
  /\ dest = <<>>

Enqueue ==
  /\ calls < 4
  /\ Pool!Accept(calls + 1)
  /\ calls' = calls + 1
  /\ UNCHANGED <<format, border, y, x, dest>>

Store(p, value) ==
  dest' = [q \in DOMAIN dest \cup {p} |-> IF q = p THEN value ELSE dest[q]]

\* The pixel the border loops are at: first row, last row, first column, last
\* column; the corners are met twice.
BorderPixel ==
  LET w == format.width
      h == format.height
  IN  IF border < w              THEN border
      ELSE IF border < 2 * w     THEN (h - 1) * w + (border - w)
      ELSE IF border < 2 * w + h THEN (border - 2 * w) * w
      ELSE (border - 2 * w - h) * w + (w - 1)

BorderLength == 2 * (format.width + format.height)

Blacken ==
  /\ calls = 4
  /\ Store(BorderPixel, Black)
  /\ border' = border + 1
  /\ UNCHANGED <<format, status, calls, y, x>>

\* processPboder runs on the calling thread, between the last enqueue() and the
\* first get().
Border == border < BorderLength /\ Blacken

Start(l) == Pool!Start(l) /\ UNCHANGED <<format, calls, border, y, x, dest>>

AtPixel(l) ==
  /\ status[l] = "running"
  /\ y[l] <= LastY(format, l)
  /\ x[l] <= LastX(format, l)

Pixel(l) == y[l] * format.width + x[l]

Value(l) ==
  LET site == Sites(format.pattern)[l]
  IN  IF format.bayer THEN Raw(site, Pixel(l)) ELSE Interpolate(site, Pixel(l), format.width)

Fill(l) ==
  /\ AtPixel(l)
  /\ Store(Pixel(l), Value(l))
  /\ x' = [x EXCEPT ![l] = (@ + 2) % Word]
  /\ UNCHANGED <<format, status, calls, border, y>>

RowThen(l, next) ==
  /\ status[l] = "running"
  /\ y[l] <= LastY(format, l)
  /\ x[l] > LastX(format, l)
  /\ y' = [y EXCEPT ![l] = next]
  /\ x' = [x EXCEPT ![l] = XBegin(l)]
  /\ UNCHANGED <<format, status, calls, border, dest>>

SameRow(l) == RowThen(l, y[l])             \* mutant: y is not advanced
NextRow(l) == RowThen(l, (y[l] + 2) % Word)

Finish(l) ==
  /\ y[l] > LastY(format, l)
  /\ Pool!Finish(l)
  /\ UNCHANGED <<format, calls, border, y, x, dest>>

Get ==
  /\ calls \in 4 .. 7
  /\ border = BorderLength
  /\ status[calls - 3] = "finished"
  /\ calls' = calls + 1
  /\ UNCHANGED <<format, status, border, y, x, dest>>

Returned == calls = 8
Done == Returned /\ UNCHANGED vars

LaneStep(l) == Start(l) \/ Fill(l) \/ NextRow(l) \/ Finish(l)

Next == Enqueue \/ Border \/ Get \/ Done \/ \E l \in Lanes : LaneStep(l)

\* As in Conversion: the pool runs what it accepted, the caller goes on.
Fairness == WF_vars(Enqueue \/ Border \/ Get) /\ \A l \in Lanes : WF_vars(LaneStep(l))

Spec == Init /\ [][Next]_vars /\ Fairness

-----------------------------------------------------------------------------
Pixels(f) == 0 .. f.width * f.height - 1

TypeOK ==
  /\ format \in Formats
  /\ status \in [Lanes -> Pool!Statuses]
  /\ calls \in 0 .. 8
  /\ border \in 0 .. BorderLength
  /\ y \in [Lanes -> 0 .. Word - 1] /\ x \in [Lanes -> 0 .. Word - 1]
  /\ DOMAIN dest \subseteq Nat

\* Five threads write the picture without a lock, yet no pixel is written by
\* two of them, and by a lane only once (Bayer8.cpp:219-282).
NoPixelShared ==
  /\ \A l \in Lanes : AtPixel(l) => Pixel(l) \notin DOMAIN dest
  /\ calls = 4 /\ border < BorderLength /\ BorderPixel \in DOMAIN dest
       => dest[BorderPixel] = Black

Sources(value) == value.R \cup value.G \cup value.B

\* Every pixel written lies in the output and every neighbour read in the input
\* (Bayer8.cpp:107-112 and the like read all around a pixel).
InPicture ==
  \A p \in DOMAIN dest : p \in Pixels(format) /\ Sources(dest[p]) \subseteq Pixels(format)

\* The colour the sensor measured at a pixel: the pattern names the colours of
\* (0,0), (0,1), (1,0) and (1,1).
ColourAt(f, p) ==
  LET evenRow == (p \div f.width) % 2 = 0
      evenCol == (p % f.width) % 2 = 0
      redRow == f.pattern \in {"RGGB", "GRBG"}       \* red lies in even rows
      redCol == f.pattern \in {"RGGB", "GBRG"}       \* ... in even columns
  IN  CASE evenRow = redRow /\ evenCol = redCol -> "R"
        [] evenRow # redRow /\ evenCol # redCol -> "B"
        [] OTHER -> "G"

OnBorder(f, p) ==
  \/ p \div f.width \in {0, f.height - 1}
  \/ p % f.width \in {0, f.width - 1}

\* When processV1 returns the whole picture is there: black at the border, and
\* inside it each channel is made of pixels that measured this colour only, of
\* at least one of them unless the raw mosaic was asked for.
Demosaiced ==
  Returned =>
    /\ DOMAIN dest = Pixels(format)
    /\ \A p \in Pixels(format) :
         IF OnBorder(format, p)
           THEN dest[p] = Black
           ELSE /\ \A c \in {"R", "G", "B"} :
                     /\ \A q \in dest[p][c] : ColourAt(format, q) = c
                     /\ dest[p][c] = {} => format.bayer
                /\ dest[p][ColourAt(format, p)] = {p}

\* processV1 returns.
Returns == <>Returned
=============================================================================
