------------------------------- MODULE Planar -------------------------------
(***************************************************************************)
(* The converters that run on the calling thread: Gray8 and YUV420SP (NV12 *)
(* and NV21).  One loop over rows and columns writes a pixel of three      *)
(* bytes per step; a pixel is represented by the positions it is computed  *)
(* from, <<gray>> or <<Y, U, V>>.  The product in the chroma index is      *)
(* halved after the multiplication, as in the code.                        *)
(***************************************************************************)
EXTENDS Naturals

CONSTANT Formats    \* the [kind, width, height, stride] a converter is asked for

Chroma == {"NV12", "NV21"}

FormatAssumption ==
  \A f \in Formats :
    /\ f.kind \in {"Gray8"} \cup Chroma
    /\ f.width \in Nat /\ f.height \in Nat /\ f.stride \in Nat

VARIABLES format,   \* m_format and the kind of the converter
          y, x,     \* the loop variables
          dest      \* the pixels written: number -> positions read

vars == <<format, y, x, dest>>

Larger(m, n) == IF m >= n THEN m ELSE n
Pixels(f) == f.height * f.width

\* testIBuffer: both keep the one of the class CVT.
Accepted(f) == f.height # 0 /\ f.width # 0

\* required_size of cvt(): it does not look at the stride.
Required(f) == IF f.kind = "Gray8" THEN Pixels(f) ELSE (Pixels(f) * 3) \div 2

\* getIBufferInfo: the bytes of input the scheduler allocates at least
ISize(f) == Larger(Required(f), f.height * f.stride)

Init ==
  /\ format \in {f \in Formats : Accepted(f) /\ Required(f) <= ISize(f)}
  /\ y = 0
  /\ x = 0
  /\ dest = <<>>

AtPixel == y < format.height /\ x < format.width
Number  == y * format.width + x

\* Mutant: the rows of the picture are taken to follow each other.
GrayAtUnpadded(f, r, c) == <<r * f.width + c>>
GrayAt(f, r, c) == <<r * f.stride + c>>

\* Mutant: the chroma row advances with every row of the picture.
UVIndexEveryRow(f, r, c) == ((r * f.width) \div 2 + c \div 2) * 2
UVIndex(f, r, c) == (((r \div 2) * f.width) \div 2 + c \div 2) * 2

ColourAt(f, r, c) ==
  LET uv == Pixels(f) + UVIndex(f, r, c)
  IN  <<c + r * f.width,
        IF f.kind = "NV12" THEN uv ELSE uv + 1,
        IF f.kind = "NV12" THEN uv + 1 ELSE uv>>

Read(f, r, c) == IF f.kind = "Gray8" THEN GrayAt(f, r, c) ELSE ColourAt(f, r, c)

\* One iteration of the inner loop.
Pixel ==
  /\ AtPixel
  /\ dest' = [n \in DOMAIN dest \cup {Number} |->
                IF n = Number THEN Read(format, y, x) ELSE dest[n]]
  /\ x' = x + 1
  /\ UNCHANGED <<format, y>>

NextRow ==
  /\ y < format.height
  /\ x >= format.width
  /\ y' = y + 1
  /\ x' = 0
  /\ UNCHANGED <<format, dest>>

Returned == y >= format.height
Done == Returned /\ UNCHANGED vars

Next == Pixel \/ NextRow \/ Done

Spec == Init /\ [][Next]_vars

-----------------------------------------------------------------------------
\* Every read stays in the buffer getIBufferInfo asked for, the chroma plane
\* behind the luma plane included (YUV420SP.cpp:77-96, Gray8.cpp:60-67).
InBuffer == AtPixel => \A i \in DOMAIN Read(format, y, x) : Read(format, y, x)[i] < ISize(format)

\* A picture in planes: the chroma plane has one pair of bytes per two columns
\* and two rows, U first in NV12 and V first in NV21.
Sample(f, r, c) ==
  IF f.kind = "Gray8" THEN <<r * f.stride + c>>
  ELSE LET pair  == (r \div 2) * (f.width \div 2) + c \div 2
           first == Pixels(f) + 2 * pair
       IN  IF f.kind = "NV12" THEN <<r * f.width + c, first, first + 1>>
                              ELSE <<r * f.width + c, first + 1, first>>

\* When process() returns every pixel is computed from its own samples, and no
\* pixel is missing.
Converted ==
  Returned => dest = [n \in 0 .. Pixels(format) - 1 |->
                        Sample(format, n \div format.width, n % format.width)]
=============================================================================
