----------------------------- MODULE Conversion -----------------------------
(***************************************************************************)
(* The converters that copy a raw picture sample by sample with one pool   *)
(* task per lane: Bayer16 and MIPI (four lanes, output Bayer8) and RGB16   *)
(* and RGB8 (three lanes, output RGB888).  The calling thread enqueues the *)
(* lanes, every lane runs the same loop over rows and columns, and the     *)
(* caller leaves process() after a get() on every future.                  *)
(*                                                                         *)
(* A lane is a task of the TaskService that ThreadPool implements.  A      *)
(* sample is represented by the bytes of the input it is computed from:    *)
(* shifts, masks and the tone table To8Table are abstracted.               *)
(***************************************************************************)
EXTENDS Naturals

CONSTANT Formats    \* the [kind, width, height, stride] a converter is asked for

Packed  == {"MIPI10", "MIPI12", "MIPI14"}
Mosaic  == Packed \cup {"Bayer16"}
Colour  == {"RGB8", "RGBA8", "ARGB8", "RGB16", "RGBA16", "ARGB16"}

ASSUME FormatAssumption ==
  \A f \in Formats :
    /\ f.kind \in Mosaic \cup Colour
    /\ f.width \in Nat /\ f.height \in Nat /\ f.stride \in Nat

Lanes == 0 .. 3

VARIABLES format,   \* m_format and the kind of the converter
          status,   \* of each lane, as a task of the service
          calls,    \* how many of the enqueue() and get() calls have returned
          row, x,   \* the loop variables y and x of each lane
          index,    \* the `index' of each lane
          dest      \* the output written so far: cell -> bytes it was made of

vars == <<format, status, calls, row, x, index, dest>>

Pool == INSTANCE TaskService WITH Tasks <- Lanes, service <- "open"

-----------------------------------------------------------------------------
(* The geometry of each kind.                                              *)

Larger(m, n) == IF m >= n THEN m ELSE n

\* bytes of low bits that follow four samples (MIPI: skip = 4 + bit)
LowBytes(k) == [MIPI10 |-> 1, MIPI12 |-> 2, MIPI14 |-> 3][k]
\* bytes of a channel, and whether the first or last of four channels is dropped
Depth(k)  == IF k \in {"RGB8", "RGBA8", "ARGB8"} THEN 1 ELSE 2
IsARGB(k) == k \in {"ARGB8", "ARGB16"}
IsRGBA(k) == k \in {"RGBA8", "RGBA16"}
Channels(k) == IF IsARGB(k) \/ IsRGBA(k) THEN 4 ELSE 3
FirstColour(k) == IF IsARGB(k) THEN 1 ELSE 0

NumLanes(k) == IF k \in Mosaic THEN 4 ELSE 3

\* x += Step(k) in the loop of a lane
Step(k) ==
  CASE k = "Bayer16" -> 8
    [] k \in Packed  -> 4 + LowBytes(k)
    [] k \in Colour  -> Channels(k) * Depth(k)

\* x starts at Begin(k, l)
Begin(k, l) ==
  CASE k = "Bayer16" -> 2 * l
    [] k = "MIPI12"  -> l + l \div 2
    [] k \in {"MIPI10", "MIPI14"} -> l
    [] k \in Colour  -> (FirstColour(k) + l) * Depth(k)

\* ... and stays below ValidWidth(k, w)
ValidWidth(k, w) ==
  CASE k = "Bayer16" -> w * 2
    [] k \in Packed  -> (w * Step(k)) \div 4
    [] k \in Colour  -> w * Step(k)

\* the position of the second byte of the sample at pos
Second(k, l, pos) ==
  CASE k \in {"MIPI10", "MIPI14"} -> pos + (4 - l)
    [] k = "MIPI12"  -> pos + (2 - (l % 2))
    [] OTHER         -> pos + Depth(k) - 1

Pixels(f) == f.height * f.width

\* setOBufferInfo: the output cells the scheduler allocates
OSize(f) == IF f.kind \in Mosaic THEN Pixels(f) ELSE Pixels(f) * 3

\* getIBufferInfo: the input bytes the scheduler allocates at least
ISize(f) ==
  LET size_wh == CASE f.kind = "Bayer16" -> Pixels(f) * 2
                   [] f.kind \in Packed  -> (Pixels(f) * 5) \div 4
                   [] f.kind \in Colour  -> Pixels(f) * 3 * Depth(f.kind)
  IN  Larger(size_wh, f.height * f.stride)

\* required_size of cvt().  In RGB8.cpp and RGB16.cpp the conditional operator
\* binds last: the whole product is its condition.
Required(f) ==
  CASE f.kind = "Bayer16" -> Pixels(f) * 2
    [] f.kind \in Packed  -> (Pixels(f) * 5) \div 4
    [] f.kind \in Colour  ->
         (IF Channels(f.kind) = 4 /\ Pixels(f) # 0 THEN 4 ELSE 3) * Depth(f.kind)

-----------------------------------------------------------------------------
Init ==
  /\ format \in Formats
  /\ status = [l \in Lanes |-> "new"]
  /\ calls = 0
  /\ row = [l \in Lanes |-> 0]
  /\ x = [l \in Lanes |-> Begin(format.kind, l)]
  /\ index = [l \in Lanes |-> l]
  /\ dest = <<>>

N == NumLanes(format.kind)

\* process() enqueues the lanes in order.  The buffer the scheduler hands over
\* has at least ISize bytes, so cvt() never answers INVALID_FORMAT.
Enqueue ==
  /\ Required(format) <= ISize(format)
  /\ calls < N
  /\ Pool!Accept(calls)
  /\ calls' = calls + 1
  /\ UNCHANGED <<format, row, x, index, dest>>

\* A worker of the pool starts a lane.
Start(l) ==
  /\ Pool!Start(l)
  /\ UNCHANGED <<format, calls, row, x, index, dest>>

AtSample(l) ==
  /\ status[l] = "running"
  /\ row[l] < format.height
  /\ x[l] < ValidWidth(format.kind, format.width)

Position(l) == row[l] * format.stride + x[l]
Bytes(l) == <<Position(l), Second(format.kind, l, Position(l))>>

Store(l, bytes) ==
  dest' = [i \in DOMAIN dest \cup {index[l]} |-> IF i = index[l] THEN bytes ELSE dest[i]]

CopyThen(l, step, gap) ==
  /\ AtSample(l)
  /\ Store(l, Bytes(l))
  /\ x' = [x EXCEPT ![l] = @ + step]
  /\ index' = [index EXCEPT ![l] = @ + gap]
  /\ UNCHANGED <<format, status, calls, row>>

\* Mutants: the output index advances by three for every kind; the position
\* advances by the bytes of the samples only, as if nothing followed them; neither
\* advances, and the lane stays at its first column.
CopyByThree(l)  == CopyThen(l, Step(format.kind), 3)
CopyUnpacked(l) == CopyThen(l, IF format.kind \in Packed THEN 4 ELSE Step(format.kind), N)
CopyInPlace(l)  == CopyThen(l, 0, 0)

\* One iteration of the inner loop: a sample is read, converted and stored.
Copy(l) == CopyThen(l, Step(format.kind), N)

RowThen(l, next) ==
  /\ status[l] = "running"
  /\ row[l] < format.height
  /\ x[l] >= ValidWidth(format.kind, format.width)
  /\ row' = [row EXCEPT ![l] = next]
  /\ x' = [x EXCEPT ![l] = Begin(format.kind, l)]
  /\ UNCHANGED <<format, status, calls, index, dest>>

\* The end of a row.
NextRow(l) == RowThen(l, row[l] + 1)

\* The end of the lane makes its future ready.
Finish(l) ==
  /\ row[l] >= format.height
  /\ Pool!Finish(l)
  /\ UNCHANGED <<format, calls, row, x, index, dest>>

\* Mutant: the futures are dropped, nobody waits.
GetNothing ==
  /\ calls \in N .. 2 * N - 1
  /\ calls' = calls + 1
  /\ UNCHANGED <<format, status, row, x, index, dest>>

\* result.get(), in the order of the lanes.
Get ==
  /\ calls \in N .. 2 * N - 1
  /\ status[calls - N] = "finished"
  /\ calls' = calls + 1
  /\ UNCHANGED <<format, status, row, x, index, dest>>

Returned == calls = 2 * N
Done == Returned /\ UNCHANGED vars

LaneStep(l) == Start(l) \/ Copy(l) \/ NextRow(l) \/ Finish(l)

Next == Enqueue \/ Get \/ Done \/ \E l \in Lanes : LaneStep(l)

\* The pool runs every task it accepted (EveryTaskRuns of ThreadPool) and the
\* calling thread goes on.
Fairness == WF_vars(Enqueue \/ Get) /\ \A l \in Lanes : WF_vars(LaneStep(l))

Spec == Init /\ [][Next]_vars /\ Fairness

-----------------------------------------------------------------------------
TypeOK ==
  /\ format \in Formats
  /\ status \in [Lanes -> Pool!Statuses]
  /\ calls \in Nat
  /\ row \in [Lanes -> Nat] /\ x \in [Lanes -> Nat] /\ index \in [Lanes -> Nat]
  /\ DOMAIN dest \subseteq Nat

\* No cell of the output is written twice, by one lane or by two: the lanes run
\* without a lock on the same buffer, and this is why they may.
NoCellTwice == \A l \in Lanes : AtSample(l) => index[l] \notin DOMAIN dest

\* A lane stays inside the buffers the scheduler allocated from getIBufferInfo
\* and setOBufferInfo.
InBuffers ==
  \A l \in Lanes : AtSample(l) =>
    /\ index[l] < OSize(format)
    /\ Bytes(l)[1] < ISize(format) /\ Bytes(l)[2] < ISize(format)

\* The pixel in row r and column c of a mosaic picture starts at this byte and
\* ends at that one: samples of two bytes, or groups of four (MIPI12: two)
\* samples followed by their low bits.
MosaicPixel(f, r, c) ==
  LET start == r * f.stride
  IN  CASE f.kind = "Bayer16" -> <<start + 2 * c, start + 2 * c + 1>>
        [] f.kind = "MIPI12"  -> <<start + 3 * (c \div 2) + (c % 2), start + 3 * (c \div 2) + 2>>
        [] OTHER ->
             LET group == start + Step(f.kind) * (c \div 4)
             IN  <<group + (c % 4), group + 4>>

ColourPixel(f, r, c, channel) ==
  LET first == r * f.stride + Depth(f.kind) * (Channels(f.kind) * c + FirstColour(f.kind) + channel)
  IN  <<first, first + Depth(f.kind) - 1>>

Picture(f) ==
  [i \in 0 .. OSize(f) - 1 |->
     IF f.kind \in Mosaic
       THEN MosaicPixel(f, i \div f.width, i % f.width)
       ELSE ColourPixel(f, (i \div 3) \div f.width, (i \div 3) % f.width, i % 3)]

\* When process() returns, every output cell holds the pixel of that row,
\* column and channel, and nothing else was written.
Converted == Returned => dest = Picture(format)

\* process() returns: the loops of every lane come to an end, every future becomes
\* ready and the thread that waits for them goes on (Bayer16.cpp:202-249).
Returns == <>Returned
=============================================================================
