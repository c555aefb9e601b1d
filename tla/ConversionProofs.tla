-------------------------- MODULE ConversionProofs --------------------------
(***************************************************************************)
(* The lanes of a converter never write the same output cell, for every    *)
(* kind, width, height and stride and every interleaving: no assumption on *)
(* the format is needed, in particular not that a row is a whole number of *)
(* groups.  The reason is arithmetic: lane l only ever holds indices that  *)
(* leave the remainder l, and they only grow.                              *)
(*                                                                         *)
(* For rows of whole groups that fit in their stride the lanes also stay   *)
(* in the buffers and the picture they return is right: a lane in group g  *)
(* of its row has its position and its index at the same sample.           *)
(***************************************************************************)
EXTENDS Conversion, TLAPS

\* The indices of lane l leave remainder l, lanes a kind has no use for are
\* never started, and what was written lies below the index of its lane.
Residues ==
  /\ TypeOK
  /\ \A l \in Lanes : l < N => index[l] % N = l
  /\ \A l \in Lanes : l >= N => status[l] = "new"
  /\ \A i \in DOMAIN dest : \E l \in Lanes : l < N /\ i % N = l /\ i < index[l]

LEMMA KindsAreKnown == TypeOK => format.kind \in Mosaic \cup Colour
BY FormatAssumption DEF TypeOK

\* Every kind advances by a positive number of bytes and starts in the row.
LEMMA Geometry ==
  ASSUME NEW k \in Mosaic \cup Colour, NEW l \in Lanes
  PROVE  Step(k) \in Nat /\ Begin(k, l) \in Nat
<1> USE DEF Lanes, Step, Begin, LowBytes, Depth, Channels, FirstColour, IsARGB, IsRGBA
<1>1. CASE k = "Bayer16"
  BY <1>1 DEF Packed
<1>2. CASE k \in Packed
  <2>1. l + l \div 2 \in Nat
    OBVIOUS
  <2> QED
    BY <1>2, <2>1 DEF Packed
<1>3. CASE k \in Colour
  <2>1. FirstColour(k) \in Nat /\ Depth(k) \in {1, 2} /\ Channels(k) \in {3, 4}
    OBVIOUS
  <2>2. Step(k) = Channels(k) * Depth(k) /\ Begin(k, l) = (FirstColour(k) + l) * Depth(k)
    BY <1>3 DEF Colour, Packed
  <2>3. FirstColour(k) + l \in Nat /\ \A j \in Nat : j * 1 \in Nat /\ j * 2 \in Nat
    BY <2>1
  <2> HIDE DEF Step, Begin, Depth, Channels, FirstColour
  <2>4. Begin(k, l) \in Nat
    BY <2>1, <2>2, <2>3
  <2>5. Step(k) \in Nat
    BY <2>1, <2>2
  <2> QED
    BY <2>4, <2>5
<1> QED
  BY <1>1, <1>2, <1>3 DEF Mosaic

LEMMA LaneCount == N \in {3, 4}
BY DEF N, NumLanes

LEMMA Remainder ==
  ASSUME NEW i \in Nat, NEW n \in {3, 4}
  PROVE  (i + n) % n = i % n
<1>1. CASE n = 3
  BY <1>1, SMT
<1>2. CASE n = 4
  BY <1>2, SMT
<1> QED
  BY <1>1, <1>2

LEMMA InitTypeOK == Init => TypeOK
<1> SUFFICES ASSUME Init PROVE TypeOK
  OBVIOUS
<1>1. format \in Formats /\ status \in [Lanes -> Pool!Statuses] /\ calls \in Nat
  BY DEF Init, Pool!Statuses
<1>2. row \in [Lanes -> Nat] /\ index \in [Lanes -> Nat]
  BY DEF Init, Lanes
<1>3. x \in [Lanes -> Nat]
  <2>1. format.kind \in Mosaic \cup Colour
    BY <1>1, FormatAssumption
  <2> QED
    BY <2>1, Geometry DEF Init
<1>4. DOMAIN dest \subseteq Nat
  BY DEF Init
<1> QED
  BY <1>1, <1>2, <1>3, <1>4 DEF TypeOK

\* The lanes of the service change status one at a time.
LEMMA StatusesOK ==
  ASSUME TypeOK, NEW l \in Lanes,
         \/ Pool!Accept(l) \/ Pool!Start(l) \/ Pool!Finish(l)
  PROVE  status' \in [Lanes -> Pool!Statuses] /\ \A m \in Lanes \ {l} : status'[m] = status[m]
BY DEF TypeOK, Pool!Accept, Pool!Start, Pool!Finish, Pool!Become, Pool!Statuses

LEMMA NextTypeOK == TypeOK /\ [Next]_vars => TypeOK'
<1> SUFFICES ASSUME TypeOK, [Next]_vars PROVE TypeOK'
  OBVIOUS
<1>0. format.kind \in Mosaic \cup Colour /\ N \in {3, 4}
  BY KindsAreKnown, LaneCount
<1>1. CASE Enqueue
  <2>1. calls \in Lanes
    BY <1>1, <1>0 DEF Enqueue, TypeOK, Lanes
  <2> QED
    BY <1>1, <2>1, StatusesOK DEF Enqueue, TypeOK
<1>2. CASE Get
  BY <1>2 DEF Get, TypeOK
<1>3. ASSUME NEW l \in Lanes, Start(l) PROVE TypeOK'
  BY <1>3, StatusesOK DEF Start, TypeOK
<1>4. ASSUME NEW l \in Lanes, Copy(l) PROVE TypeOK'
  <2>1. index' \in [Lanes -> Nat]
    BY <1>4, <1>0 DEF Copy, CopyThen, TypeOK
  <2>2. x' \in [Lanes -> Nat]
    BY <1>4, <1>0, Geometry DEF Copy, CopyThen, TypeOK
  <2>3. DOMAIN dest' \subseteq Nat
    BY <1>4 DEF Copy, CopyThen, Store, TypeOK
  <2> QED
    BY <1>4, <2>1, <2>2, <2>3 DEF Copy, CopyThen, TypeOK
<1>5. ASSUME NEW l \in Lanes, NextRow(l) PROVE TypeOK'
  <2>1. row' \in [Lanes -> Nat]
    BY <1>5 DEF NextRow, RowThen, TypeOK
  <2>2. x' \in [Lanes -> Nat]
    BY <1>5, <1>0, Geometry DEF NextRow, RowThen, TypeOK
  <2> QED
    BY <1>5, <2>1, <2>2 DEF NextRow, RowThen, TypeOK
<1>6. ASSUME NEW l \in Lanes, Finish(l) PROVE TypeOK'
  BY <1>6, StatusesOK DEF Finish, TypeOK
<1>7. CASE UNCHANGED vars
  BY <1>7 DEF vars, TypeOK
<1> QED
  BY <1>1, <1>2, <1>3, <1>4, <1>5, <1>6, <1>7 DEF Next, LaneStep, Done

-----------------------------------------------------------------------------
LEMMA InitResidues == Init => Residues
<1> SUFFICES ASSUME Init PROVE Residues
  OBVIOUS
<1>1. \A l \in Lanes : l < N => l % N = l
  <2>1. CASE N = 3
    BY <2>1 DEF Lanes
  <2>2. CASE N = 4
    BY <2>2 DEF Lanes
  <2> QED
    BY <2>1, <2>2, LaneCount
<1>2. DOMAIN dest = {}
  BY DEF Init
<1>3. \A l \in Lanes : l < N => index[l] % N = l
  BY <1>1 DEF Init
<1>4. \A l \in Lanes : l >= N => status[l] = "new"
  BY DEF Init
<1> QED
  BY <1>2, <1>3, <1>4, InitTypeOK DEF Residues

\* A copy moves the index of one lane by the number of lanes and adds the cell
\* it leaves behind.
LEMMA CopyKeepsResidues ==
  ASSUME Residues, TypeOK', NEW l \in Lanes, Copy(l)
  PROVE  Residues'
<1> USE DEF Residues, TypeOK
<1>1. N' = N /\ status' = status
  BY DEF Copy, CopyThen, N
<1>2. l < N
  BY LaneCount DEF Copy, CopyThen, AtSample, Lanes
<1>3. index' = [index EXCEPT ![l] = index[l] + N]
  BY DEF Copy, CopyThen
<1>4. DOMAIN dest' = DOMAIN dest \cup {index[l]}
  BY DEF Copy, CopyThen, Store
<1>5. \A m \in Lanes : index[m] <= index'[m]
  BY <1>3, LaneCount
<1>6. \A m \in Lanes : m < N => index'[m] % N = m
  BY <1>3, LaneCount, Remainder
<1>7. ASSUME NEW i \in DOMAIN dest'
      PROVE  \E m \in Lanes : m < N /\ i % N = m /\ i < index'[m]
  <2>1. CASE i \in DOMAIN dest
    <3>1. PICK m \in Lanes : m < N /\ i % N = m /\ i < index[m]
      BY <2>1
    <3>2. i \in Nat /\ index[m] \in Nat /\ index'[m] \in Nat
      BY <2>1
    <3>3. i < index'[m]
      BY <3>1, <3>2, <1>5
    <3> QED
      BY <3>1, <3>3
  <2>2. CASE i = index[l]
    BY <2>2, <1>2, <1>3, LaneCount
  <2> QED
    BY <1>4, <2>1, <2>2
<1> QED
  BY <1>1, <1>6, <1>7

LEMMA NextResidues == Residues /\ [Next]_vars => Residues'
<1> SUFFICES ASSUME Residues, [Next]_vars PROVE Residues'
  OBVIOUS
<1> USE DEF Residues
<1>0. TypeOK' /\ N \in {3, 4}
  BY NextTypeOK, LaneCount
<1>1. CASE Enqueue
  <2>1. calls \in Lanes /\ calls < N
    BY <1>1, <1>0 DEF Enqueue, TypeOK, Lanes
  <2>a. Pool!Accept(calls)
    BY <1>1 DEF Enqueue
  <2>b. \A m \in Lanes \ {calls} : status'[m] = status[m]
    BY <2>1, <2>a, StatusesOK
  <2>2. \A l \in Lanes : l >= N => status'[l] = "new"
    BY <2>1, <2>b, <1>0 DEF Lanes
  <2>3. N' = N /\ index' = index /\ dest' = dest
    BY <1>1 DEF Enqueue, N
  <2> QED
    BY <2>2, <2>3, <1>0
<1>2. CASE Get
  BY <1>2, <1>0 DEF Get, N
<1>3. ASSUME NEW l \in Lanes, Start(l) \/ Finish(l) PROVE Residues'
  <2>1. status[l] # "new"
    BY <1>3 DEF Start, Finish, Pool!Start, Pool!Finish, Pool!Become
  <2>2. \A m \in Lanes \ {l} : status'[m] = status[m]
    BY <1>3, StatusesOK DEF Start, Finish
  <2>3. N' = N /\ index' = index /\ dest' = dest
    BY <1>3 DEF Start, Finish, N
  <2> QED
    BY <2>1, <2>2, <2>3, <1>0
<1>4. ASSUME NEW l \in Lanes, Copy(l) PROVE Residues'
  BY <1>4, <1>0, CopyKeepsResidues
<1>5. ASSUME NEW l \in Lanes, NextRow(l) PROVE Residues'
  BY <1>5, <1>0 DEF NextRow, RowThen, N
<1>6. CASE UNCHANGED vars
  BY <1>6, <1>0 DEF vars, N
<1> QED
  BY <1>1, <1>2, <1>3, <1>4, <1>5, <1>6 DEF Next, LaneStep, Done

-----------------------------------------------------------------------------
\* The variables of a conversion keep their types: positions and indices never
\* become negative and nothing but cells is written (Bayer16.cpp:202-214).
THEOREM TypeCorrect == Spec => []TypeOK
<1>1. Init => TypeOK
  BY InitTypeOK
<1>2. TypeOK /\ [Next]_vars => TypeOK'
  BY NextTypeOK
<1> QED
  BY <1>1, <1>2, PTL DEF Spec

LEMMA ResiduesHold == Spec => []Residues
<1>1. Init => Residues
  BY InitResidues
<1>2. Residues /\ [Next]_vars => Residues'
  BY NextResidues
<1> QED
  BY <1>1, <1>2, PTL DEF Spec

\* No cell is written twice: the lanes of Bayer16.cpp:217-243, MIPI.cpp:229-254
\* and the three of RGB16.cpp and RGB8.cpp need no lock, whatever the format.
THEOREM LanesNeedNoLock == Spec => []NoCellTwice
<1>1. Residues => NoCellTwice
  <2> SUFFICES ASSUME Residues, NEW l \in Lanes, AtSample(l), index[l] \in DOMAIN dest
               PROVE  FALSE
    BY DEF NoCellTwice
  <2>1. l < N
    BY LaneCount DEF AtSample, Residues, Lanes
  <2>2. PICK m \in Lanes : index[l] % N = m /\ index[l] < index[m]
    BY DEF Residues
  <2>3. m = l
    BY <2>1, <2>2 DEF Residues
  <2>4. index[l] \in Nat
    BY DEF Residues, TypeOK
  <2> QED
    BY <2>2, <2>3, <2>4
<1> QED
  BY <1>1, ResiduesHold, PTL

-----------------------------------------------------------------------------
(* The places of the lanes.                                                *)

\* The formats the theorems below are about.
Whole ==
  \A f \in Formats :
    /\ f.kind \in Mosaic => f.width % 4 = 0
    /\ ValidWidth(f.kind, f.width) <= f.stride

\* The iterations of a lane in a row.
Groups(f) == IF f.kind \in Mosaic THEN f.width \div 4 ELSE f.width

Cell(f, i) ==
  IF f.kind \in Mosaic
    THEN MosaicPixel(f, i \div f.width, i % f.width)
    ELSE ColourPixel(f, (i \div 3) \div f.width, (i \div 3) % f.width, i % 3)

\* Lane l is at group g of its row.
At(l, g) ==
  /\ x[l] = Begin(format.kind, l) + Step(format.kind) * g
  /\ index[l] = l + N * (row[l] * Groups(format) + g)
  /\ row[l] = format.height => g = 0

Places ==
  \A l \in Lanes : l < N =>
    row[l] <= format.height /\ \E g \in 0 .. Groups(format) : At(l, g)

\* The caller has the result only of lanes that went over all rows.
Progress ==
  \A l \in Lanes :
    /\ l < N /\ calls > N + l => status[l] = "finished"
    /\ status[l] = "finished" => row[l] >= format.height

\* What is written is the right pixel, and a lane has written all its cells
\* below its index.
Written ==
  /\ dest = [i \in DOMAIN dest |-> dest[i]]
  /\ \A i \in DOMAIN dest : i \in 0 .. OSize(format) - 1 /\ dest[i] = Cell(format, i)

Covered ==
  \A l \in Lanes, i \in Nat : l < N /\ i % N = l /\ i < index[l] => i \in DOMAIN dest

Inv == Residues /\ Places /\ Progress /\ Written /\ Covered

LEMMA RowsFit ==
  ASSUME NEW w \in Nat, NEW h \in Nat, NEW r \in Nat, r < h, NEW c \in Nat, c < w
  PROVE  r * w + c \in Nat /\ r * w + c < h * w
<1>1. PICK d \in Nat : h = r + 1 + d
  OBVIOUS
<1>2. h * w = r * w + w + d * w /\ d * w \in Nat /\ r * w \in Nat
  BY <1>1
<1> QED
  BY <1>2

LEMMA DivMod ==
  ASSUME NEW w \in Nat, NEW r \in Nat, NEW c \in Nat, c < w
  PROVE  (r * w + c) \div w = r /\ (r * w + c) % w = c
OBVIOUS

\* Within its group: a lane is before the end of the row exactly in the groups
\* before the last.
LEMMA GroupsEnd ==
  ASSUME NEW s \in Nat, NEW b \in Nat, b < s, NEW g \in Nat, NEW n \in Nat
  PROVE  /\ g < n => b + s * g < s * n
         /\ g >= n => b + s * g >= s * n
<1>1. CASE g < n
  <2>1. PICK d \in Nat : n = g + 1 + d
    BY <1>1
  <2>2. s * n = s * g + s + s * d /\ s * g \in Nat /\ s * d \in Nat
    BY <2>1
  <2> QED
    BY <1>1, <2>2
<1>2. CASE g >= n
  <2>1. PICK d \in Nat : g = n + d
    BY <1>2
  <2>2. s * g = s * n + s * d /\ s * n \in Nat /\ s * d \in Nat
    BY <2>1
  <2> QED
    BY <1>2, <2>2
<1> QED
  BY <1>1, <1>2

LEMMA FormatIs ==
  ASSUME NEW f \in Formats
  PROVE  /\ f.kind \in Mosaic \cup Colour
         /\ f.width \in Nat /\ f.height \in Nat /\ f.stride \in Nat
BY FormatAssumption

\* The bytes of a sample lie in the group of its lane.
LEMMA SampleInGroup ==
  ASSUME NEW k \in Mosaic \cup Colour, NEW l \in Lanes, l < NumLanes(k)
  PROVE  /\ Step(k) \in Nat /\ Begin(k, l) \in Nat /\ Begin(k, l) < Step(k)
         /\ \A p \in Nat : /\ Second(k, l, p) \in Nat
                           /\ Second(k, l, p) + Begin(k, l) < p + Step(k)
<1> USE DEF Lanes, NumLanes, Mosaic, Packed, Colour, Step, Begin, Second, LowBytes
<1>1. CASE k = "Bayer16"
  BY <1>1 DEF Depth
<1>2. CASE k = "MIPI10"
  BY <1>2
<1>3. CASE k = "MIPI12"
  <2>1. l \in {0, 1, 2, 3}
    OBVIOUS
  <2>2. l + l \div 2 \in Nat /\ l + l \div 2 < 6 /\ \A p \in Nat : p + (2 - (l % 2)) \in Nat
    BY <2>1
  <2>3. 2 - (l % 2) + (l + l \div 2) < 6
    BY <2>1
  <2> QED
    BY <1>3, <2>2, <2>3
<1>4. CASE k = "MIPI14"
  BY <1>4
<1>5. CASE k \in Colour
  <2> USE DEF Depth, Channels, FirstColour, IsARGB, IsRGBA
  <2>1. CASE k = "RGB8"
    BY <2>1
  <2>2. CASE k = "RGBA8"
    BY <2>2
  <2>3. CASE k = "ARGB8"
    BY <2>3
  <2>4. CASE k = "RGB16"
    BY <2>4
  <2>5. CASE k = "RGBA16"
    BY <2>5
  <2>6. CASE k = "ARGB16"
    BY <2>6
  <2> QED
    BY <1>5, <2>1, <2>2, <2>3, <2>4, <2>5, <2>6
<1> QED
  BY <1>1, <1>2, <1>3, <1>4, <1>5

\* A row is a whole number of groups.
LEMMA RowIs ==
  ASSUME Whole, NEW f \in Formats
  PROVE  /\ Groups(f) \in Nat /\ ValidWidth(f.kind, f.width) = Step(f.kind) * Groups(f)
         /\ Step(f.kind) * Groups(f) <= f.stride
         /\ f.kind \in Mosaic => f.width = 4 * Groups(f)
<1>1. f.kind \in Mosaic \cup Colour /\ f.width \in Nat
  BY FormatIs
<1>2. CASE f.kind \in Mosaic
  <2>1. Groups(f) \in Nat /\ f.width = 4 * Groups(f)
    BY <1>1, <1>2 DEF Whole, Groups
  <2>2. CASE f.kind = "Bayer16"
    <3>1. ValidWidth(f.kind, f.width) = f.width * 2 /\ Step(f.kind) = 8
      BY <2>2 DEF ValidWidth, Step, Packed, Colour
    <3> QED
      BY <2>1, <3>1 DEF Whole
  <2>3. CASE f.kind \in Packed
    <3>1. Step(f.kind) \in Nat
      BY <2>3 DEF Step, Packed, LowBytes, Colour
    <3>2. ValidWidth(f.kind, f.width) = (f.width * Step(f.kind)) \div 4
      BY <2>3 DEF ValidWidth, Packed, Colour
    <3>3. f.width * Step(f.kind) = (Step(f.kind) * Groups(f)) * 4 /\ Step(f.kind) * Groups(f) \in Nat
      BY <2>1, <3>1
    <3>4. ValidWidth(f.kind, f.width) = Step(f.kind) * Groups(f)
      BY <3>2, <3>3
    <3> QED
      BY <2>1, <3>4 DEF Whole
  <2> QED
    BY <1>2, <2>2, <2>3 DEF Mosaic
<1>3. CASE f.kind \in Colour
  <2>1. f.kind \notin Mosaic /\ Groups(f) = f.width
    BY <1>3 DEF Groups, Colour, Mosaic, Packed
  <2>2. ValidWidth(f.kind, f.width) = f.width * Step(f.kind)
    BY <1>3 DEF ValidWidth, Packed, Colour
  <2>3. Step(f.kind) \in Nat
    BY <1>1, Geometry DEF Lanes
  <2>4. f.width * Step(f.kind) = Step(f.kind) * f.width
    BY <1>1, <2>3
  <2> QED
    BY <1>1, <2>1, <2>2, <2>4 DEF Whole
<1> QED
  BY <1>1, <1>2, <1>3

\* A sample of a lane is read inside the input, and its cell is in the output.
LEMMA SampleInside ==
  ASSUME Whole, NEW f \in Formats,
         NEW l \in Lanes, l < NumLanes(f.kind),
         NEW r \in Nat, r < f.height, NEW g \in Nat, g < Groups(f),
         NEW p, p = r * f.stride + (Begin(f.kind, l) + Step(f.kind) * g)
  PROVE  /\ p \in Nat /\ p < ISize(f)
         /\ Second(f.kind, l, p) < ISize(f)
         /\ l + NumLanes(f.kind) * (r * Groups(f) + g) \in 0 .. OSize(f) - 1
<1> DEFINE k == f.kind
           n == NumLanes(k)
           G == Groups(f)
           h == f.height
           t == f.stride
           s == Step(k)
           b == Begin(k, l)
           q == Second(k, l, p)
<1>1. /\ k \in Mosaic \cup Colour /\ f.width \in Nat /\ h \in Nat /\ t \in Nat
      /\ G \in Nat /\ s * G <= t /\ (k \in Mosaic => f.width = 4 * G)
      /\ s \in Nat /\ b \in Nat /\ b < s
  BY FormatIs, RowIs, SampleInGroup
<1>2. n \in {3, 4} /\ l \in Nat
  BY DEF NumLanes, Lanes
<1>3. OSize(f) = n * (h * G)
  <2>1. CASE k \in Mosaic
    <3>1. h * f.width = 4 * (h * G)
      BY <1>1, <2>1
    <3> QED
      BY <2>1, <3>1 DEF OSize, Pixels, NumLanes
  <2>2. CASE k \notin Mosaic
    <3>1. G = f.width
      BY <2>2 DEF Groups
    <3> QED
      BY <1>1, <2>2, <3>1 DEF OSize, Pixels, NumLanes
  <2> QED
    BY <2>1, <2>2
<1>4. h * t \in Nat /\ h * t <= ISize(f) /\ ISize(f) \in Nat
  <2>1. h * t \in Nat
    BY <1>1
  <2>2. h * f.width \in Nat /\ (h * f.width * 5) \div 4 \in Nat
        /\ h * f.width * 3 * 1 \in Nat /\ h * f.width * 3 * 2 \in Nat /\ h * f.width * 2 \in Nat
    BY <1>1
  <2>3. Depth(k) \in {1, 2}
    BY DEF Depth
  <2> DEFINE size == CASE f.kind = "Bayer16" -> Pixels(f) * 2
                       [] f.kind \in Packed  -> (Pixels(f) * 5) \div 4
                       [] f.kind \in Colour  -> Pixels(f) * 3 * Depth(f.kind)
  <2>4. size \in Nat
    BY <1>1, <2>2, <2>3 DEF Pixels, Mosaic, Packed, Colour
  <2>5. ISize(f) = Larger(size, h * t)
    BY DEF ISize
  <2> HIDE DEF size
  <2> QED
    BY <2>1, <2>4, <2>5 DEF Larger
<1>5. q \in Nat /\ q + b < p + s /\ p \in Nat
  <2>1. p \in Nat
    BY <1>1
  <2> QED
    BY <1>1, <2>1, SampleInGroup
<1> HIDE DEF k, n, G, h, t, s, b, q
<1>a. p = r * t + (b + s * g) /\ r < h /\ g < G /\ l < n
  BY DEF k, n, G, h, t, s, b
<1>6. b + s * g < s * G /\ s * g \in Nat /\ s * G \in Nat
  BY <1>1, <1>a, GroupsEnd
<1>7. s * g + s <= s * G
  <2>1. PICK d \in Nat : G = g + 1 + d
    BY <1>1, <1>a
  <2>2. s * G = s * g + s + s * d /\ s * d \in Nat
    BY <1>1, <2>1
  <2> QED
    BY <1>1, <1>6, <2>2
<1>8. r * t + t <= h * t /\ r * t \in Nat
  <2>1. PICK d \in Nat : h = r + 1 + d
    BY <1>1, <1>a
  <2>2. h * t = r * t + t + d * t /\ d * t \in Nat /\ r * t \in Nat
    BY <1>1, <2>1
  <2> QED
    BY <1>1, <2>2
<1>9. p < ISize(f)
  BY <1>1, <1>4, <1>6, <1>8, <1>a
<1>10. q < ISize(f)
  BY <1>1, <1>4, <1>5, <1>6, <1>7, <1>8, <1>a
<1>11. l + n * (r * G + g) \in 0 .. OSize(f) - 1
  <2>1. r * G + g \in Nat /\ r * G + g < h * G /\ h * G \in Nat
    BY <1>1, <1>a, RowsFit
  <2> QED
    BY <1>2, <1>3, <1>a, <2>1
<1> QED
  BY <1>5, <1>9, <1>10, <1>11 DEF n, k, G, q

\* ... and it is the sample of this cell.
LEMMA SampleIsCell ==
  ASSUME Whole, NEW f \in Formats,
         NEW l \in Lanes, l < NumLanes(f.kind),
         NEW r \in Nat, NEW g \in Nat, g < Groups(f),
         NEW p, p = r * f.stride + (Begin(f.kind, l) + Step(f.kind) * g)
  PROVE  Cell(f, l + NumLanes(f.kind) * (r * Groups(f) + g)) = <<p, Second(f.kind, l, p)>>
<1> DEFINE k == f.kind
           G == Groups(f)
           i == l + NumLanes(k) * (r * G + g)
           z == r * f.stride
<1>1. /\ k \in Mosaic \cup Colour /\ f.width \in Nat /\ f.stride \in Nat
      /\ G \in Nat /\ (k \in Mosaic => f.width = 4 * G) /\ z \in Nat
  BY FormatIs, RowIs
<1>2. l \in {0, 1, 2, 3}
  BY DEF Lanes
<1>3. ASSUME k \in Mosaic
      PROVE  Cell(f, i) = MosaicPixel(f, r, 4 * g + l)
  <2>1. NumLanes(k) = 4
    BY <1>3 DEF NumLanes
  <2> HIDE DEF G
  <2>2. i = r * (4 * G) + (4 * g + l) /\ 4 * g + l < 4 * G /\ 4 * g + l \in Nat /\ 4 * G \in Nat
    <3>1. 4 * (r * G + g) = r * (4 * G) + 4 * g /\ r * (4 * G) \in Nat
      BY <1>1
    <3> QED
      BY <1>1, <1>2, <2>1, <3>1 DEF G
  <2>3. i \div f.width = r /\ i % f.width = 4 * g + l
    <3> HIDE DEF i
    <3>1. i \div (4 * G) = r /\ i % (4 * G) = 4 * g + l
      BY <2>2, DivMod
    <3> QED
      BY <1>1, <1>3, <3>1
  <2> QED
    BY <1>3, <2>3 DEF Cell
<1>4. /\ (4 * g + l) \div 4 = g /\ (4 * g + l) % 4 = l
      /\ (4 * g + l) \div 2 = 2 * g + l \div 2 /\ (4 * g + l) % 2 = l % 2
  BY <1>2
<1>5. CASE k = "Bayer16"
  <2>1. k \in Mosaic /\ p = z + (2 * l + 8 * g)
    BY <1>5 DEF Mosaic, Packed, Colour, Begin, Step
  <2>2. Second(k, l, p) = p + 2 - 1
    BY <1>5 DEF Second, Depth
  <2>3. MosaicPixel(f, r, 4 * g + l) = <<z + 2 * (4 * g + l), z + 2 * (4 * g + l) + 1>>
    BY <1>5 DEF MosaicPixel
  <2> HIDE DEF i, z
  <2>4. z + 2 * (4 * g + l) = p /\ z + 2 * (4 * g + l) + 1 = p + 2 - 1
    BY <1>1, <1>2, <2>1
  <2> QED
    BY <1>3, <2>1, <2>2, <2>3, <2>4 DEF i
<1>6. CASE k = "MIPI12"
  <2>1. k \in Mosaic /\ p = z + (l + l \div 2 + 6 * g)
    BY <1>6 DEF Mosaic, Packed, Colour, Begin, Step, LowBytes
  <2>2. Second(k, l, p) = p + (2 - (l % 2))
    BY <1>6 DEF Second
  <2>3. MosaicPixel(f, r, 4 * g + l)
          = <<z + 3 * (2 * g + l \div 2) + (l % 2), z + 3 * (2 * g + l \div 2) + 2>>
    BY <1>4, <1>6 DEF MosaicPixel
  <2> HIDE DEF i, z
  <2>4. /\ z + 3 * (2 * g + l \div 2) + (l % 2) = p
        /\ z + 3 * (2 * g + l \div 2) + 2 = p + (2 - (l % 2))
    BY <1>1, <1>2, <2>1
  <2> QED
    BY <1>3, <2>1, <2>2, <2>3, <2>4 DEF i
<1>7. CASE k \in {"MIPI10", "MIPI14"}
  <2> DEFINE s == Step(k)
  <2>1. k \in Mosaic /\ p = z + (l + s * g) /\ s \in Nat
    BY <1>7 DEF Mosaic, Packed, Colour, Begin, Step, LowBytes
  <2>2. Second(k, l, p) = p + (4 - l)
    BY <1>7 DEF Second
  <2>3. MosaicPixel(f, r, 4 * g + l) = <<z + s * g + l, z + s * g + 4>>
    BY <1>4, <1>7 DEF MosaicPixel
  <2> HIDE DEF i, z, s
  <2>4. z + s * g + l = p /\ z + s * g + 4 = p + (4 - l)
    <3>1. s * g \in Nat
      BY <2>1
    <3>2. \A e \in Nat : z + e + l = z + (l + e) /\ z + e + 4 = z + (l + e) + (4 - l)
      BY <1>1, <1>2
    <3> QED
      BY <2>1, <3>1, <3>2
  <2> QED
    BY <1>3, <2>1, <2>2, <2>3, <2>4 DEF i
<1>8. CASE k \in Colour
  <2> DEFINE D == Depth(k)
             C == Channels(k)
             F == FirstColour(k)
  <2>1. k \notin Mosaic /\ G = f.width /\ NumLanes(k) = 3
    BY <1>8 DEF Groups, Colour, Mosaic, Packed, NumLanes
  <2>2. D \in {1, 2} /\ C \in {3, 4} /\ F \in {0, 1}
    BY DEF Depth, Channels, FirstColour
  <2>3. Begin(k, l) = (F + l) * D /\ Step(k) = C * D /\ Second(k, l, p) = p + D - 1
    BY <1>8 DEF Begin, Step, Second, Colour, Packed
  <2>4. p = z + ((F + l) * D + C * D * g)
    BY <2>3
  <2>5. Cell(f, i) = ColourPixel(f, (i \div 3) \div f.width, (i \div 3) % f.width, i % 3)
    BY <2>1 DEF Cell
  <2>6. i \div 3 = r * f.width + g /\ i % 3 = l
    <3>1. r * G + g \in Nat /\ i = l + 3 * (r * G + g) /\ l < 3
      BY <1>1, <2>1
    <3>2. \A j \in Nat : (l + 3 * j) \div 3 = j /\ (l + 3 * j) % 3 = l
      BY <1>2, <3>1
    <3> HIDE DEF i
    <3> QED
      BY <2>1, <3>1, <3>2
  <2>7. Cell(f, i) = ColourPixel(f, r, g, l)
    <3>1. g < f.width
      BY <2>1
    <3> HIDE DEF i, G
    <3> QED
      BY <1>1, <2>5, <2>6, <3>1, DivMod
  <2>8. ColourPixel(f, r, g, l) = <<z + D * (C * g + F + l), z + D * (C * g + F + l) + D - 1>>
    BY DEF ColourPixel
  <2> HIDE DEF i, z, D, C, F
  <2>9. z + D * (C * g + F + l) = p
    <3>1. CASE D = 1
      BY <1>1, <1>2, <2>2, <2>4, <3>1
    <3>2. CASE D = 2
      BY <1>1, <1>2, <2>2, <2>4, <3>2
    <3> QED
      BY <2>2, <3>1, <3>2
  <2> QED
    BY <2>3, <2>7, <2>8, <2>9 DEF i
<1> QED
  BY <1>1, <1>5, <1>6, <1>7, <1>8 DEF Mosaic, Packed

-----------------------------------------------------------------------------
(* The steps.                                                              *)

\* What AtSample says of a lane.
LEMMA AtGroup ==
  ASSUME Whole, Inv, NEW l \in Lanes, status[l] = "running", row[l] < format.height
  PROVE  /\ l < N
         /\ \E g \in 0 .. Groups(format) :
              /\ At(l, g)
              /\ x[l] < ValidWidth(format.kind, format.width) <=> g < Groups(format)
<1>1. TypeOK /\ format \in Formats /\ format.kind \in Mosaic \cup Colour
  BY FormatIs DEF Inv, Residues, TypeOK
<1>2. l < N
  BY <1>1, LaneCount DEF Inv, Residues, Lanes
<1>3. PICK g \in 0 .. Groups(format) : At(l, g)
  BY <1>2 DEF Inv, Places
<1>4. /\ Groups(format) \in Nat /\ g \in Nat /\ g <= Groups(format)
      /\ ValidWidth(format.kind, format.width) = Step(format.kind) * Groups(format)
      /\ x[l] = Begin(format.kind, l) + Step(format.kind) * g
  BY <1>1, <1>3, RowIs DEF At
<1>5. /\ Step(format.kind) \in Nat /\ Begin(format.kind, l) \in Nat
      /\ Begin(format.kind, l) < Step(format.kind)
  BY <1>1, <1>2, SampleInGroup DEF N
<1>6. x[l] < Step(format.kind) * Groups(format) <=> g < Groups(format)
  <2>1. CASE g < Groups(format)
    BY <2>1, <1>4, <1>5, GroupsEnd
  <2>2. CASE g >= Groups(format)
    <3>1. /\ Begin(format.kind, l) + Step(format.kind) * g >= Step(format.kind) * Groups(format)
      BY <2>2, <1>4, <1>5, GroupsEnd
    <3>2. x[l] \in Nat /\ Step(format.kind) * Groups(format) \in Nat
      BY <1>1, <1>4, <1>5 DEF TypeOK
    <3> QED
      BY <2>2, <3>1, <3>2, <1>4
  <2> QED
    BY <2>1, <2>2, <1>4
<1> QED
  BY <1>2, <1>3, <1>4, <1>6

\* What a lane at a sample reads and writes.
LEMMA AtCell ==
  ASSUME Whole, Inv, NEW l \in Lanes, AtSample(l)
  PROVE  /\ l < N
         /\ index[l] \in 0 .. OSize(format) - 1
         /\ Bytes(l)[1] < ISize(format) /\ Bytes(l)[2] < ISize(format)
         /\ Bytes(l) = Cell(format, index[l])
         /\ \E g \in 0 .. Groups(format) - 1 : At(l, g)
<1>1. TypeOK /\ format \in Formats /\ row[l] \in Nat /\ row[l] < format.height
      /\ status[l] = "running" /\ x[l] < ValidWidth(format.kind, format.width)
  BY DEF Inv, Residues, TypeOK, AtSample
<1>2. l < N
  BY <1>1, AtGroup
<1>3. PICK g \in 0 .. Groups(format) : At(l, g) /\ g < Groups(format)
  BY <1>1, AtGroup
<1>4. Groups(format) \in Nat /\ g \in Nat /\ l < NumLanes(format.kind)
  BY <1>1, <1>2, <1>3, RowIs DEF N
<1>5. Position(l) = row[l] * format.stride + (Begin(format.kind, l) + Step(format.kind) * g)
  BY <1>3 DEF Position, At
<1>6. index[l] = l + NumLanes(format.kind) * (row[l] * Groups(format) + g)
  BY <1>3 DEF At, N
<1>7. /\ Position(l) \in Nat /\ Position(l) < ISize(format)
      /\ Second(format.kind, l, Position(l)) < ISize(format)
      /\ index[l] \in 0 .. OSize(format) - 1
  BY <1>1, <1>3, <1>4, <1>5, <1>6, SampleInside
<1>8. Cell(format, index[l]) = <<Position(l), Second(format.kind, l, Position(l))>>
  BY <1>1, <1>3, <1>4, <1>5, <1>6, SampleIsCell
<1>9. g \in 0 .. Groups(format) - 1
  BY <1>3, <1>4
<1> QED
  BY <1>2, <1>3, <1>7, <1>8, <1>9 DEF Bytes

LEMMA InitInv == Whole /\ Init => Inv
<1> SUFFICES ASSUME Whole, Init PROVE Inv
  OBVIOUS
<1>1. Residues /\ format \in Formats /\ format.height \in Nat
  BY InitResidues, FormatIs DEF Init
<1>2. Groups(format) \in Nat /\ N \in {3, 4}
  BY <1>1, RowIs, LaneCount
<1>3. Places
  <2> SUFFICES ASSUME NEW l \in Lanes, l < N
               PROVE  row[l] <= format.height /\ \E g \in 0 .. Groups(format) : At(l, g)
    BY DEF Places
  <2>1. row[l] = 0 /\ x[l] = Begin(format.kind, l) /\ index[l] = l
    BY DEF Init
  <2>2. Step(format.kind) \in Nat /\ Begin(format.kind, l) \in Nat /\ l \in Nat
    BY <1>1, FormatIs, Geometry DEF Lanes
  <2>3. Step(format.kind) * 0 = 0 /\ 0 * Groups(format) + 0 = 0 /\ N * 0 = 0
    BY <1>2, <2>2
  <2>4. At(l, 0)
    BY <2>1, <2>2, <2>3 DEF At
  <2> QED
    BY <1>1, <1>2, <2>1, <2>4
<1>4. Progress
  BY <1>2 DEF Init, Progress, Lanes
<1>5. Written
  BY DEF Init, Written
<1>6. Covered
  <2> SUFFICES ASSUME NEW l \in Lanes, NEW i \in Nat, l < N, i % N = l, i < index[l] PROVE FALSE
    BY DEF Covered
  <2>1. index[l] = l /\ i < N
    BY <1>2 DEF Init, Lanes
  <2> QED
    BY <1>2, <2>1
<1> QED
  BY <1>1, <1>3, <1>4, <1>5, <1>6 DEF Inv

\* Steps that move no lane.
LEMMA Unmoved ==
  ASSUME Inv, UNCHANGED <<format, row, x, index, dest>>, Residues', Progress'
  PROVE  Inv'
BY DEF Inv, Places, At, Written, Covered, N

LEMMA CallerKeeps == ASSUME Inv, Enqueue \/ Get \/ Done, Residues' PROVE Inv'
<1>0. TypeOK /\ N \in {3, 4} /\ calls \in Nat
  BY LaneCount DEF Inv, Residues, TypeOK
<1>1. CASE Enqueue
  <2>1. calls \in Lanes /\ calls < N /\ calls' = calls + 1 /\ N' = N
    BY <1>0, <1>1 DEF Enqueue, Lanes, N
  <2>2. \A m \in Lanes : status'[m] = "finished" => status[m] = "finished"
    BY <1>0, <1>1, <2>1 DEF Enqueue, Pool!Accept, Pool!Become, TypeOK
  <2>3. \A m \in Lanes : ~(calls' > N' + m)
    BY <1>0, <2>1 DEF Lanes
  <2>4. Progress'
    BY <1>1, <2>2, <2>3 DEF Inv, Progress, Enqueue
  <2> QED
    BY <1>1, <2>4, Unmoved DEF Enqueue
<1>2. CASE Get
  <2>1. /\ calls \in N .. 2 * N - 1 /\ status[calls - N] = "finished"
        /\ calls' = calls + 1 /\ N' = N
        /\ UNCHANGED <<format, status, row, x, index, dest>>
    BY <1>2 DEF Get, N
  <2>2. ASSUME NEW m \in Lanes, m < N, calls' > N + m PROVE status[m] = "finished"
    <3>1. calls > N + m \/ calls - N = m
      BY <1>0, <2>1, <2>2 DEF Lanes
    <3> QED
      BY <2>1, <2>2, <3>1 DEF Inv, Progress
  <2>3. Progress'
    BY <2>1, <2>2 DEF Inv, Progress
  <2> QED
    BY <2>1, <2>3, Unmoved
<1>3. CASE Done
  <2>1. Progress'
    BY <1>3 DEF Done, vars, Inv, Progress, N
  <2> QED
    BY <1>3, <2>1, Unmoved DEF Done, vars
<1> QED
  BY <1>1, <1>2, <1>3

LEMMA StartFinishKeep ==
  ASSUME Inv, NEW l \in Lanes, Start(l) \/ Finish(l), Residues' PROVE Inv'
<1>0. TypeOK
  BY DEF Inv, Residues
<1>1. UNCHANGED <<format, calls, row, x, index, dest>> /\ N' = N
  BY DEF Start, Finish, N
<1>2. \A m \in Lanes \ {l} : status'[m] = status[m]
  BY <1>0, StatusesOK DEF Start, Finish
<1>3. /\ status[l] # "finished"
      /\ status'[l] = "finished" => row[l] >= format.height
  BY <1>0 DEF Start, Finish, Pool!Start, Pool!Finish, Pool!Become, TypeOK
<1>4. Progress'
  BY <1>1, <1>2, <1>3 DEF Inv, Progress
<1> QED
  BY <1>1, <1>4, Unmoved

LEMMA SameRemainder ==
  ASSUME NEW n \in {3, 4}, NEW i \in Nat, NEW j \in Nat, i % n = j % n, j <= i, i < j + n
  PROVE  i = j
<1>1. CASE n = 3
  BY <1>1
<1>2. CASE n = 4
  BY <1>2
<1> QED
  BY <1>1, <1>2

LEMMA CopyKeeps == ASSUME Whole, Inv, NEW l \in Lanes, Copy(l), Residues' PROVE Inv'
<1>0. TypeOK /\ format \in Formats /\ N \in {3, 4} /\ N' = N /\ AtSample(l)
      /\ UNCHANGED <<format, status, calls, row>>
  BY LaneCount DEF Inv, Residues, TypeOK, Copy, CopyThen, N
<1>1. /\ \A m \in Lanes : /\ x'[m] = IF m = l THEN x[l] + Step(format.kind) ELSE x[m]
                          /\ index'[m] = IF m = l THEN index[l] + N ELSE index[m]
      /\ DOMAIN dest' = DOMAIN dest \cup {index[l]}
      /\ \A i \in DOMAIN dest' : dest'[i] = IF i = index[l] THEN Bytes(l) ELSE dest[i]
  BY <1>0 DEF Copy, CopyThen, Store, TypeOK
<1>2. /\ l < N /\ index[l] \in 0 .. OSize(format) - 1 /\ Bytes(l) = Cell(format, index[l])
  BY <1>0, AtCell
<1>3. PICK g \in 0 .. Groups(format) - 1 : At(l, g)
  BY <1>0, AtCell
<1>4. Groups(format) \in Nat /\ row[l] \in Nat /\ row[l] < format.height /\ index[l] \in Nat
      /\ Step(format.kind) \in Nat /\ Begin(format.kind, l) \in Nat
  BY <1>0, RowIs, FormatIs, Geometry DEF TypeOK, AtSample
<1>5. Places'
  <2>1. At(l, g + 1)'
    <3>1. x'[l] = Begin(format.kind, l) + Step(format.kind) * (g + 1)
      <4>1. Step(format.kind) * (g + 1) = Step(format.kind) * g + Step(format.kind)
            /\ Step(format.kind) * g \in Nat
        BY <1>3, <1>4
      <4> QED
        BY <1>1, <1>3, <1>4, <4>1 DEF At
    <3>2. index'[l] = l + N * (row[l] * Groups(format) + (g + 1))
      <4>1. row[l] * Groups(format) + g \in Nat
            /\ row[l] * Groups(format) + (g + 1) = (row[l] * Groups(format) + g) + 1
        BY <1>3, <1>4
      <4>2. \A j \in Nat : N * (j + 1) = N * j + N /\ N * j \in Nat
        BY <1>0
      <4>3. l \in Nat
        BY DEF Lanes
      <4> QED
        BY <1>0, <1>1, <1>3, <4>1, <4>2, <4>3 DEF At
    <3>3. row'[l] # format.height
      BY <1>0, <1>4
    <3> QED
      BY <1>0, <3>1, <3>2, <3>3 DEF At
  <2>2. g + 1 \in 0 .. Groups(format)
    BY <1>3, <1>4
  <2>3. ASSUME NEW m \in Lanes, m < N, m # l
        PROVE  row[m] <= format.height /\ \E j \in 0 .. Groups(format) : At(m, j)'
    <3>1. PICK j \in 0 .. Groups(format) : At(m, j)
      BY <2>3 DEF Inv, Places
    <3>2. At(m, j)'
      BY <2>3, <3>1, <1>0, <1>1 DEF At
    <3> QED
      BY <2>3, <3>2 DEF Inv, Places
  <2>4. row[l] <= format.height
    BY <1>2 DEF Inv, Places
  <2> QED
    BY <1>0, <2>1, <2>2, <2>3, <2>4 DEF Places
<1>6. Progress'
  BY <1>0 DEF Inv, Progress
<1>7. Written'
  <2>1. dest' = [i \in DOMAIN dest' |-> dest'[i]]
    BY DEF Copy, CopyThen, Store
  <2>2. \A i \in DOMAIN dest' : i \in 0 .. OSize(format) - 1 /\ dest'[i] = Cell(format, i)
    BY <1>1, <1>2 DEF Inv, Written
  <2> QED
    BY <1>0, <2>1, <2>2 DEF Written
<1>8. Covered'
  <2> SUFFICES ASSUME NEW m \in Lanes, NEW i \in Nat, m < N, i % N = m, i < index'[m]
               PROVE  i \in DOMAIN dest'
    BY <1>0 DEF Covered
  <2>1. CASE i < index[m]
    BY <2>1, <1>1 DEF Inv, Covered
  <2>2. CASE ~(i < index[m])
    <3>1. m = l /\ i < index[l] + N
      BY <2>2, <1>1
    <3>2. index[l] % N = l
      BY <1>2 DEF Inv, Residues
    <3>3. i = index[l]
      BY <2>2, <3>1, <3>2, <1>0, <1>4, SameRemainder
    <3> QED
      BY <3>3, <1>1
  <2> QED
    BY <2>1, <2>2
<1> QED
  BY <1>5, <1>6, <1>7, <1>8 DEF Inv

LEMMA NextRowKeeps == ASSUME Whole, Inv, NEW l \in Lanes, NextRow(l), Residues' PROVE Inv'
<1>0. TypeOK /\ format \in Formats /\ N \in {3, 4} /\ N' = N
      /\ status[l] = "running" /\ row[l] < format.height
      /\ ~(x[l] < ValidWidth(format.kind, format.width))
      /\ UNCHANGED <<format, status, calls, index, dest>>
  <2>1. TypeOK /\ format \in Formats /\ x[l] \in Nat
    BY DEF Inv, Residues, TypeOK
  <2>2. ValidWidth(format.kind, format.width) \in Nat
    <3>1. Groups(format) \in Nat /\ Step(format.kind) \in Nat
      BY <2>1, RowIs, FormatIs, Geometry DEF Lanes
    <3>2. Step(format.kind) * Groups(format) \in Nat
      BY <3>1
    <3> QED
      BY <2>1, <3>2, RowIs
  <2> QED
    BY <2>1, <2>2, LaneCount DEF NextRow, RowThen, N
<1>1. \A m \in Lanes : /\ row'[m] = IF m = l THEN row[l] + 1 ELSE row[m]
                       /\ x'[m] = IF m = l THEN Begin(format.kind, l) ELSE x[m]
  BY <1>0 DEF NextRow, RowThen, TypeOK
<1>2. PICK g \in 0 .. Groups(format) : At(l, g) /\ ~(g < Groups(format))
  BY <1>0, AtGroup
<1>3. Groups(format) \in Nat /\ row[l] \in Nat /\ format.height \in Nat /\ g = Groups(format)
      /\ Step(format.kind) \in Nat /\ Begin(format.kind, l) \in Nat
  BY <1>0, <1>2, RowIs, FormatIs, Geometry DEF TypeOK
<1>4. Places'
  <2>1. At(l, 0)'
    <3>1. (row[l] + 1) * Groups(format) + 0 = row[l] * Groups(format) + g
      BY <1>3
    <3>2. Begin(format.kind, l) = Begin(format.kind, l) + Step(format.kind) * 0
      BY <1>3
    <3> QED
      BY <1>0, <1>1, <1>2, <3>1, <3>2 DEF At
  <2>2. 0 \in 0 .. Groups(format) /\ row'[l] <= format.height
    BY <1>0, <1>1, <1>3
  <2>3. ASSUME NEW m \in Lanes, m < N, m # l
        PROVE  row'[m] <= format.height /\ \E j \in 0 .. Groups(format) : At(m, j)'
    <3>1. PICK j \in 0 .. Groups(format) : At(m, j)
      BY <2>3 DEF Inv, Places
    <3>2. At(m, j)'
      BY <2>3, <3>1, <1>0, <1>1 DEF At
    <3> QED
      BY <2>3, <3>2, <1>1 DEF Inv, Places
  <2> QED
    BY <1>0, <2>1, <2>2, <2>3 DEF Places
<1>5. Progress'
  BY <1>0, <1>1 DEF Inv, Progress
<1>6. Written' /\ Covered'
  BY <1>0 DEF Inv, Written, Covered
<1> QED
  BY <1>4, <1>5, <1>6 DEF Inv

LEMMA NextInv == Whole /\ Inv /\ [Next]_vars => Inv'
<1> SUFFICES ASSUME Whole, Inv, [Next]_vars PROVE Inv'
  OBVIOUS
<1>0. Residues'
  BY NextResidues DEF Inv
<1>1. CASE Enqueue \/ Get \/ Done
  BY <1>0, <1>1, CallerKeeps
<1>2. ASSUME NEW l \in Lanes, LaneStep(l) PROVE Inv'
  BY <1>0, <1>2, StartFinishKeep, CopyKeeps, NextRowKeeps DEF LaneStep
<1>3. CASE UNCHANGED vars
  <2>1. Progress'
    BY <1>3 DEF vars, Inv, Progress, N
  <2> QED
    BY <1>0, <1>3, <2>1, Unmoved DEF vars
<1> QED
  BY <1>1, <1>2, <1>3 DEF Next

LEMMA InvHolds == ASSUME Whole PROVE Spec => []Inv
<1>1. Init => Inv
  BY InitInv
<1>2. Inv /\ [Next]_vars => Inv'
  BY NextInv
<1> QED
  BY <1>1, <1>2, PTL DEF Spec

\* A lane reads inside the bytes of getIBufferInfo and writes inside those of
\* setOBufferInfo, the low bits behind a group included (Bayer16.cpp:202-214,
\* MIPI.cpp:229-254, RGB16.cpp and RGB8.cpp).
THEOREM LanesStayInBuffers == ASSUME Whole PROVE Spec => []InBuffers
<1>1. Inv => InBuffers
  <2> SUFFICES ASSUME Inv, NEW l \in Lanes, AtSample(l)
               PROVE  /\ index[l] < OSize(format)
                      /\ Bytes(l)[1] < ISize(format) /\ Bytes(l)[2] < ISize(format)
    BY DEF InBuffers
  <2>1. /\ index[l] \in 0 .. OSize(format) - 1
        /\ Bytes(l)[1] < ISize(format) /\ Bytes(l)[2] < ISize(format)
    BY AtCell
  <2>2. OSize(format) \in Nat
    <3>1. format.width \in Nat /\ format.height \in Nat
      BY FormatIs DEF Inv, Residues, TypeOK
    <3>2. format.height * format.width \in Nat /\ format.height * format.width * 3 \in Nat
      BY <3>1
    <3> QED
      BY <3>2 DEF OSize, Pixels
  <2> QED
    BY <2>1, <2>2
<1> QED
  BY <1>1, InvHolds, PTL

\* The picture process() returns is complete, and every cell of it is made of the
\* bytes of its own pixel, for all ten kinds and every order of the lanes.
THEOREM PictureIsRight == ASSUME Whole PROVE Spec => []Converted
<1>1. Inv => Converted
  <2> SUFFICES ASSUME Inv, Returned PROVE dest = Picture(format)
    BY DEF Converted
  <2>1. TypeOK /\ format \in Formats /\ N \in {3, 4} /\ calls = 2 * N
    BY LaneCount DEF Inv, Residues, TypeOK, Returned
  <2>2. Groups(format) \in Nat /\ format.height \in Nat /\ format.width \in Nat
    BY <2>1, RowIs, FormatIs
  <2>3. OSize(format) = N * (format.height * Groups(format)) /\ OSize(format) \in Nat
    <3>1. format.kind \in Mosaic => N = 4 /\ format.width = 4 * Groups(format)
      BY <2>1, RowIs DEF N, NumLanes
    <3>2. format.kind \notin Mosaic => N = 3 /\ format.width = Groups(format)
      BY DEF N, NumLanes, Groups
    <3>3. \A a, b \in Nat : a * (4 * b) = 4 * (a * b) /\ a * b * 3 = 3 * (a * b) /\ a * b \in Nat
      OBVIOUS
    <3>4. OSize(format) = IF format.kind \in Mosaic THEN format.height * format.width
                          ELSE format.height * format.width * 3
      BY DEF OSize, Pixels
    <3>5. CASE format.kind \in Mosaic
      BY <2>2, <3>1, <3>3, <3>4, <3>5
    <3>6. CASE format.kind \notin Mosaic
      BY <2>2, <3>2, <3>3, <3>4, <3>6
    <3> QED
      BY <3>5, <3>6
  <2>4. ASSUME NEW l \in Lanes, l < N PROVE index[l] = l + OSize(format)
    <3>1. status[l] = "finished"
      BY <2>1, <2>4 DEF Inv, Progress, Lanes
    <3>2. row[l] = format.height
      <4>1. row[l] <= format.height /\ row[l] >= format.height /\ row[l] \in Nat
        BY <2>1, <2>4, <3>1 DEF Inv, Places, Progress, TypeOK
      <4> QED
        BY <4>1, <2>2
    <3>3. At(l, 0)
      BY <2>4, <3>2 DEF Inv, Places, At
    <3>4. format.height * Groups(format) + 0 = format.height * Groups(format)
      BY <2>2
    <3> QED
      BY <3>2, <3>3, <3>4, <2>3 DEF At
  <2>5. ASSUME NEW i \in 0 .. OSize(format) - 1 PROVE i \in DOMAIN dest
    <3>1. i \in Nat /\ i < OSize(format)
      BY <2>3
    <3>2. i % N \in Lanes /\ i % N < N
      BY <2>1, <3>1 DEF Lanes
    <3>3. i < index[i % N]
      <4>1. index[i % N] = (i % N) + OSize(format) /\ i % N \in Nat
        BY <2>4, <3>2 DEF Lanes
      <4> HIDE DEF N
      <4> QED
        BY <4>1, <3>1, <2>3
    <3> QED
      BY <3>1, <3>2, <3>3 DEF Inv, Covered
  <2>6. DOMAIN dest = 0 .. OSize(format) - 1 /\ dest = [i \in DOMAIN dest |-> dest[i]]
    BY <2>5 DEF Inv, Written
  <2>7. \A i \in 0 .. OSize(format) - 1 : dest[i] = Cell(format, i)
    BY <2>6 DEF Inv, Written
  <2> QED
    <3>1. dest = [i \in 0 .. OSize(format) - 1 |-> Cell(format, i)]
      BY <2>6, <2>7
    <3> QED
      BY <3>1 DEF Picture, Cell
<1> QED
  BY <1>1, InvHolds, PTL
=============================================================================
