---------------------------- MODULE PictureProofs ----------------------------
(***************************************************************************)
(* A picture converted on the calling thread is made of the right samples, *)
(* and the lanes of calStats and adjustBrightness divide it completely and *)
(* without overlap, for every size and every number of threads.            *)
(***************************************************************************)
EXTENDS Picture, TLAPS

-----------------------------------------------------------------------------
(* The invariant of the lanes.                                             *)

L == Lanes!Lanes
Finished == {l \in L : status[l] = "finished"}
Started(l) == status[l] \in {"running", "finished"}

\* Where the share of lane l begins.
Cut(w, l) == (w * l) \div Threads

\* The columns of lane l before a given one, all of its columns, and what the
\* shares of a set of lanes add up to, for a picture of width w.
Part(w, l, to) == {c \in 0 .. w - 1 : Cut(w, l) <= c /\ c < to}
Share(w, l) == Part(w, l, Cut(w, l + 1))
Counted(w, cs) == [c \in 0 .. w - 1 |-> IF c \in cs THEN 1 ELSE 0]
Sharing(w, S) == Counted(w, UNION {Share(w, l) : l \in S})

\* A lane of calStats between its load and its store.
Adding(l) == status[l] = "running" /\ loaded[l] # <<>>

LaneTypes ==
  /\ work \in Lanes!Works \cup {"none"} /\ width \in Nat
  /\ calls \in Nat /\ calls <= 2 * Threads
  /\ status \in [L -> Lanes!Pool!Statuses]
  /\ column \in [L -> Nat]
  /\ DOMAIN sum = L /\ DOMAIN loaded = L
  /\ raced \in BOOLEAN

\* Nothing runs before the call, and a result is of a lane that finished.
Calling ==
  /\ work = "none" => calls = 0 /\ out = {} /\ \A l \in L : status[l] = "new"
  /\ \A l \in L : calls > Threads + l => status[l] = "finished"

\* A lane stays in its share and counts each of its columns once.
Looping ==
  \A l \in L :
    /\ ~Started(l) => loaded[l] = <<>>
    /\ Started(l) => Cut(width, l) <= column[l] /\ column[l] <= Cut(width, l + 1)
    /\ l \in Finished \/ loaded[l] # <<>> => column[l] = Cut(width, l + 1)
    /\ status[l] = "running" /\ work = "stats" => sum[l] = Counted(width, Part(width, l, column[l]))
    /\ loaded[l] # <<>> => work = "stats"

\* What the lanes of adjustBrightness have gone over is in the new picture.
Writing ==
  work = "light" =>
    /\ out \subseteq Lanes!Columns
    /\ \A l \in L : Started(l) => Part(width, l, column[l]) \subseteq out

\* The total, and what a lane has read of it, are the shares of lanes that
\* finished: of all of them as long as no two lanes were adding at once.
Summing ==
  work = "stats" =>
    /\ \E K \in SUBSET Finished :
         /\ total = Sharing(width, K)
         /\ Finished # {} => K # {}
         /\ ~raced => K = Finished
    /\ \A l \in L : Adding(l) =>
         \E K \in SUBSET Finished : loaded[l] = <<Sharing(width, K)>> /\ (~raced => K = Finished)
    /\ ~raced => \A k, l \in L : Adding(k) /\ Adding(l) => k = l

LanesInv == LaneTypes /\ Calling /\ Looping /\ Writing /\ Summing

-----------------------------------------------------------------------------
(* The invariant of the converter.                                         *)

PlanarInv ==
  /\ format \in Formats
  /\ Convert!Accepted(format) /\ Convert!Required(format) <= Convert!ISize(format)
  /\ y \in 0 .. format.height /\ x \in 0 .. format.width
  /\ y = format.height => x = 0
  /\ dest = [n \in 0 .. y * format.width + x - 1 |->
               Convert!Read(format, n \div format.width, n % format.width)]

\* The formats of the theorems about the converter: a row of gray pixels fits in
\* its stride, and a chroma pair belongs to two columns of two rows.
Shaped ==
  \A f \in Formats :
    IF f.kind = "Gray8" THEN f.width <= f.stride
    ELSE f.width % 2 = 0 /\ f.height % 2 = 0
-----------------------------------------------------------------------------
(* How the columns are divided.                                            *)

LEMMA Several == Threads \in Nat /\ Threads > 0 /\ L = 0 .. Threads - 1
BY PictureAssumption DEF Lanes!ThreadsAssumption, L, Lanes!Lanes

LEMMA DivMono ==
  ASSUME NEW w \in Nat, w > 0, NEW p \in Nat, NEW q \in Nat, p <= q
  PROVE  p \div w <= q \div w
OBVIOUS

LEMMA CutNat == ASSUME NEW w \in Nat, NEW l \in Nat PROVE Cut(w, l) \in Nat
<1>1. w * l \in Nat
  OBVIOUS
<1> QED
  BY <1>1, Several DEF Cut

LEMMA CutMono ==
  ASSUME NEW w \in Nat, NEW k \in Nat, NEW l \in Nat, k <= l
  PROVE  Cut(w, k) <= Cut(w, l)
<1>1. PICK d \in Nat : l = k + d
  OBVIOUS
<1>2. w * k \in Nat /\ w * l \in Nat /\ w * d \in Nat /\ w * l = w * k + w * d
  BY <1>1
<1>3. w * k <= w * l
  BY <1>2
<1> QED
  BY <1>2, <1>3, Several, DivMono DEF Cut

LEMMA CutTop == ASSUME NEW w \in Nat PROVE Cut(w, Threads) = w /\ Cut(w, 0) = 0
<1>1. (w * Threads) \div Threads = w
  BY Several
<1>2. w * 0 = 0 /\ 0 \div Threads = 0
  BY Several
<1> QED
  BY <1>1, <1>2 DEF Cut

\* Every column lies in the share of a lane.
LEMMA CutFind ==
  ASSUME NEW w \in Nat, NEW c \in Nat, c < w
  PROVE  \E l \in L : Cut(w, l) <= c /\ c < Cut(w, l + 1)
<1> DEFINE T == Threads
           a == T * (c + 1) - 1
           l == a \div w
<1>1. T \in Nat /\ T > 0
  BY Several
<1>2. T * (c + 1) \in Nat /\ T * (c + 1) > 0 /\ T * (c + 1) <= T * w
  <2>1. PICK d \in Nat : w = (c + 1) + d
    OBVIOUS
  <2>2. T * w = T * (c + 1) + T * d /\ T * d \in Nat /\ T * (c + 1) = T * c + T /\ T * c \in Nat
    BY <1>1, <2>1
  <2> QED
    BY <1>1, <2>2
<1>3. a \in Nat /\ a < T * w /\ a < w * T
  BY <1>1, <1>2
<1>4. l \in Nat /\ w * l <= a /\ a < w * l + w
  <2> HIDE DEF a
  <2>1. a = w * (a \div w) + (a % w) /\ a \div w \in Nat /\ a % w \in Nat /\ a % w < w
    BY <1>3
  <2>2. w * (a \div w) \in Nat
    BY <2>1
  <2> QED
    BY <2>1, <2>2, <1>3
<1> HIDE DEF l
<1>5. l < T
  <2>1. SUFFICES ASSUME l >= T PROVE FALSE
    BY <1>1, <1>4
  <2>2. PICK d \in Nat : l = T + d
    BY <1>1, <1>4, <2>1
  <2>3. w * l = w * T + w * d /\ w * d \in Nat /\ w * T \in Nat
    BY <1>1, <2>2
  <2> QED
    BY <1>3, <1>4, <2>3
<1>6. Cut(w, l) <= c
  <2>1. w * l \in Nat /\ w * l < T * (c + 1)
    BY <1>2, <1>3, <1>4
  <2>2. (w * l) \div T < c + 1
    BY <1>1, <2>1
  <2>3. (w * l) \div T \in Nat
    BY <1>1, <2>1
  <2> QED
    BY <2>2, <2>3 DEF Cut
<1>7. c < Cut(w, l + 1)
  <2>1. w * (l + 1) = w * l + w /\ w * (l + 1) \in Nat
    BY <1>4
  <2>2. T * (c + 1) <= w * (l + 1)
    BY <1>2, <1>3, <1>4, <2>1
  <2>3. (T * (c + 1)) \div T = c + 1
    BY <1>1
  <2>4. c + 1 <= (w * (l + 1)) \div T
    BY <1>1, <1>2, <2>1, <2>2, <2>3, DivMono
  <2>5. (w * (l + 1)) \div T \in Nat
    BY <1>1, <2>1
  <2> QED
    BY <2>4, <2>5 DEF Cut
<1> QED
  BY <1>1, <1>4, <1>5, <1>6, <1>7, Several

\* ... and of one only.
LEMMA CutApart ==
  ASSUME NEW w \in Nat, NEW k \in L, NEW l \in L, NEW c \in Nat,
         Cut(w, k) <= c, c < Cut(w, k + 1), Cut(w, l) <= c, c < Cut(w, l + 1)
  PROVE  k = l
<1>1. k \in Nat /\ l \in Nat /\ k + 1 \in Nat /\ l + 1 \in Nat
  BY Several
<1>2. Cut(w, k) \in Nat /\ Cut(w, l) \in Nat /\ Cut(w, k + 1) \in Nat /\ Cut(w, l + 1) \in Nat
  BY <1>1, CutNat
<1>3. CASE k < l
  <2>1. Cut(w, k + 1) <= Cut(w, l)
    BY <1>1, <1>3, CutMono
  <2> QED
    BY <1>2, <2>1
<1>4. CASE l < k
  <2>1. Cut(w, l + 1) <= Cut(w, k)
    BY <1>1, <1>4, CutMono
  <2> QED
    BY <1>2, <2>1
<1> QED
  BY <1>1, <1>3, <1>4

LEMMA CutInside ==
  ASSUME NEW w \in Nat, NEW l \in L
  PROVE  /\ Cut(w, l) \in Nat /\ Cut(w, l + 1) \in Nat
         /\ Cut(w, l) <= Cut(w, l + 1) /\ Cut(w, l + 1) <= w
<1>1. l \in Nat /\ l + 1 \in Nat /\ l <= l + 1 /\ l + 1 <= Threads /\ Threads \in Nat
  BY Several
<1>2. Cut(w, l) \in Nat /\ Cut(w, l + 1) \in Nat /\ Cut(w, l) <= Cut(w, l + 1)
  BY <1>1, CutNat, CutMono
<1>3. Cut(w, l + 1) <= Cut(w, Threads)
  BY <1>1, CutMono
<1> QED
  BY <1>2, <1>3, CutTop

LEMMA SameNames ==
  /\ \A l \in Nat : Lanes!Begin(l) = Cut(width, l)
  /\ \A l \in L : Lanes!Share(l) = Share(width, l)
  /\ \A cs : Lanes!Counted(cs) = Counted(width, cs)
  /\ Lanes!Columns = 0 .. width - 1
BY DEF Lanes!Begin, Cut, Lanes!Share, Share, Part, Lanes!Counted, Counted, Lanes!Columns

\* Adding the share of one more lane to the sum of others.
LEMMA AddShare ==
  ASSUME NEW w \in Nat, NEW K \in SUBSET L, NEW l \in L, l \notin K
  PROVE  Lanes!Plus(Sharing(w, K), Counted(w, Share(w, l))) = Sharing(w, K \cup {l})
<1> DEFINE S == UNION {Share(w, k) : k \in K}
<1>1. UNION {Share(w, k) : k \in K \cup {l}} = S \cup Share(w, l)
  OBVIOUS
<1>2. ASSUME NEW c \in 0 .. w - 1, c \in S, c \in Share(w, l) PROVE FALSE
  <2>1. PICK k \in K : c \in Share(w, k)
    BY <1>2
  <2>2. k = l
    BY <1>2, <2>1, CutApart DEF Share, Part
  <2> QED
    BY <2>1, <2>2
<1>3. /\ Sharing(w, K) = [c \in 0 .. w - 1 |-> IF c \in S THEN 1 ELSE 0]
      /\ Sharing(w, K \cup {l}) = [c \in 0 .. w - 1 |-> IF c \in S \cup Share(w, l) THEN 1 ELSE 0]
  BY <1>1 DEF Sharing, Counted
<1> HIDE DEF S
<1>4. Lanes!Plus(Sharing(w, K), Counted(w, Share(w, l)))
        = [c \in 0 .. w - 1 |-> (IF c \in S THEN 1 ELSE 0) + (IF c \in Share(w, l) THEN 1 ELSE 0)]
  BY <1>3 DEF Lanes!Plus, Counted
<1>5. \A c \in 0 .. w - 1 :
        (IF c \in S THEN 1 ELSE 0) + (IF c \in Share(w, l) THEN 1 ELSE 0)
          = IF c \in S \cup Share(w, l) THEN 1 ELSE 0
  BY <1>2
<1> QED
  BY <1>3, <1>4, <1>5

\* The shares of all lanes are all columns.
LEMMA AllShares ==
  ASSUME NEW w \in Nat
  PROVE  UNION {Share(w, l) : l \in L} = 0 .. w - 1
BY CutFind DEF Share, Part

-----------------------------------------------------------------------------
(* The steps of the lanes.                                                 *)

LEMMA LanesInit == Lanes!Init => LanesInv
<1> SUFFICES ASSUME Lanes!Init PROVE LanesInv
  OBVIOUS
<1>1. LaneTypes
  BY Several DEF Lanes!Init, LaneTypes, L, Lanes!Pool!Statuses
<1>2. Calling
  BY Several DEF Lanes!Init, Calling, L
<1>3. Looping /\ Writing /\ Summing
  BY DEF Lanes!Init, Looping, Writing, Summing, Started, Finished, L
<1> QED
  BY <1>1, <1>2, <1>3 DEF LanesInv

LEMMA LanesUnchanged == LanesInv /\ UNCHANGED laneVars => LanesInv'
<1> SUFFICES ASSUME LanesInv, UNCHANGED laneVars PROVE LanesInv'
  OBVIOUS
<1>1. LaneTypes'
  BY DEF LanesInv, laneVars, LaneTypes
<1>2. Calling' /\ Looping'
  BY DEF LanesInv, laneVars, Calling, Looping, Started, Finished
<1>4. Writing'
  BY DEF LanesInv, laneVars, Writing, Started, Lanes!Columns
<1>3. Summing'
  BY DEF LanesInv, laneVars, Summing, Finished, Adding
<1> QED
  BY <1>1, <1>2, <1>3, <1>4 DEF LanesInv

\* The call finds no lane at work.
LEMMA CallKeeps ==
  ASSUME LanesInv, NEW kind \in Lanes!Works, NEW w \in Nat, Lanes!Call(kind, w)
  PROVE  LanesInv'
<1>1. /\ LaneTypes /\ calls = 0 /\ \A l \in L : status[l] = "new" /\ loaded[l] = <<>>
  BY DEF LanesInv, Calling, Looping, Lanes!Call, Started
<1>2. /\ work' = kind /\ width' = w /\ total' = [c \in 0 .. w - 1 |-> 0] /\ kind # "none"
      /\ UNCHANGED <<status, calls, column, sum, loaded, out, raced>>
  BY DEF Lanes!Call, Lanes!Works
<1>3. LaneTypes'
  BY <1>1, <1>2 DEF LaneTypes
<1>4. Calling'
  BY <1>1, <1>2, Several DEF Calling
<1>5. Looping'
  BY <1>1, <1>2 DEF Looping, Started, Finished
<1>6. Writing'
  BY <1>1, <1>2 DEF LanesInv, Calling, Lanes!Call, Writing, Started
<1>7. Summing'
  <2>1. Finished' = {} /\ \A l \in L : ~Adding(l)'
    BY <1>1, <1>2 DEF Finished, Adding
  <2>2. total' = Sharing(width', {})
    BY <1>2 DEF Sharing, Counted
  <2> QED
    BY <2>1, <2>2 DEF Summing
<1> QED
  BY <1>3, <1>4, <1>5, <1>6, <1>7 DEF LanesInv

\* A lane changes its own status only.
LEMMA OneStatus ==
  ASSUME LaneTypes, NEW l \in L, NEW from, NEW to \in Lanes!Pool!Statuses,
         Lanes!Pool!Become(l, from, to)
  PROVE  /\ status' \in [L -> Lanes!Pool!Statuses] /\ status[l] = from
         /\ \A k \in L : status'[k] = IF k = l THEN to ELSE status[k]
BY DEF LaneTypes, Lanes!Pool!Become

\* Steps before a lane starts: no share is touched.
LEMMA WaitingStep ==
  ASSUME LanesInv, LaneTypes', Calling',
         UNCHANGED <<work, width, column, sum, loaded, total, out, raced>>,
         \A k \in L : status'[k] = status[k] \/ (~Started(k) /\ status'[k] = "accepted")
  PROVE  LanesInv'
<1>1. \A k \in L : /\ Started(k)' <=> Started(k)
                   /\ status'[k] = "running" <=> status[k] = "running"
                   /\ status'[k] = "finished" <=> status[k] = "finished"
  BY DEF Started
<1>2. Finished' = Finished /\ \A k \in L : Adding(k)' <=> Adding(k)
  BY <1>1 DEF Finished, Adding
<1>3. Looping'
  BY <1>1, <1>2 DEF LanesInv, Looping
<1>4. Writing'
  BY <1>1, SameNames DEF LanesInv, Writing, Lanes!Columns
<1>5. Summing'
  BY <1>2 DEF LanesInv, Summing
<1> QED
  BY <1>3, <1>4, <1>5 DEF LanesInv

LEMMA EnqueueKeeps == ASSUME LanesInv, Lanes!Enqueue PROVE LanesInv'
<1>1. LaneTypes /\ calls \in L /\ calls' = calls + 1 /\ work # "none"
      /\ UNCHANGED <<work, width, column, sum, loaded, total, out, raced>>
      /\ Lanes!Pool!Become(calls, "new", "accepted")
  BY Several DEF LanesInv, LaneTypes, Lanes!Enqueue, Lanes!Pool!Accept
<1>2. /\ status' \in [L -> Lanes!Pool!Statuses] /\ status[calls] = "new"
      /\ \A k \in L : status'[k] = IF k = calls THEN "accepted" ELSE status[k]
  BY <1>1, OneStatus DEF Lanes!Pool!Statuses
<1>3. LaneTypes'
  BY <1>1, <1>2, Several DEF LaneTypes, Lanes!Enqueue
<1>4. Calling'
  <2>1. \A k \in L : ~(calls' > Threads + k)
    BY <1>1, Several
  <2> QED
    BY <1>1, <2>1 DEF Calling
<1> QED
  BY <1>1, <1>2, <1>3, <1>4, WaitingStep DEF Started

LEMMA GetKeeps == ASSUME LanesInv, Lanes!Get PROVE LanesInv'
<1>1. LaneTypes /\ calls \in Threads .. 2 * Threads - 1 /\ calls' = calls + 1
      /\ status[calls - Threads] = "finished"
      /\ UNCHANGED <<work, width, status, column, sum, loaded, total, out, raced>>
  BY DEF LanesInv, Lanes!Get
<1>2. LaneTypes'
  BY <1>1, Several DEF LaneTypes
<1>3. Calling'
  <2>1. work # "none"
    BY <1>1, Several DEF LanesInv, Calling
  <2>2. ASSUME NEW k \in L, calls' > Threads + k PROVE status[k] = "finished"
    <3>1. calls > Threads + k \/ calls - Threads = k
      BY <1>1, <2>2, Several
    <3> QED
      BY <1>1, <3>1 DEF LanesInv, Calling
  <2> QED
    BY <1>1, <2>1, <2>2 DEF Calling
<1> QED
  BY <1>1, <1>2, <1>3, WaitingStep

LEMMA StartKeeps == ASSUME LanesInv, NEW l \in L, Lanes!Start(l) PROVE LanesInv'
<1>1. LaneTypes /\ Lanes!Pool!Become(l, "accepted", "running")
      /\ UNCHANGED <<work, width, calls, loaded, total, out, raced>>
      /\ column' = [column EXCEPT ![l] = Cut(width, l)]
      /\ sum' = [sum EXCEPT ![l] = [c \in 0 .. width - 1 |-> 0]]
  <2>1. l \in Nat
    BY Several
  <2> QED
    BY <2>1, SameNames DEF LanesInv, Lanes!Start, Lanes!Pool!Start
<1>2. /\ status' \in [L -> Lanes!Pool!Statuses] /\ status[l] = "accepted"
      /\ \A k \in L : status'[k] = IF k = l THEN "running" ELSE status[k]
  BY <1>1, OneStatus DEF Lanes!Pool!Statuses
<1>3. /\ width \in Nat /\ Cut(width, l) \in Nat /\ Cut(width, l) <= Cut(width, l + 1)
      /\ loaded[l] = <<>> /\ work # "none"
  BY <1>1, <1>2, CutInside DEF LaneTypes, LanesInv, Looping, Calling, Started
<1>4. \A k \in L : /\ column'[k] = IF k = l THEN Cut(width, l) ELSE column[k]
                   /\ sum'[k] = IF k = l THEN [c \in 0 .. width - 1 |-> 0] ELSE sum[k]
  BY <1>1 DEF LaneTypes
<1>5. Part(width, l, Cut(width, l)) = {}
  BY <1>3 DEF Part
<1>6. LaneTypes'
  BY <1>1, <1>2, <1>3 DEF LaneTypes
<1>7. Calling'
  BY <1>1, <1>2, <1>3 DEF LanesInv, Calling
<1>8. Looping'
  <2> SUFFICES ASSUME NEW k \in L
               PROVE  /\ ~Started(k)' => loaded'[k] = <<>>
                      /\ Started(k)' => Cut(width, k) <= column'[k] /\ column'[k] <= Cut(width, k + 1)
                      /\ (k \in Finished)' \/ loaded'[k] # <<>> => column'[k] = Cut(width, k + 1)
                      /\ status'[k] = "running" /\ work = "stats"
                           => sum'[k] = Counted(width, Part(width, k, column'[k]))
                      /\ loaded'[k] # <<>> => work = "stats"
    BY <1>1 DEF Looping
  <2>1. CASE k = l
    <3>1. sum'[l] = Counted(width, Part(width, l, column'[l]))
      BY <1>4, <1>5 DEF Counted
    <3> QED
      BY <2>1, <3>1, <1>1, <1>2, <1>3, <1>4 DEF Started, Finished
  <2>2. CASE k # l
    BY <2>2, <1>1, <1>2, <1>4 DEF LanesInv, Looping, Started, Finished
  <2> QED
    BY <2>1, <2>2
<1>9. Writing'
  BY <1>1, <1>2, <1>4, <1>5, SameNames DEF LanesInv, Writing, Started, Lanes!Columns
<1>10. Summing'
  <2>1. Finished' = Finished /\ \A k \in L : Adding(k)' <=> Adding(k)
    BY <1>1, <1>2, <1>3 DEF Finished, Adding
  <2> QED
    BY <1>1, <2>1 DEF LanesInv, Summing
<1> QED
  BY <1>6, <1>7, <1>8, <1>9, <1>10 DEF LanesInv

LEMMA ColumnKeeps == ASSUME LanesInv, NEW l \in L, Lanes!Column(l) PROVE LanesInv'
<1> DEFINE c == column[l]
<1>1. /\ LaneTypes /\ width \in Nat /\ c \in Nat
      /\ UNCHANGED <<work, width, status, calls, loaded, total, raced>>
      /\ status[l] = "running" /\ loaded[l] = <<>>
      /\ column' = [column EXCEPT ![l] = c + 1]
      /\ IF work = "stats" THEN sum' = [sum EXCEPT ![l] = [sum[l] EXCEPT ![c] = sum[l][c] + 1]]
                                /\ out' = out
                           ELSE out' = out \cup {c} /\ sum' = sum
  BY DEF LanesInv, LaneTypes, Lanes!Column, Lanes!AtColumn
<1>2. c < Cut(width, l + 1)
  BY Several, SameNames DEF Lanes!Column, Lanes!AtColumn
<1>3. /\ Cut(width, l) \in Nat /\ Cut(width, l + 1) \in Nat /\ Cut(width, l) <= c
      /\ c \in 0 .. width - 1 /\ work # "none"
  <2>1. Cut(width, l) \in Nat /\ Cut(width, l + 1) \in Nat /\ Cut(width, l + 1) <= width
    BY <1>1, CutInside
  <2>2. Cut(width, l) <= c /\ work # "none"
    BY <1>1 DEF LanesInv, Looping, Calling, Started
  <2> QED
    BY <1>1, <1>2, <2>1, <2>2
<1>4. /\ \A k \in L : column'[k] = IF k = l THEN c + 1 ELSE column[k]
      /\ \A k \in L : k # l => sum'[k] = sum[k]
  BY <1>1 DEF LaneTypes
<1>5. Part(width, l, c + 1) = Part(width, l, c) \cup {c} /\ c \notin Part(width, l, c)
  BY <1>1, <1>3 DEF Part
<1>6. work = "stats" => sum'[l] = Counted(width, Part(width, l, c + 1))
  <2> SUFFICES ASSUME work = "stats" PROVE sum'[l] = Counted(width, Part(width, l, c + 1))
    OBVIOUS
  <2>1. sum[l] = Counted(width, Part(width, l, c))
    BY <1>1 DEF LanesInv, Looping
  <2>2. sum'[l] = [sum[l] EXCEPT ![c] = sum[l][c] + 1]
    BY <1>1 DEF LaneTypes
  <2> HIDE DEF c
  <2>3. DOMAIN sum[l] = 0 .. width - 1 /\ sum[l][c] = 0
    BY <1>3, <1>5, <2>1 DEF Counted
  <2>4. sum'[l] = [d \in 0 .. width - 1 |-> IF d = c THEN 1 ELSE sum[l][d]]
    <3>1. sum[l][c] + 1 = 1
      BY <2>3
    <3> QED
      BY <2>2, <2>3, <3>1, Zenon
  <2>5. \A d \in 0 .. width - 1 :
          (IF d = c THEN 1 ELSE sum[l][d]) = IF d \in Part(width, l, c + 1) THEN 1 ELSE 0
    BY <1>5, <2>1 DEF Counted
  <2> QED
    BY <2>4, <2>5 DEF Counted
<1>7. LaneTypes'
  <2>1. column' \in [L -> Nat] /\ DOMAIN sum' = L
    BY <1>1 DEF LaneTypes
  <2> QED
    BY <1>1, <2>1 DEF LaneTypes
<1>8. Calling'
  BY <1>1, <1>3 DEF LanesInv, Calling
<1>9. Looping'
  <2> SUFFICES ASSUME NEW k \in L
               PROVE  /\ ~Started(k)' => loaded'[k] = <<>>
                      /\ Started(k)' => Cut(width, k) <= column'[k] /\ column'[k] <= Cut(width, k + 1)
                      /\ (k \in Finished)' \/ loaded'[k] # <<>> => column'[k] = Cut(width, k + 1)
                      /\ status'[k] = "running" /\ work = "stats"
                           => sum'[k] = Counted(width, Part(width, k, column'[k]))
                      /\ loaded'[k] # <<>> => work = "stats"
    BY <1>1 DEF Looping
  <2>1. CASE k = l
    <3>1. Cut(width, l) <= c + 1 /\ c + 1 <= Cut(width, l + 1)
      BY <1>1, <1>2, <1>3
    <3> HIDE DEF c
    <3> QED
      BY <2>1, <3>1, <1>1, <1>4, <1>6 DEF Started, Finished
  <2>2. CASE k # l
    BY <2>2, <1>1, <1>4 DEF LanesInv, Looping, Started, Finished
  <2> QED
    BY <2>1, <2>2
<1>10. Writing'
  <2> SUFFICES ASSUME work = "light" PROVE Writing'
    BY <1>1 DEF Writing
  <2>1. out' = out \cup {c} /\ out \subseteq 0 .. width - 1
    BY <1>1, SameNames DEF LanesInv, Writing
  <2>2. ASSUME NEW k \in L, Started(k) PROVE Part(width, k, column'[k]) \subseteq out'
    <3>1. Part(width, k, column[k]) \subseteq out
      BY <2>2 DEF LanesInv, Writing
    <3> QED
      BY <3>1, <2>1, <1>4, <1>5
  <2> QED
    BY <1>1, <1>3, <2>1, <2>2 DEF Writing, Started, Lanes!Columns
<1>11. Summing'
  <2>1. Finished' = Finished /\ \A k \in L : Adding(k)' <=> Adding(k)
    BY <1>1 DEF Finished, Adding
  <2> QED
    BY <1>1, <2>1 DEF LanesInv, Summing
<1> QED
  BY <1>7, <1>8, <1>9, <1>10, <1>11 DEF LanesInv

\* A lane with its share behind it has counted exactly this share.
LEMMA ShareDone ==
  ASSUME LanesInv, NEW l \in L, Started(l), ~(column[l] < Cut(width, l + 1))
  PROVE  /\ column[l] = Cut(width, l + 1)
         /\ status[l] = "running" /\ work = "stats" => sum[l] = Counted(width, Share(width, l))
<1>1. width \in Nat /\ column[l] \in Nat
  BY DEF LanesInv, LaneTypes
<1>2. Cut(width, l + 1) \in Nat /\ column[l] <= Cut(width, l + 1)
  BY <1>1, CutInside DEF LanesInv, Looping
<1>3. column[l] = Cut(width, l + 1)
  BY <1>1, <1>2
<1> QED
  BY <1>3 DEF LanesInv, Looping, Share

LEMMA LoadKeeps == ASSUME LanesInv, NEW l \in L, Lanes!Load(l) PROVE LanesInv'
<1>1. /\ LaneTypes /\ work = "stats" /\ status[l] = "running" /\ loaded[l] = <<>>
      /\ UNCHANGED <<work, width, status, calls, column, sum, total, out>>
      /\ loaded' = [loaded EXCEPT ![l] = <<total>>]
      /\ raced' = (raced \/ \E k \in L : Adding(k))
  BY DEF LanesInv, Lanes!Load, Adding, L
<1>2. column[l] = Cut(width, l + 1)
  <2>1. ~(column[l] < Cut(width, l + 1))
    BY <1>1, Several, SameNames DEF Lanes!Load, Lanes!AtColumn
  <2> QED
    BY <1>1, <2>1, ShareDone DEF Started
<1>3. \A k \in L : loaded'[k] = IF k = l THEN <<total>> ELSE loaded[k]
  BY <1>1 DEF LaneTypes
<1>4. LaneTypes' /\ Calling'
  BY <1>1 DEF LanesInv, LaneTypes, Calling
<1>5. Looping'
  BY <1>1, <1>2, <1>3 DEF LanesInv, Looping, Started, Finished
<1>6. Writing'
  BY <1>1 DEF Writing
<1>7. Summing'
  <2>1. Finished' = Finished /\ ~Adding(l) /\ \A k \in L : Adding(k)' => k = l \/ Adding(k)
    BY <1>1, <1>3 DEF Finished, Adding
  <2>2. PICK K \in SUBSET Finished : /\ total = Sharing(width, K)
                                     /\ Finished # {} => K # {}
                                     /\ ~raced => K = Finished
    BY <1>1 DEF LanesInv, Summing
  <2>3. ASSUME NEW k \in L, Adding(k)'
        PROVE  \E J \in SUBSET Finished : loaded'[k] = <<Sharing(width, J)>> /\ (~raced' => J = Finished)
    <3>1. CASE k = l
      BY <3>1, <1>1, <1>3, <2>2
    <3>2. CASE k # l
      BY <3>2, <2>1, <2>3, <1>1, <1>3 DEF LanesInv, Summing
    <3> QED
      BY <3>1, <3>2
  <2>4. ~raced' => \A k \in L : ~Adding(k)
    BY <1>1
  <2> QED
    BY <1>1, <2>1, <2>2, <2>3, <2>4 DEF Summing
<1> QED
  BY <1>4, <1>5, <1>6, <1>7 DEF LanesInv

\* A lane of adjustBrightness ends: it counted nothing.
LEMMA FinishKeeps == ASSUME LanesInv, NEW l \in L, Lanes!Finish(l) PROVE LanesInv'
<1>1. /\ LaneTypes /\ work = "light" /\ Lanes!Pool!Become(l, "running", "finished")
      /\ UNCHANGED <<work, width, calls, column, sum, loaded, total, out, raced>>
  BY DEF LanesInv, Lanes!Finish, Lanes!Pool!Finish
<1>2. /\ status' \in [L -> Lanes!Pool!Statuses] /\ status[l] = "running"
      /\ \A k \in L : status'[k] = IF k = l THEN "finished" ELSE status[k]
  BY <1>1, OneStatus DEF Lanes!Pool!Statuses
<1>3. column[l] = Cut(width, l + 1)
  <2>1. loaded[l] = <<>>
    BY <1>1 DEF LanesInv, Looping
  <2>2. ~(column[l] < Cut(width, l + 1))
    BY <1>1, <1>2, <2>1, Several, SameNames DEF Lanes!Finish, Lanes!AtColumn
  <2> QED
    BY <1>2, <2>2, ShareDone DEF Started
<1>4. LaneTypes' /\ Calling'
  BY <1>1, <1>2 DEF LanesInv, LaneTypes, Calling
<1>5. Looping'
  BY <1>1, <1>2, <1>3 DEF LanesInv, Looping, Started, Finished
<1>6. Writing'
  BY <1>1, <1>2 DEF LanesInv, Writing, Started, Lanes!Columns
<1>7. Summing'
  BY <1>1 DEF Summing
<1> QED
  BY <1>4, <1>5, <1>6, <1>7 DEF LanesInv

\* A lane of calStats ends: its share joins those it had read.
LEMMA StoreKeeps == ASSUME LanesInv, NEW l \in L, Lanes!Store(l) PROVE LanesInv'
<1>1. /\ LaneTypes /\ loaded[l] # <<>> /\ Lanes!Pool!Become(l, "running", "finished")
      /\ total' = Lanes!Plus(loaded[l][1], sum[l])
      /\ UNCHANGED <<work, width, calls, column, sum, loaded, out, raced>>
  BY DEF LanesInv, Lanes!Store, Lanes!Stored, Lanes!Pool!Finish
<1>2. /\ status' \in [L -> Lanes!Pool!Statuses] /\ status[l] = "running"
      /\ \A k \in L : status'[k] = IF k = l THEN "finished" ELSE status[k]
  BY <1>1, OneStatus DEF Lanes!Pool!Statuses
<1>3. column[l] = Cut(width, l + 1) /\ work = "stats" /\ width \in Nat
  BY <1>1, <1>2 DEF LanesInv, LaneTypes, Looping, Started
<1>4. LaneTypes' /\ Calling'
  BY <1>1, <1>2, <1>3 DEF LanesInv, LaneTypes, Calling
<1>5. Looping'
  BY <1>1, <1>2, <1>3 DEF LanesInv, Looping, Started, Finished
<1>6. Writing'
  BY <1>1, <1>3 DEF Writing
<1>7. Summing'
  <2>1. l \notin Finished /\ Finished' = Finished \cup {l} /\ Finished \subseteq L
    BY <1>2 DEF Finished
  <2>2. Adding(l) /\ ~Adding(l)' /\ \A k \in L \ {l} : Adding(k)' <=> Adding(k)
    BY <1>1, <1>2 DEF Adding
  <2>3. PICK K \in SUBSET Finished : loaded[l] = <<Sharing(width, K)>> /\ (~raced => K = Finished)
    BY <1>3, <2>2 DEF LanesInv, Summing
  <2>4. sum[l] = Counted(width, Share(width, l))
    BY <1>2, <1>3 DEF LanesInv, Looping, Share
  <2>5. total' = Sharing(width, K \cup {l})
    <3>1. loaded[l][1] = Sharing(width, K)
      BY <2>3
    <3> QED
      BY <1>1, <1>3, <2>1, <2>4, <3>1, AddShare
  <2>6. ASSUME NEW k \in L, Adding(k)'
        PROVE  \E J \in SUBSET Finished' : loaded'[k] = <<Sharing(width, J)>> /\ (~raced => J = Finished')
    <3>1. k # l /\ Adding(k) /\ raced
      BY <2>2, <2>6, <1>3 DEF LanesInv, Summing
    <3> QED
      BY <3>1, <2>1, <1>1, <1>3 DEF LanesInv, Summing
  <2>7. ~raced => \A j, k \in L : Adding(j)' /\ Adding(k)' => j = k
    BY <2>2, <1>3 DEF LanesInv, Summing
  <2>8. /\ K \cup {l} \in SUBSET Finished' /\ K \cup {l} # {}
        /\ ~raced => K \cup {l} = Finished'
    BY <2>1, <2>3
  <2> QED
    BY <1>1, <2>5, <2>6, <2>7, <2>8 DEF Summing
<1> QED
  BY <1>4, <1>5, <1>6, <1>7 DEF LanesInv

LEMMA LanesNext == LanesInv /\ Lanes!Next => LanesInv'
<1> SUFFICES ASSUME LanesInv, Lanes!Next PROVE LanesInv'
  OBVIOUS
<1>1. CASE Lanes!Enqueue
  BY <1>1, EnqueueKeeps
<1>2. CASE Lanes!Get
  BY <1>2, GetKeeps
<1>3. ASSUME NEW l \in L, Lanes!LaneStep(l) PROVE LanesInv'
  BY <1>3, StartKeeps, ColumnKeeps, LoadKeeps, StoreKeeps, FinishKeeps DEF Lanes!LaneStep
<1> QED
  BY <1>1, <1>2, <1>3 DEF Lanes!Next, L

-----------------------------------------------------------------------------
(* The loop of the converter.                                              *)

LEMMA DivMod ==
  ASSUME NEW w \in Nat, NEW r \in Nat, NEW c \in Nat, c < w
  PROVE  (r * w + c) \div w = r /\ (r * w + c) % w = c
OBVIOUS

LEMMA Decode ==
  ASSUME NEW w \in Nat, NEW h \in Nat, NEW p \in Nat, p < h * w, w > 0
  PROVE  /\ p = (p \div w) * w + (p % w)
         /\ p \div w \in Nat /\ p \div w < h /\ p % w \in Nat /\ p % w < w
<1>1. p < w * h
  OBVIOUS
<1> QED
  BY <1>1

LEMMA FormatIs ==
  ASSUME NEW f \in Formats
  PROVE  /\ f.kind \in {"Gray8", "NV12", "NV21"}
         /\ f.width \in Nat /\ f.height \in Nat /\ f.stride \in Nat
BY PictureAssumption DEF Convert!FormatAssumption, Convert!Chroma

LEMMA PlanarInit == Convert!Init => PlanarInv
<1> SUFFICES ASSUME Convert!Init PROVE PlanarInv
  OBVIOUS
<1>1. /\ format \in Formats /\ Convert!Accepted(format)
      /\ Convert!Required(format) <= Convert!ISize(format)
      /\ y = 0 /\ x = 0 /\ dest = <<>>
  BY DEF Convert!Init
<1>2. format.width \in Nat /\ format.height \in Nat
  BY <1>1, FormatIs
<1>3. y * format.width + x - 1 = 0 - 1 /\ 0 .. 0 - 1 = {}
  BY <1>1, <1>2
<1>4. dest = [n \in {} |-> Convert!Read(format, n \div format.width, n % format.width)]
  BY <1>1
<1> QED
  BY <1>1, <1>2, <1>3, <1>4 DEF PlanarInv

LEMMA PixelKeeps == ASSUME PlanarInv, Convert!Pixel PROVE PlanarInv'
<1> DEFINE w == format.width
           N == y * w + x
           R(n) == Convert!Read(format, n \div w, n % w)
<1>1. /\ format \in Formats /\ w \in Nat /\ format.height \in Nat
      /\ y \in Nat /\ x \in Nat /\ x < w /\ y < format.height
      /\ x' = x + 1 /\ y' = y /\ format' = format
  BY FormatIs DEF PlanarInv, Convert!Pixel, Convert!AtPixel
<1>2. dest = [n \in 0 .. N - 1 |-> R(n)]
  <2>1. dest = [n \in 0 .. y * format.width + x - 1 |-> R(n)]
    BY DEF PlanarInv
  <2>2. y * format.width + x - 1 = N - 1
    BY <1>1
  <2> QED
    BY <2>1, <2>2
<1>3. dest' = [n \in DOMAIN dest \cup {N} |-> IF n = N THEN Convert!Read(format, y, x) ELSE dest[n]]
  BY DEF Convert!Pixel, Convert!Number
<1>4. N \in Nat /\ Convert!Read(format, y, x) = R(N)
  <2>1. N \div w = y /\ N % w = x
    BY <1>1, DivMod
  <2>2. N \in Nat
    BY <1>1
  <2> HIDE DEF N
  <2> QED
    BY <2>1, <2>2
<1>5. y' * w + x' - 1 = N
  BY <1>1, <1>4
<1> HIDE DEF N, R
<1>6. DOMAIN dest \cup {N} = 0 .. N
  BY <1>2, <1>4
<1>7. dest' = [n \in 0 .. N |-> R(n)]
  <2>1. \A n \in 0 .. N : (IF n = N THEN Convert!Read(format, y, x) ELSE dest[n]) = R(n)
    BY <1>2, <1>4
  <2> QED
    BY <1>3, <1>6, <2>1
<1>8. /\ y' \in 0 .. format.height /\ x' \in 0 .. w /\ y' # format.height
  BY <1>1
<1>9. dest' = [n \in 0 .. y' * w + x' - 1 |-> R(n)]
  BY <1>5, <1>7
<1> QED
  BY <1>1, <1>8, <1>9 DEF PlanarInv, R

LEMMA NextRowKeeps == ASSUME PlanarInv, Convert!NextRow PROVE PlanarInv'
<1> DEFINE w == format.width
<1>1. /\ format \in Formats /\ w \in Nat /\ format.height \in Nat
      /\ y \in Nat /\ x = w /\ y < format.height
      /\ y' = y + 1 /\ x' = 0 /\ format' = format /\ dest' = dest
  BY FormatIs DEF PlanarInv, Convert!NextRow
<1>2. y' * w + x' - 1 = y * w + x - 1
  BY <1>1
<1>3. y' \in 0 .. format.height /\ x' \in 0 .. w
  BY <1>1
<1> QED
  BY <1>1, <1>2, <1>3 DEF PlanarInv

LEMMA PlanarNext == PlanarInv /\ (Convert!Next \/ UNCHANGED convertVars) => PlanarInv'
<1>1. ASSUME PlanarInv, UNCHANGED convertVars PROVE PlanarInv'
  BY <1>1 DEF PlanarInv, convertVars
<1>2. Convert!Done => UNCHANGED convertVars
  BY DEF Convert!Done, Convert!vars, convertVars
<1> QED
  BY <1>1, <1>2, PixelKeeps, NextRowKeeps DEF Convert!Next

-----------------------------------------------------------------------------
(* Where the samples are.                                                  *)

\* The chroma index is that of a pair, for even widths.
LEMMA PairIs ==
  ASSUME NEW k \in Nat, NEW a \in Nat, NEW d \in Nat
  PROVE  ((a * (2 * k)) \div 2 + d) * 2 = 2 * (a * k + d)
<1>1. a * (2 * k) = (a * k) * 2 /\ a * k \in Nat
  OBVIOUS
<1>2. ((a * k) * 2) \div 2 = a * k
  BY <1>1
<1> QED
  BY <1>1, <1>2

LEMMA RowsFit ==
  ASSUME NEW w \in Nat, NEW h \in Nat, NEW r \in Nat, r < h, NEW c \in Nat, c < w
  PROVE  r * w + c \in Nat /\ r * w + c < h * w
<1>1. PICK d \in Nat : h = r + 1 + d
  OBVIOUS
<1>2. h * w = r * w + w + d * w /\ d * w \in Nat /\ r * w \in Nat
  BY <1>1
<1> QED
  BY <1>2

\* The positions a pixel is read from are its samples, and lie in the buffer.
LEMMA SamplesAre ==
  ASSUME Shaped, NEW f \in Formats,
         NEW r \in Nat, r < f.height, NEW c \in Nat, c < f.width
  PROVE  /\ Convert!Read(f, r, c) = Convert!Sample(f, r, c)
         /\ \A i \in DOMAIN Convert!Read(f, r, c) : Convert!Read(f, r, c)[i] < Convert!ISize(f)
<1> DEFINE w == f.width
           h == f.height
<1>1. w \in Nat /\ h \in Nat /\ f.stride \in Nat /\ f.kind \in {"Gray8", "NV12", "NV21"}
  BY FormatIs
<1>2. h * w \in Nat /\ h * f.stride \in Nat /\ Convert!Pixels(f) = h * w
  BY <1>1 DEF Convert!Pixels
<1>3. CASE f.kind = "Gray8"
  <2>1. w <= f.stride
    BY <1>3 DEF Shaped
  <2>2. r * f.stride + c < h * f.stride
    BY <1>1, <2>1, RowsFit
  <2>3. r * f.stride + c \in Nat
    BY <1>1
  <2>4. h * f.stride <= Convert!ISize(f) /\ Convert!ISize(f) \in Nat
    BY <1>2, <1>3 DEF Convert!ISize, Convert!Larger, Convert!Required
  <2>5. Convert!Read(f, r, c) = <<r * f.stride + c>>
    BY <1>3 DEF Convert!Read, Convert!GrayAt
  <2>6. Convert!Sample(f, r, c) = <<r * f.stride + c>>
    BY <1>3 DEF Convert!Sample
  <2>7. r * f.stride + c < Convert!ISize(f)
    BY <1>2, <2>2, <2>3, <2>4
  <2> HIDE DEF w, h
  <2> QED
    BY <2>5, <2>6, <2>7
<1>4. CASE f.kind # "Gray8"
  <2>1. w % 2 = 0 /\ h % 2 = 0
    BY <1>4 DEF Shaped
  <2> DEFINE k == w \div 2
             b == h \div 2
             a == r \div 2
             d == c \div 2
             q == a * k + d
  <2> HIDE DEF w, h
  <2>2. w = 2 * k /\ k \in Nat /\ h = 2 * b /\ b \in Nat
    BY <1>1, <2>1
  <2>3. a \in Nat /\ a < b /\ d \in Nat /\ d < k
    BY <1>1, <2>1, <2>2 DEF w, h
  <2>4. Convert!UVIndex(f, r, c) = 2 * q
    <3>1. Convert!UVIndex(f, r, c) = ((a * w) \div 2 + d) * 2
      BY DEF Convert!UVIndex, w
    <3> HIDE DEF a, d, k
    <3> QED
      BY <2>2, <2>3, <3>1, PairIs
  <2>5. q \in Nat /\ q < b * k
    BY <2>2, <2>3, RowsFit
  <2>6. b * k \in Nat /\ h * w = 4 * (b * k) /\ (h * w * 3) \div 2 = 6 * (b * k)
    <3> HIDE DEF k, b
    <3>1. h * w = (2 * b) * (2 * k) /\ b * k \in Nat
      BY <2>2
    <3>2. (2 * b) * (2 * k) = 4 * (b * k)
      BY <2>2
    <3>3. (4 * (b * k) * 3) \div 2 = 6 * (b * k)
      BY <3>1
    <3> QED
      BY <3>1, <3>2, <3>3
  <2>7. r * w + c \in Nat /\ r * w + c < h * w
    BY <1>1, RowsFit DEF w, h
  <2>8. Convert!Required(f) = 6 * (b * k)
    BY <1>2, <1>4, <2>6 DEF Convert!Required
  <2>9. Convert!Required(f) <= Convert!ISize(f) /\ Convert!ISize(f) \in Nat
    BY <1>2, <2>6, <2>8 DEF Convert!ISize, Convert!Larger, h
  <2>10. c + r * w = r * w + c
    BY <1>1, <2>2
  <2>11. Convert!Read(f, r, c) = <<r * w + c,
                                  IF f.kind = "NV12" THEN h * w + 2 * q ELSE h * w + 2 * q + 1,
                                  IF f.kind = "NV12" THEN h * w + 2 * q + 1 ELSE h * w + 2 * q>>
    BY <1>2, <1>4, <2>4, <2>10 DEF Convert!Read, Convert!ColourAt, w
  <2>12. Convert!Sample(f, r, c) = IF f.kind = "NV12"
                                   THEN <<r * w + c, h * w + 2 * q, h * w + 2 * q + 1>>
                                   ELSE <<r * w + c, h * w + 2 * q + 1, h * w + 2 * q>>
    BY <1>2, <1>4 DEF Convert!Sample, w
  <2>13. /\ r * w + c < Convert!ISize(f)
         /\ h * w + 2 * q < Convert!ISize(f) /\ h * w + 2 * q + 1 < Convert!ISize(f)
    <3> HIDE DEF q, b, k
    <3> QED
      BY <2>5, <2>6, <2>7, <2>8, <2>9
  <2> HIDE DEF q
  <2> QED
    BY <2>11, <2>12, <2>13
<1> QED
  BY <1>3, <1>4

-----------------------------------------------------------------------------
LEMMA InvsHold == Spec => [](LanesInv /\ PlanarInv)
<1>1. Init => LanesInv /\ PlanarInv
  BY LanesInit, PlanarInit DEF Init
<1>2. LanesInv /\ PlanarInv /\ [Next]_vars => LanesInv' /\ PlanarInv'
  <2> SUFFICES ASSUME LanesInv, PlanarInv, [Next]_vars PROVE LanesInv' /\ PlanarInv'
    OBVIOUS
  <2>1. CASE Converting
    BY <2>1, LanesUnchanged, PlanarNext DEF Converting
  <2>2. CASE Slicing
    BY <2>2, LanesNext, PlanarNext DEF Slicing
  <2>3. ASSUME NEW kind \in Lanes!Works, Asked(kind) PROVE LanesInv' /\ PlanarInv'
    <3>1. format.width \in Nat
      BY FormatIs DEF PlanarInv
    <3> QED
      BY <2>3, <3>1, CallKeeps, PlanarNext DEF Asked
  <2>4. CASE UNCHANGED vars
    BY <2>4, LanesUnchanged, PlanarNext DEF vars
  <2> QED
    BY <2>1, <2>2, <2>3, <2>4 DEF Next
<1> QED
  BY <1>1, <1>2, PTL DEF Spec

\* The converters on the calling thread read inside the buffer the scheduler was
\* asked for, the chroma plane included (YUV420SP.cpp:77-96, Gray8.cpp:60-67).
THEOREM ReadsStayInside == ASSUME Shaped PROVE Spec => []InBuffer
<1>1. PlanarInv => InBuffer
  <2> SUFFICES ASSUME PlanarInv, Convert!AtPixel,
                      NEW i \in DOMAIN Convert!Read(format, y, x)
               PROVE  Convert!Read(format, y, x)[i] < Convert!ISize(format)
    BY DEF InBuffer, Convert!InBuffer
  <2>1. /\ format \in Formats /\ y \in Nat /\ y < format.height /\ x \in Nat /\ x < format.width
    BY FormatIs DEF PlanarInv, Convert!AtPixel
  <2> QED
    BY <2>1, SamplesAre
<1> QED
  BY <1>1, InvsHold, PTL

\* The picture a converter returns is complete and every pixel of it made of its
\* own samples (YUV420SP.cpp:77-96, Gray8.cpp:60-67).
THEOREM PixelsAreRight == ASSUME Shaped PROVE Spec => []Converted
<1>1. PlanarInv => Converted
  <2> SUFFICES ASSUME PlanarInv, Convert!Returned PROVE Convert!Converted
    BY DEF Converted, Convert!Converted
  <2> DEFINE w == format.width
             h == format.height
  <2>1. format \in Formats /\ w \in Nat /\ h \in Nat /\ y = h /\ x = 0
    BY FormatIs DEF PlanarInv, Convert!Returned
  <2>2. y * w + x - 1 = Convert!Pixels(format) - 1 /\ Convert!Pixels(format) = h * w
    BY <2>1 DEF Convert!Pixels
  <2>3. w > 0
    BY <2>1 DEF PlanarInv, Convert!Accepted
  <2>4. ASSUME NEW n \in 0 .. Convert!Pixels(format) - 1
        PROVE  Convert!Read(format, n \div w, n % w) = Convert!Sample(format, n \div w, n % w)
    <3>1. n \in Nat /\ n < h * w
      BY <2>1, <2>2
    <3>2. n \div w \in Nat /\ n \div w < h /\ n % w \in Nat /\ n % w < w
      BY <2>1, <2>3, <3>1, Decode
    <3> QED
      BY <2>1, <3>2, SamplesAre
  <2>5. dest = [n \in 0 .. Convert!Pixels(format) - 1 |-> Convert!Read(format, n \div w, n % w)]
    BY <2>2 DEF PlanarInv
  <2> HIDE DEF w, h
  <2>6. dest = [n \in 0 .. Convert!Pixels(format) - 1 |-> Convert!Sample(format, n \div w, n % w)]
    BY <2>4, <2>5
  <2> QED
    BY <2>6 DEF Convert!Converted, w
<1> QED
  BY <1>1, InvsHold, PTL

\* The average of calStats counts the share of some lanes once and of no lane
\* twice, and that of every lane unless two of them were between reading the
\* total and writing it (stats.cpp:41).
THEOREM AverageIsOfWholeShares == Spec => []Averaged
<1>1. LanesInv => Averaged
  <2> SUFFICES ASSUME LanesInv, Lanes!Returned, work = "stats" PROVE Lanes!Averaged
    BY DEF Averaged, Lanes!Averaged
  <2>1. Finished = L
    BY Several DEF LanesInv, Calling, Lanes!Returned, Finished
  <2>2. PICK K \in SUBSET L : total = Sharing(width, K) /\ K # {} /\ (~raced => K = L)
    <3>1. 0 \in L
      BY Several
    <3> QED
      BY <2>1, <3>1 DEF LanesInv, Summing
  <2>3. Lanes!Counted(UNION {Lanes!Share(l) : l \in K}) = Sharing(width, K)
    BY <2>2, SameNames DEF Sharing
  <2> QED
    BY <2>2, <2>3 DEF Lanes!Averaged, L
<1> QED
  BY <1>1, InvsHold, PTL

\* Every column of the brightened picture is written, by one thread, whatever the
\* width and the number of threads (alight.cpp:48-69).
THEOREM EveryColumnIsLit == Spec => []Lit
<1>1. LanesInv => Lit
  <2> SUFFICES ASSUME LanesInv PROVE Lanes!Lit
    BY DEF Lit
  <2>1. width \in Nat
    BY DEF LanesInv, LaneTypes
  <2>2. ASSUME Lanes!Returned, work = "light" PROVE out = Lanes!Columns
    <3>1. \A l \in L : status[l] = "finished"
      BY <2>2, Several DEF LanesInv, Calling, Lanes!Returned
    <3>2. \A l \in L : column[l] = Cut(width, l + 1)
      BY <3>1 DEF LanesInv, Looping, Finished
    <3>3. out \subseteq Lanes!Columns /\ \A l \in L : Share(width, l) \subseteq out
      BY <2>2, <3>1, <3>2 DEF LanesInv, Writing, Started, Share
    <3> QED
      BY <2>1, <3>3, AllShares, SameNames
  <2>3. ASSUME NEW k \in L, NEW l \in L, Lanes!AtColumn(k), Lanes!AtColumn(l), column[k] = column[l]
        PROVE  k = l
    <3>1. Started(k) /\ Started(l) /\ k \in Nat /\ l \in Nat
      BY <2>3, Several DEF Started, Lanes!AtColumn
    <3>2. /\ Cut(width, k) <= column[k] /\ column[k] < Cut(width, k + 1)
          /\ Cut(width, l) <= column[l] /\ column[l] < Cut(width, l + 1)
          /\ column[k] \in Nat
      BY <2>3, <3>1, SameNames DEF LanesInv, LaneTypes, Looping, Lanes!AtColumn
    <3> QED
      BY <2>1, <2>3, <3>2, CutApart
  <2> QED
    BY <2>2, <2>3 DEF Lanes!Lit, L
<1> QED
  BY <1>1, InvsHold, PTL
=============================================================================
