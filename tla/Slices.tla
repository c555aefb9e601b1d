------------------------------- MODULE Slices -------------------------------
(***************************************************************************)
(* calStats (src/gui/mywidgets/algo/stats.cpp) and adjustBrightness        *)
(* (alight.cpp): the columns of a picture are divided among thread_counts  *)
(* pool tasks, and the calling thread waits for all of them.  The lanes of *)
(* adjustBrightness write disjoint columns of a new picture; those of      *)
(* calStats add to one std::atomic<double>, which they load and store in   *)
(* two steps: v_sum = v_sum + v_sum_i.                                     *)
(*                                                                         *)
(* A sum of brightness values is represented by how often each column went *)
(* into it; a column written is one whose pixels were all computed.        *)
(***************************************************************************)
EXTENDS Naturals

CONSTANT Threads     \* thread_counts, at least one (see ThreadPool.tla for none)

ThreadsAssumption == Threads \in Nat \ {0}

Lanes == 0 .. Threads - 1
Works == {"stats", "light"}

VARIABLES work,      \* which of the two was called, or "none"
          width,     \* of the picture
          status,    \* of each lane, as a task of the service
          calls,     \* how many of the enqueue() and get() calls have returned
          x,         \* the loop variable of each lane
          sum,       \* v_sum_i
          loaded,    \* <<v_sum as a lane of calStats has read it>>, or <<>>
          total,     \* v_sum
          out,       \* the columns of the new picture that are written
          raced      \* whether two lanes were between load and store at once

vars == <<work, width, status, calls, x, sum, loaded, total, out, raced>>

Pool == INSTANCE TaskService WITH Tasks <- Lanes, service <- "open"

Columns == 0 .. width - 1
Plus(a, b) == [c \in DOMAIN a |-> a[c] + b[c]]

\* Mutant: the width is divided first, and the columns left over are forgotten.
BeginRounded(l) == (width \div Threads) * l
Begin(l) == (width * l) \div Threads

Init ==
  /\ work = "none" /\ width = 0 /\ calls = 0 /\ raced = FALSE
  /\ status = [l \in Lanes |-> "new"]
  /\ x = [l \in Lanes |-> 0]
  /\ sum = [l \in Lanes |-> <<>>] /\ loaded = [l \in Lanes |-> <<>>]
  /\ total = <<>> /\ out = {}

\* The call, up to the first enqueue().
Call(kind, w) ==
  /\ work = "none"
  /\ work' = kind /\ width' = w
  /\ total' = [c \in 0 .. w - 1 |-> 0]
  /\ UNCHANGED <<status, calls, x, sum, loaded, out, raced>>

Enqueue ==
  /\ work # "none" /\ calls < Threads
  /\ Pool!Accept(calls)
  /\ calls' = calls + 1
  /\ UNCHANGED <<work, width, x, sum, loaded, total, out, raced>>

\* A worker takes the task: the lane has its own v_sum_i and x.
Start(l) ==
  /\ Pool!Start(l)
  /\ x' = [x EXCEPT ![l] = Begin(l)]
  /\ sum' = [sum EXCEPT ![l] = [c \in Columns |-> 0]]
  /\ UNCHANGED <<work, width, calls, loaded, total, out, raced>>

AtColumn(l) == status[l] = "running" /\ loaded[l] = <<>> /\ x[l] < Begin(l + 1)

\* The pixels of one column.
Column(l) ==
  /\ AtColumn(l)
  /\ x' = [x EXCEPT ![l] = @ + 1]
  /\ IF work = "stats" THEN sum' = [sum EXCEPT ![l][x[l]] = @ + 1] /\ UNCHANGED out
                       ELSE out' = out \cup {x[l]} /\ UNCHANGED sum
  /\ UNCHANGED <<work, width, status, calls, loaded, total, raced>>

\* v_sum + v_sum_i reads the total ...
Load(l) ==
  /\ work = "stats" /\ status[l] = "running" /\ loaded[l] = <<>> /\ ~AtColumn(l)
  /\ loaded' = [loaded EXCEPT ![l] = <<total>>]
  /\ raced' = (raced \/ \E k \in Lanes : loaded[k] # <<>> /\ status[k] = "running")
  /\ UNCHANGED <<work, width, status, calls, x, sum, total, out>>

Stored(l, value) ==
  /\ loaded[l] # <<>>
  /\ Pool!Finish(l)
  /\ total' = value
  /\ UNCHANGED <<work, width, calls, x, sum, loaded, out, raced>>

\* Mutant: the total of the other lanes is not added to.
StoreOwn(l) == Stored(l, sum[l])

\* ... and the assignment writes it, as the last thing a lane of calStats does.
Store(l) == Stored(l, Plus(loaded[l][1], sum[l]))

\* A lane of adjustBrightness ends with its loop.
Finish(l) ==
  /\ work = "light" /\ ~AtColumn(l)
  /\ Pool!Finish(l)
  /\ UNCHANGED <<work, width, calls, x, sum, loaded, total, out, raced>>

Get ==
  /\ calls \in Threads .. 2 * Threads - 1
  /\ status[calls - Threads] = "finished"
  /\ calls' = calls + 1
  /\ UNCHANGED <<work, width, status, x, sum, loaded, total, out, raced>>

LaneStep(l) == Start(l) \/ Column(l) \/ Load(l) \/ Store(l) \/ Finish(l)
Next == Enqueue \/ Get \/ \E l \in Lanes : LaneStep(l)

Returned == calls = 2 * Threads

-----------------------------------------------------------------------------
Share(l) == {c \in Columns : (width * l) \div Threads <= c /\ c < (width * (l + 1)) \div Threads}
Counted(cs) == [c \in Columns |-> IF c \in cs THEN 1 ELSE 0]

\* What calStats divides by the number of pixels: the share of some lanes whole
\* and of no lane twice, and that of all lanes unless two of them overlapped
\* between reading the total and writing it (stats.cpp:41).  The average is never
\* too high, and wrong only by that race.
Averaged ==
  Returned /\ work = "stats" =>
    \E kept \in SUBSET Lanes :
      /\ kept # {} /\ (raced \/ kept = Lanes)
      /\ total = Counted(UNION {Share(l) : l \in kept})

\* adjustBrightness returns a picture without a column left over, whatever the
\* width and the number of threads, and no two threads write one column
\* (alight.cpp:48-69).
Lit ==
  /\ Returned /\ work = "light" => out = Columns
  /\ \A k, l \in Lanes : AtColumn(k) /\ AtColumn(l) /\ x[k] = x[l] => k = l
=============================================================================
