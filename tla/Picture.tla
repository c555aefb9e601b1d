------------------------------ MODULE Picture ------------------------------
(***************************************************************************)
(* A Gray8 or YUV420SP picture from its samples to what the user asks of   *)
(* it: the converter makes the picture on the calling thread (Planar), and *)
(* calStats or adjustBrightness goes over its columns with the threads of  *)
(* the pool (Slices).  Both run on the GUI thread, so the picture does not *)
(* change while the lanes read it.                                         *)
(***************************************************************************)
EXTENDS Naturals

CONSTANTS Formats, Threads

VARIABLES format, y, x, dest,                                     \* of Planar
          work, width, status, calls, column, sum, loaded, total, out, raced

convertVars == <<format, y, x, dest>>
laneVars == <<work, width, status, calls, column, sum, loaded, total, out, raced>>
vars == <<convertVars, laneVars>>

Convert == INSTANCE Planar
Lanes == INSTANCE Slices WITH x <- column

ASSUME PictureAssumption == Convert!FormatAssumption /\ Lanes!ThreadsAssumption

Init == Convert!Init /\ Lanes!Init

Converting == Convert!Next /\ UNCHANGED laneVars

\* calStats(mainwindow->getImage()) or setLight(getAL()).
Asked(kind) ==
  /\ Convert!Returned
  /\ Lanes!Call(kind, format.width)
  /\ UNCHANGED convertVars

Slicing == Lanes!Next /\ UNCHANGED convertVars

Next == Converting \/ Slicing \/ \E kind \in Lanes!Works : Asked(kind)

Spec == Init /\ [][Next]_vars

-----------------------------------------------------------------------------
\* Of Planar: every read stays in the buffer the scheduler was asked for.
InBuffer == Convert!InBuffer

\* Of Planar: every pixel is made of its own samples.
Converted == Convert!Converted

\* Of Slices: the average is that of all columns unless two lanes raced.
Averaged == Lanes!Averaged

\* Of Slices: every column gets its light from one thread.
Lit == Lanes!Lit
=============================================================================
