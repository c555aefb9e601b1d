----------------------------- MODULE Navigation -----------------------------
(***************************************************************************)
(* Which file comes next.  The viewer keeps the list of the files beside   *)
(* the one it shows, read when that was opened, and steps through it in a  *)
(* circle (src/gui/mywidgets/myQImageviewer.cpp:128-205, 597-656); the file*)
(* tree keeps the row it was last asked for and steps to the row above or  *)
(* below (myFileTree.cpp:181-219, 267-284, 327-394).  Last and next ask    *)
(* both, and what the tree finds is opened.  The disk changes behind both  *)
(* (other programs), and the rows of the tree follow it some time later.   *)
(*                                                                         *)
(* Files are numbers, in the order of their names.  They are all in one    *)
(* directory, Home; the tree can be moved to others.                       *)
(***************************************************************************)
EXTENDS Integers, SequencesExt, FiniteSetsExt

CONSTANTS DiskFiles, \* the files that may be on the disk
          Hidden,    \* those the filter hides from the list and the tree
          Bad,       \* those that are not a picture in the format in use
          Dirs,      \* directories
          Home,      \* that of the files
          Parent,    \* [Dirs -> Dirs], that of a root being itself
          None,
          MaxDirs    \* bound of the exploration: the directories in both halves
                     \* of the history

ASSUME NavigationAssumption ==
  /\ DiskFiles \subseteq Int /\ IsFiniteSet(DiskFiles) /\ None \notin DiskFiles
  /\ Home \in Dirs /\ Parent \in [Dirs -> Dirs]
  /\ IsFiniteSet(Dirs) /\ Dirs \cap DiskFiles = {}

VARIABLES disk,      \* the files that exist
          rows,      \* those the tree knows
          list,      \* fileInfoList
          index,     \* of the viewer, from 0; -1 for none
          name,      \* the viewer's filename, or None
          shown,     \* the file whose picture is on the label, or None
          loop,      \* indexLoop: <<>>, or <<direction, count>>
          fault,     \* whether it has read beyond the list
          cursor,    \* m_index of the tree: <<>>, or <<row, entry>>
          root,      \* the directory the tree shows
          hist,      \* [back, forth]: m_dirs and m_o_dirs
          vanished,  \* whether a file vanished since the list was read
          failed     \* whether a load failed since the last good opening

browser == <<list, index, name, shown, failed>>
tree == <<cursor, root, hist>>
navigationVars == <<disk, rows, browser, loop, fault, tree, vanished>>

\* By name: each has as many before it as there are lesser ones.
Sorted(fs) ==
  [i \in 1 .. Cardinality(fs) |-> CHOOSE f \in fs : Cardinality({g \in fs : g < f}) = i - 1]

NavigationInit ==
  /\ disk = DiskFiles /\ rows = DiskFiles \ Hidden
  /\ list = <<>> /\ index = -1 /\ name = None /\ shown = None
  /\ loop = <<>> /\ fault = FALSE /\ vanished = FALSE /\ failed = FALSE
  /\ cursor = <<>> /\ root = Home /\ hist = [back |-> <<Home>>, forth |-> <<>>]

Idle == loop = <<>> /\ ~fault

-----------------------------------------------------------------------------
(* Opening: loadImageResource(filename), getFileInfoList, upgradeFileInfo *)

Position(fs, f) ==
  IF \E i \in DOMAIN fs : fs[i] = f THEN (CHOOSE i \in DOMAIN fs : fs[i] = f) - 1 ELSE -1

\* The list is read anew; a load that fails hides the picture and leaves the index
\* at i, where it was.
Opened(f, i) ==
  LET fs == Sorted(disk \ Hidden)
      good == f \in disk \ Bad
  IN  /\ name' = f
      /\ list' = fs /\ vanished' = FALSE
      /\ index' = IF good THEN Position(fs, f) ELSE i
      /\ shown' = IF good THEN f ELSE None
      /\ failed' = ~good

\* By drop, or by the dialogue, which does not ask the filter.
OpenFile(f) ==
  /\ Idle /\ f \in disk
  /\ Opened(f, index)
  /\ UNCHANGED <<disk, rows, loop, fault, tree>>

\* The dialogue was cancelled: the name is gone before that is noticed, list and
\* index are not.
CancelOpen ==
  /\ Idle
  /\ name' = None /\ shown' = None
  /\ UNCHANGED <<disk, rows, list, index, failed, loop, fault, tree, vanished>>

-----------------------------------------------------------------------------
(* The tree *)

\* What it shows: directories, then files.
View ==
  SetToSeq({d \in Dirs : Parent[d] = root /\ d # root})
    \o (IF root = Home THEN Sorted(rows) ELSE <<>>)

\* The row of m_index as the view finds it: 0 when it is not where it was.
Row ==
  IF cursor # <<>> /\ cursor[1] \in DOMAIN View /\ View[cursor[1]] = cursor[2] THEN cursor[1] ELSE 0

\* indexBelow() of a row that is not there any more begins at the top, indexAbove()
\* finds nothing; before any row was asked for neither does.
BesideBy(d) == IF cursor = <<>> \/ (Row = 0 /\ d < 0) THEN 0 ELSE Row + d

\* Mutant: above and below are exchanged.
Opposite(d) == BesideBy(-d)

Beside(d) == BesideBy(d)

\* Mutant: a directory is pushed onto itself.
VisitedAgain(h, dir) == [h EXCEPT !.back = Append(@, dir)]

\* changeRootPath(): the directory becomes the root and, unless it is there, the
\* top of m_dirs.
Visited(h, dir) ==
  [h EXCEPT !.back = IF @ # <<>> /\ Last(@) = dir THEN @ ELSE Append(@, dir)]

Shows(h) ==
  /\ Len(h.back) + Len(h.forth) <= MaxDirs
  /\ hist' = h /\ root' = Last(h.back)

\* last(), next(): onDoubleClicked() for a file; a directory, or nothing, is left.
Stays(d) == Beside(d) \in DOMAIN View => View[Beside(d)] \in Dirs

TreeFollows(d, i) ==
  /\ ~Stays(d)
  /\ cursor' = <<Beside(d), View[Beside(d)]>>
  /\ Opened(View[Beside(d)], i)
  /\ UNCHANGED <<root, hist>>

DoubleClick(r) ==
  /\ Idle /\ r \in DOMAIN View
  /\ cursor' = <<r, View[r]>>
  /\ \/ View[r] \in Dirs /\ Shows(Visited(hist, View[r])) /\ UNCHANGED <<browser, vanished>>
     \/ View[r] \notin Dirs /\ Opened(View[r], index) /\ UNCHANGED <<root, hist>>
  /\ UNCHANGED <<disk, rows, loop, fault>>

KeyPress(d) ==
  /\ Idle /\ TreeFollows(d, index)
  /\ UNCHANGED <<disk, rows, loop, fault>>

-----------------------------------------------------------------------------
(* Last and next *)

\* indexLoop() is called; with an empty list the label is cleared.
Step(d) ==
  /\ Idle
  /\ IF list = <<>> THEN shown' = None /\ UNCHANGED loop
                    ELSE loop' = <<d, Len(list)>> /\ UNCHANGED shown
  /\ UNCHANGED <<disk, rows, list, index, name, fault, tree, vanished, failed>>

\* Mutant: the end of the list is taken for one step further.
AroundLate(i, count) == IF i < 0 THEN count - 1 ELSE IF i > count THEN 0 ELSE i
Around(i, count) == IF i < 0 THEN count - 1 ELSE IF i >= count THEN 0 ELSE i

\* One turn of the loop, whose count is that of its beginning: a file that is gone
\* leaves the list and the search goes on, one that is there becomes the name, and
\* the tree is asked in turn.
Turn ==
  LET i == Around(index + loop[1], loop[2])
  IN  /\ loop # <<>> /\ ~fault
      /\ IF i >= Len(list)
         THEN fault' = TRUE /\ UNCHANGED <<browser, loop, tree, vanished>>
         ELSE IF list[i + 1] \notin disk
              THEN /\ index' = i /\ name' = list[i + 1]
                   /\ list' = RemoveAt(list, i + 1)
                   /\ UNCHANGED <<shown, failed, loop, fault, tree, vanished>>
              ELSE /\ loop' = <<>>
                   /\ \/ TreeFollows(loop[1], i)
                      \/ /\ Stays(loop[1])
                         /\ index' = i /\ name' = list[i + 1]
                         /\ UNCHANGED <<list, shown, failed, vanished, tree>>
                   /\ UNCHANGED fault
      /\ UNCHANGED <<disk, rows>>

-----------------------------------------------------------------------------
(* Delete, close, and the submit button, which loads the name again *)

\* delImageFile() takes the place of the index out of the list; -1 is no place.
Dropped(fs, i) == IF i + 1 \in DOMAIN fs THEN RemoveAt(fs, i + 1) ELSE fs

DeleteFile ==
  /\ Idle /\ name \in disk
  /\ disk' = disk \ {name}
  /\ list' = Dropped(list, index)
  /\ shown' = None
  /\ UNCHANGED <<rows, index, name, failed, loop, fault, tree, vanished>>

CloseFile ==
  /\ Idle
  /\ list' = <<>> /\ index' = -1 /\ name' = None /\ shown' = None
  /\ vanished' = FALSE
  /\ UNCHANGED <<disk, rows, failed, loop, fault, tree>>

Reload ==
  /\ Idle /\ name # None
  /\ LET good == name \in disk \ Bad
     IN  /\ index' = IF good THEN Position(list, name) ELSE index
         /\ shown' = IF good THEN name ELSE None
         /\ failed' = (failed \/ ~good)
  /\ UNCHANGED <<disk, rows, list, name, loop, fault, tree, vanished>>

-----------------------------------------------------------------------------
(* The directories of the tree *)

\* Two are taken off, and the second is visited again.
Backed(h) ==
  LET n == Len(h.back)
  IN  Visited([back |-> SubSeq(h.back, 1, n - 2), forth |-> Append(h.forth, h.back[n])],
              h.back[n - 1])

Forthed(h) == Visited([h EXCEPT !.forth = Front(@)], Last(h.forth))

Moves(h) ==
  /\ Idle /\ Shows(h)
  /\ UNCHANGED <<disk, rows, browser, loop, fault, cursor, vanished>>

OnBackClicked == Len(hist.back) >= 2 /\ Moves(Backed(hist))
OnGoClicked == hist.forth # <<>> /\ Moves(Forthed(hist))
OnUpClicked ==
  LET top == Last(hist.back)
  IN  Parent[top] # top /\ Moves(Visited(hist, Parent[top]))
OnEnterClicked(dir) == Moves(Visited(hist, dir))

-----------------------------------------------------------------------------
(* Others *)

Vanish(f) ==
  /\ f \in disk /\ ~fault
  /\ disk' = disk \ {f} /\ vanished' = TRUE
  /\ UNCHANGED <<rows, browser, loop, fault, tree>>

Refresh ==
  /\ rows # disk \ Hidden /\ Idle
  /\ rows' = disk \ Hidden
  /\ UNCHANGED <<disk, browser, loop, fault, tree, vanished>>

NavigationNext ==
  \/ \E f \in DiskFiles : OpenFile(f) \/ Vanish(f)
  \/ \E r \in DOMAIN View : DoubleClick(r)
  \/ \E d \in {-1, 1} : KeyPress(d) \/ Step(d)
  \/ CancelOpen \/ Turn \/ DeleteFile \/ CloseFile \/ Reload
  \/ OnBackClicked \/ OnGoClicked \/ OnUpClicked \/ \E dir \in Dirs : OnEnterClicked(dir)
  \/ Refresh

NavigationSpec == NavigationInit /\ [][NavigationNext]_navigationVars

-----------------------------------------------------------------------------
\* The list is read beyond its end only after a file vanished behind the program's
\* back or a load failed; until then every file in the list exists, through any
\* sequence of deleting, stepping and opening (myQImageviewer.cpp:152, 157-191:
\* the count is not that of the list any more once a file was taken out).
BrowsingIsSafe ==
  ~vanished /\ ~failed => ~fault /\ ToSet(list) \subseteq disk

\* Viewer and tree are at one file and know what is on the disk.
Together ==
  /\ root = Home /\ rows = disk \ Hidden /\ list = Sorted(rows)
  /\ name # None /\ shown = name /\ index = Position(list, name)
  /\ Row # 0 /\ View[Row] = name

\* Then last and next come to the neighbour in both, and it is the file that is
\* shown; at either end the picture stays (mainwindow.cpp:241-271,
\* myFileTree.cpp:376-394).  Each finds the file on its own, one in a circle of
\* names and one in rows with directories before them.
StepsToNeighbour ==
  [][loop # <<>> /\ loop' = <<>> /\ Together =>
       LET i == index + 1 + loop[1]
       IN  IF i \in DOMAIN list
           THEN /\ name' = list[i] /\ cursor'[2] = list[i]
                /\ shown' = IF list[i] \in Bad THEN None ELSE list[i]
           ELSE UNCHANGED <<shown, cursor>>]_navigationVars

\* Back always moves, and forward undoes it (myFileTree.cpp:181-214, 348-350):
\* no directory is kept twice in a row, and taking two off loses none.
BackAndForth ==
  Len(hist.back) >= 2 =>
    /\ Last(Backed(hist).back) # Last(hist.back)
    /\ Forthed(Backed(hist)) = hist
=============================================================================
