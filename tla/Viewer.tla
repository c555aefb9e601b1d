------------------------------- MODULE Viewer -------------------------------
(***************************************************************************)
(* One image viewer (src/gui/mywidgets/myQImageviewer.cpp) with the        *)
(* handlers of the main window (mainwindow.cpp) and the check boxes and    *)
(* zoom controls of the information bar (myInfoBar.cpp) that work on it.   *)
(* All of it runs on the GUI thread: a handler is one step, and the calls  *)
(* it makes, signals included, are operators from a scene to a scene.      *)
(*                                                                         *)
(* The picture of a raw file is a view on the output buffer of the         *)
(* viewer's request; that of any other file, and every picture the viewer  *)
(* computes, has memory of its own.                                        *)
(***************************************************************************)
EXTENDS Integers

CONSTANTS RawFiles, ImageFiles,  \* raw files; jpg, bmp, png, gif, jpeg
          Zooms,                 \* what the zoom controls offer
          MinZoom, MaxZoom,
          NoFile, Null, Garbage

Files == RawFiles \cup ImageFiles

ASSUME ViewerAssumption ==
  /\ RawFiles \cap ImageFiles = {} /\ NoFile \notin Files
  /\ MinZoom \in Nat /\ MaxZoom \in Nat /\ 100 \in MinZoom .. MaxZoom
  /\ Zooms \subseteq MinZoom .. MaxZoom

VARIABLES viewer,  \* the members of the QImageViewer
          bar,     \* the check boxes FIT, AL and BP and the zoom control
          label    \* the pixmap mp_label_image shows, or Null

vars == <<viewer, bar, label>>

Pictures == [file : Files, bayer : BOOLEAN, light : BOOLEAN, flip : BOOLEAN]
Picture(f, b) == [file |-> f, bayer |-> b, light |-> FALSE, flip |-> FALSE]

\* A pixmap is a picture painted at an angle and a zoom.  `image' is what the
\* memory of the QImage holds (Null for a null image), and `at' whose memory that
\* is: its own, that of a buffer of the request, or a block that was freed.
\* `listed' is whether fileInfoList has files.
Pixmaps == [pic : Pictures \cup {Garbage}, angle : 0 .. 3, ratio : MinZoom .. MaxZoom]
Places  == {"own", "in", "out", "freed"}

\* Null and Garbage are values of their own.
ASSUME ValuesAssumption ==
  /\ Null \notin Pictures \cup Pixmaps \cup {Garbage}
  /\ Garbage \notin Pictures

TypeOK ==
  /\ viewer \in
       [filename : Files \cup {NoFile}, empty : BOOLEAN,
        angle : 0 .. 3, ratio : MinZoom .. MaxZoom,
        image : Pictures \cup {Garbage, Null}, at : Places,
        origin : Pictures \cup {Null}, pixmap : Pixmaps \cup {Null},
        isInit : BOOLEAN, angleTmp : 0 .. 3, ratioTmp : MinZoom .. MaxZoom,
        listed : BOOLEAN]
  /\ bar \in [fit : BOOLEAN, al : BOOLEAN, bp : BOOLEAN, zoom : MinZoom .. MaxZoom]
  /\ label \in Pixmaps \cup {Null}

Init ==
  /\ viewer = [filename |-> NoFile, empty |-> TRUE, angle |-> 0, ratio |-> 100,
               image |-> Null, at |-> "own", origin |-> Null, pixmap |-> Null,
               isInit |-> FALSE, angleTmp |-> 0, ratioTmp |-> 100,
               listed |-> FALSE]
  /\ bar = [fit |-> FALSE, al |-> FALSE, bp |-> TRUE, zoom |-> 100]
  /\ label = Null

-----------------------------------------------------------------------------
(* The viewer.                                                             *)

HasImage(v) == v.image # Null

Clamp(z) == IF z > MaxZoom THEN MaxZoom ELSE IF z < MinZoom THEN MinZoom ELSE z

\* setAGetZoom: the step grows with the zoom.
Enlarged(z) == Clamp(z + (IF z >= 100 THEN 20 ELSE IF z >= 68 THEN 16
                          ELSE IF z >= 36 THEN 8 ELSE IF z >= 20 THEN 4 ELSE 2))
Lessened(z) == Clamp(z - (IF z > 100 THEN 20 ELSE IF z > 68 THEN 16
                          ELSE IF z > 36 THEN 8 ELSE IF z > 20 THEN 4 ELSE 2))

\* Mutant: an equal zoom is enough to skip the painting.
UpToDateByZoom(v) == ~v.isInit /\ v.ratioTmp = v.ratio

UpToDate(v) == ~v.isInit /\ v.ratioTmp = v.ratio /\ v.angleTmp = v.angle

\* setAngleAndScale(angle, 0): painting is skipped when the pixmap is known to
\* be up to date.
Paint(v) ==
  IF UpToDate(v) THEN v
  ELSE [v EXCEPT !.pixmap = [pic |-> v.image, angle |-> v.angle, ratio |-> v.ratio],
                 !.angleTmp = v.angle, !.ratioTmp = v.ratio]

Holding(v, pic) == [v EXCEPT !.image = pic, !.at = "own"]

SetZoom(v, z) ==
  LET zoomed == [v EXCEPT !.ratio = Clamp(z)]
  IN  IF HasImage(v) THEN Paint(zoomed) ELSE zoomed

\* setLight: l >= 0 when `on'.  Always from the original picture.
SetLight(v, on) ==
  IF ~HasImage(v) THEN v
  ELSE Paint([Holding(v, [v.origin EXCEPT !.light = on]) EXCEPT !.isInit = TRUE])

Flipped(v) ==
  Paint([Holding(v, [v.image EXCEPT !.flip = ~@]) EXCEPT !.isInit = TRUE])

Spun(v, quarters) == Paint([v EXCEPT !.angle = (@ + quarters) % 4])

\* A buffer of the request is resized, which may free its block, and filled with
\* something else: an image that is a view on it shows that.
Filled(v, buffer, grows) ==
  IF v.at # buffer THEN v
  ELSE [v EXCEPT !.image = Garbage, !.at = IF grows THEN "freed" ELSE buffer]

\* REQUESTINFO::swap between two links: the image's memory changes its name.
Swapped(v) ==
  [v EXCEPT !.at = CASE @ = "in" -> "out" [] @ = "out" -> "in" [] OTHER -> @]

\* cvt_process that ends midway, as the viewer sees it: the file was read into
\* the input buffer and the last of `links' converters gave up on the output
\* buffer, after a swap with the input buffer when it was the second.
Interrupted(v, run) ==
  LET Output(u) == Filled(u, "out", run.grows)
      first == Output(Filled(v, "in", run.grows))
  IN  IF run.links = 1 THEN first ELSE Output(Swapped(first))

\* Mutant: the result of the load is not looked at.
FailedUnnoticed(v) == v

Failed(v) == [v EXCEPT !.empty = TRUE]

\* Mutant: the original is not replaced.
LoadedShowing(v) == [Paint([v EXCEPT !.isInit = TRUE]) EXCEPT !.isInit = FALSE, !.empty = FALSE]

Loaded(v) ==
  [Paint([v EXCEPT !.isInit = TRUE])
     EXCEPT !.isInit = FALSE, !.empty = FALSE, !.origin = v.image]

\* How a load may end: the file or the format is refused before anything is
\* touched, a converter gives up on the way, or all is well.
Runs == [ends : {"refused", "well"}] \cup [ends : {"midway"}, links : {1, 2}, grows : BOOLEAN]

Succeeds(v, run) == v.filename # NoFile /\ run.ends = "well"

\* setRaw -> upgradeFileInfo -> loadRawImg or loadNormalImg.  Without a file name
\* it fails before m_empty is set, and an image that cannot be read is null.
SetRaw(v, bayer, run) ==
  CASE v.filename = NoFile -> v
    [] v.filename \in ImageFiles ->
         IF run.ends = "well" THEN Loaded(Holding(v, Picture(v.filename, FALSE)))
         ELSE Failed(Holding(v, Null))
    [] v.filename \in RawFiles ->
         CASE run.ends = "refused" -> Failed(v)
           [] run.ends = "midway" -> Failed(Interrupted(v, run))
           [] run.ends = "well" ->
                Loaded([v EXCEPT !.image = Picture(v.filename, bayer), !.at = "out"])

\* closeImageFile: the original picture and the angle stay.
Closed(v) ==
  [Holding(v, Null) EXCEPT !.filename = NoFile, !.empty = TRUE, !.listed = FALSE, !.pixmap = Null]

-----------------------------------------------------------------------------
(* The window and the bar: operators from scene to scene.                  *)

Scene == [viewer |-> viewer, bar |-> bar, label |-> label]

Become(s) == viewer' = s.viewer /\ bar' = s.bar /\ label' = s.label

Labelled(s) == [s EXCEPT !.label = s.viewer.pixmap]
Cleared(s)  == [s EXCEPT !.label = Null]

\* MainWindow::setZoomAction
ZoomAction(s, z) ==
  IF s.viewer.empty THEN s
  ELSE Labelled([s EXCEPT !.bar.fit = FALSE, !.viewer = SetZoom(@, z)])

\* ImageInformationBar::setZoom and its signal, setZoomValue
BarZoom(s, z) ==
  LET set == [s EXCEPT !.bar.zoom = z]
  IN  IF s.bar.zoom = z \/ z = s.viewer.ratio THEN set ELSE ZoomAction(set, z)

\* setFit: `z' is the zoom that fits, and the box stays checked.
Fitted(s, z) == IF s.bar.fit THEN [BarZoom(s, z) EXCEPT !.bar.fit = TRUE] ELSE s

\* MainWindow::loadImageResource(false)
Show(s, z) == Labelled(Fitted(s, z))

\* MainWindow::setLight, and resetAL(Qt::Unchecked) with the signal it raises
Lit(s, on, z) == Show([s EXCEPT !.viewer = SetLight(@, on)], z)
ResetAL(s, z) == IF s.bar.al THEN Lit([s EXCEPT !.bar.al = FALSE], FALSE, z) ELSE s

\* MainWindow::settingTriggered, with the format the bar shows
Submitted(s, run, z) ==
  LET loaded == [s EXCEPT !.viewer = SetRaw(@, s.bar.bp, run)]
  IN  IF Succeeds(s.viewer, run) THEN Show(ResetAL(loaded, z), z) ELSE Cleared(loaded)

\* MainWindow::loadImageResource(true)
Reloaded(s, run, z) == Show(Submitted(s, run, z), z)

-----------------------------------------------------------------------------
(* The handlers.                                                           *)

\* fileTreeTriggered: a double click in the tree, a drop or the dialogue.  The
\* file filter decides whether the list has any file of the directory.
Open(f) ==
  \E run \in Runs, z \in Zooms, some \in BOOLEAN :
    LET named == [Scene EXCEPT !.viewer.filename = f, !.viewer.listed = some]
    IN  Become(Reloaded(ResetAL(named, z), run, z))

\* The dialogue was cancelled: the name is empty and the picture stays loaded.
OpenNothing == Become(Cleared([Scene EXCEPT !.viewer.filename = NoFile]))

\* last or next.  Either the file tree does not follow and the name is all that
\* changes, or it opens the file its own cursor comes to (Open).
Navigate(f) == viewer.listed /\ Become([Scene EXCEPT !.viewer.filename = f])

NothingToNavigate == ~viewer.listed /\ Become(Cleared(Scene))

ProcessBtnClicked == \E run \in Runs, z \in Zooms : Become(Submitted(Scene, run, z))

\* HF guesses the format and loads again.
HardFormat == \E run \in Runs, z \in Zooms : Become(Reloaded(Scene, run, z))

SetAL(on) ==
  /\ bar.al # on
  /\ \E z \in Zooms : Become(Lit([Scene EXCEPT !.bar.al = on], on, z))

\* setBayerShow; `applies' when the selected type is a Bayer or a MIPI one.
SetBP(on, applies) ==
  /\ bar.bp # on
  /\ LET set == [Scene EXCEPT !.bar.bp = on]
     IN  IF ~applies \/ viewer.empty THEN Become(set)
         ELSE \E run \in Runs, z \in Zooms :
                LET loaded == [set EXCEPT !.viewer = SetRaw(@, on, run)]
                IN  Become(IF Succeeds(viewer, run) THEN Show(loaded, z) ELSE Cleared(loaded))

SetFit(on) ==
  /\ bar.fit # on
  /\ \E z \in Zooms : Become(Fitted([Scene EXCEPT !.bar.fit = on], z))

ZoomMoved(z) == bar.zoom # z /\ Become(BarZoom(Scene, z))

\* setAGetZoom has changed size_ratio before the bar and the picture follow.
ZoomStep(z) ==
  LET stepped == [Scene EXCEPT !.viewer.ratio = z]
  IN  ~viewer.empty /\ Become(ZoomAction(BarZoom(stepped, z), z))

ToEnlarge == ZoomStep(Enlarged(viewer.ratio))
ToLessen  == ZoomStep(Lessened(viewer.ratio))

Spin(quarters) ==
  /\ ~viewer.empty
  /\ \E z \in Zooms : Become(Show([Scene EXCEPT !.viewer = Spun(@, quarters)], z))

\* Mutant: the label is not told.
FlipUnshown == ~viewer.empty /\ Become([Scene EXCEPT !.viewer = Flipped(@)])

Flip ==
  /\ ~viewer.empty
  /\ \E z \in Zooms : Become(Show([Scene EXCEPT !.viewer = Flipped(@)], z))

Reset ==
  \E run \in Runs, z \in Zooms :
    LET unfit == BarZoom([Scene EXCEPT !.bar.fit = FALSE], 100)
        reset == [unfit EXCEPT !.viewer.angle = 0, !.viewer.ratio = 100]
    IN  Become(Reloaded(reset, run, z))

Close  == Become(Cleared([Scene EXCEPT !.viewer = Closed(@)]))

\* deleteActionTriggered: the file goes, from the list as well, and the viewer
\* keeps the picture.
Delete ==
  /\ viewer.filename # NoFile
  /\ \E some \in BOOLEAN :
       (some => viewer.listed) /\ Become(Cleared([Scene EXCEPT !.viewer.listed = some]))

ResizeEvent == \E z \in Zooms : Become(Show(Scene, z))

Next ==
  \/ \E f \in Files : Open(f) \/ Navigate(f)
  \/ OpenNothing \/ NothingToNavigate \/ ProcessBtnClicked \/ HardFormat
  \/ \E on \in BOOLEAN : SetAL(on) \/ SetFit(on) \/ \E applies \in BOOLEAN : SetBP(on, applies)
  \/ \E z \in Zooms : ZoomMoved(z)
  \/ ToEnlarge \/ ToLessen \/ Spin(1) \/ Spin(3) \/ Flip
  \/ Reset \/ Close \/ Delete \/ ResizeEvent

Spec == Init /\ [][Next]_vars

-----------------------------------------------------------------------------
Painted(v) == [pic |-> v.image, angle |-> v.angle, ratio |-> v.ratio]

\* While the viewer has a picture, the memory of its image still holds what was
\* painted last, whatever later loads did to the buffers it may be a view on:
\* what is saved, rotated or zoomed is what was shown (myQImageviewer.cpp:104,
\* 412-421, 451-454, with isEmpty guarding the handlers of mainwindow.cpp).
ShownIsHeld == ~viewer.empty => viewer.pixmap # Null /\ viewer.pixmap.pic = viewer.image

\* The label shows nothing or the viewer's pixmap: no handler changes the one
\* without the other (mainwindow.cpp:73-101 and its callers).
LabelIsCurrent == label \in {Null, viewer.pixmap}

\* The picture light is computed from is that of the file that is shown, and
\* carries neither light nor a flip (myQImageviewer.cpp:231-249, 419).
OriginIsPristine ==
  ~viewer.empty => viewer.origin = Picture(viewer.image.file, viewer.image.bayer)

\* Painting is skipped only when there is nothing to paint: after a turn, a flip,
\* a zoom or a change of light of a viewer with a picture, the pixmap shows the
\* image at the viewer's angle and zoom (myQImageviewer.cpp:534-595).
HandlersRepaint ==
  [][(Spin(1) \/ Spin(3) \/ Flip \/ ToEnlarge \/ ToLessen \/ SetAL(TRUE) \/ SetAL(FALSE))
       /\ ~viewer.empty => viewer'.pixmap = Painted(viewer')]_vars
=============================================================================
