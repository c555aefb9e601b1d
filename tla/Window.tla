------------------------------- MODULE Window -------------------------------
(***************************************************************************)
(* The main window with its tabs (src/gui/mywidgets/mainwindow.cpp): each  *)
(* tab has a viewer of its own, and all share the format fields of the     *)
(* information bar (myInfoBar.cpp).  The window keeps the list of viewers, *)
(* the current one and the one "add" was last called in; the tab bar keeps *)
(* the order of the tabs and the current tab, and tells the window of      *)
(* changes by signals that arrive in the middle of the window's handlers.  *)
(*                                                                         *)
(* A handler is one step; what it calls, signals included, are operators   *)
(* from a scene to a scene.  Positions count from 1, and 0 is the -1 of    *)
(* the code.  The picture of a viewer, its light, turns and zoom are the   *)
(* business of Viewer.                                                     *)
(***************************************************************************)
EXTENDS Naturals, SequencesExt

CONSTANTS Viewers,   \* addresses a QImageViewer may have
          Files, Pictures,   \* the files, and those with a picture's suffix
          Class,     \* [Files -> ...], a file's size and suffix
          Types, Sizes,      \* of the formats; 1 is the least a field can hold
          None

ASSUME WindowAssumption ==
  /\ Pictures \subseteq Files /\ None \notin Files /\ None \notin Types
  /\ 1 \in Sizes /\ Sizes \subseteq Nat \ {0}

VARIABLES list,        \* m_imageviewer_list
          viewer,      \* of each address, the viewer there: its name, its rawinfo and
                       \* whether it has a list of the files beside one it opened
          imageviewer, \* m_imageviewer
          tmpviewer,   \* m_tmpviewer, which may name a viewer that was deleted
          tabs,        \* the texts of the tabs
          current,     \* currentIndex()
          bar,         \* what the fields show
          filename,    \* m_filename of the bar: the file whose format was last guessed
          locked       \* m_flock

vars == <<list, viewer, imageviewer, tmpviewer, tabs, current, bar, filename, locked>>

Shown == [type : Types, size : Sizes]
Blank == [type |-> None, size |-> 0]     \* IMAGEINFO as it is constructed
Infos == Shown \cup {Blank}
NewViewer == [name |-> None, info |-> Blank, listed |-> FALSE]

Init ==
  /\ \E v \in Viewers : list = <<v>> /\ imageviewer = v
  /\ viewer = [v \in Viewers |-> NewViewer]
  /\ tmpviewer = None
  /\ tabs = <<>> /\ current = 0
  /\ bar \in Shown
  /\ filename = None /\ locked = FALSE

-----------------------------------------------------------------------------
(* What the handlers call.                                                 *)

Scene ==
  [list |-> list, viewer |-> viewer, imageviewer |-> imageviewer, tmpviewer |-> tmpviewer,
   tabs |-> tabs, current |-> current, bar |-> bar, filename |-> filename]

Become(s) ==
  /\ list' = s.list /\ viewer' = s.viewer
  /\ imageviewer' = s.imageviewer /\ tmpviewer' = s.tmpviewer
  /\ tabs' = s.tabs /\ current' = s.current
  /\ bar' = s.bar /\ filename' = s.filename
  /\ UNCHANGED locked

\* setInfo: a field takes its least value for 0, and an empty type is not set.
Fields(fields, info) ==
  [type |-> IF info.type = None THEN fields.type ELSE info.type,
   size |-> IF info.size = 0 THEN 1 ELSE info.size]

SetInfo(s) == [s EXCEPT !.bar = Fields(@, s.viewer[s.imageviewer].info)]

\* setTabText(currentIndex(), ...), which does nothing without a tab.
Titled(s, text) == IF s.current = 0 THEN s ELSE [s EXCEPT !.tabs[s.current] = text]

\* loadImageResource(false)
Show(s) == Titled(s, s.viewer[s.imageviewer].name)

\* tabChoseAction
\* Mutant: the fields are left as they are.
ChosenQuiet(s, i) == Show([s EXCEPT !.imageviewer = s.list[i]])
Chosen(s, i) == SetInfo(Show([s EXCEPT !.imageviewer = s.list[i]]))

\* The tab bar makes a tab the current one, and says so unless it is.
SetCurrent(s, i) == IF s.current = i THEN s ELSE Chosen([s EXCEPT !.current = i], i)

\* addTab: the first one becomes the current one.
AddTab(s) ==
  LET added == [s EXCEPT !.tabs = Append(@, "default")]
  IN  IF s.tabs = <<>> THEN SetCurrent(added, 1) ELSE added

\* removeTab: the tab to the right of the current one takes its place, if there is
\* one; the window still has the viewer of the removed tab in its list.
RemoveTab(s, i) ==
  LET removed == [s EXCEPT !.tabs = RemoveAt(@, i)]
      n == Len(removed.tabs)
  IN  CASE i = s.current -> SetCurrent([removed EXCEPT !.current = 0], IF i > n THEN n ELSE i)
        [] i < s.current -> SetCurrent(removed, s.current - 1)
        [] i > s.current -> removed

\* settingTriggered(value()): what the fields show becomes the viewer's format
\* whether or not the picture can be loaded.
Triggered(s, good) ==
  LET set == [s EXCEPT !.viewer[s.imageviewer].info = s.bar]
  IN  IF good THEN Show(set) ELSE set

Loads(s, good) == good => s.viewer[s.imageviewer].name # None

\* isSameFormat() and the comparison of the formats.  The viewer "add" was called
\* in may have been deleted: what is found there may be anything.
AsInTmp(s) ==
  LET v == s.viewer[s.imageviewer]
      t == s.viewer[s.tmpviewer]
  IN  IF s.tmpviewer \in Range(s.list)
      THEN {/\ v.name # None /\ t.name # None /\ Class[v.name] = Class[t.name]
            /\ v.info = t.info}
      ELSE BOOLEAN

\* parse(): a guess, by name or with HF by content, that may be none at all.
Parsed(s, guess) ==
  LET name == s.viewer[s.imageviewer].name
      asked == [s EXCEPT !.filename = name]
  IN  IF locked THEN s
      ELSE IF name \in Pictures THEN asked ELSE [asked EXCEPT !.bar = guess]

\* loadImageResource(true)
Reloaded(s) ==
  \E same \in IF Len(s.list) > 1 THEN AsInTmp(s) ELSE {FALSE} :
  \E asked \in IF same THEN {s} ELSE {Parsed(s, guess) : guess \in Shown \cup {s.bar}} :
  \E good \in BOOLEAN :
    /\ Loads(s, good)
    /\ Become(Show(Triggered(asked, good)))

-----------------------------------------------------------------------------
(* Tabs.                                                                   *)

\* addToAction.  Until the last tab becomes the current one the signals may make
\* the first viewer the current one again.
AddTo ==
  \E new \in Viewers \ Range(list) :
    LET made == [Scene EXCEPT !.tmpviewer = imageviewer, !.imageviewer = new,
                              !.list = Append(@, new), !.viewer[new] = NewViewer]
        first == IF tabs = <<>> THEN AddTab(made) ELSE made
        second == AddTab(first)
        name == viewer[list[1]].name
        titled == IF name = None THEN second ELSE [second EXCEPT !.tabs[1] = name]
        chosen == SetCurrent(titled, Len(titled.tabs))
    IN  Become(SetInfo([chosen EXCEPT
                          !.viewer[chosen.imageviewer].info = chosen.viewer[chosen.tmpviewer].info]))

\* Mutant: the window relies on the signal of the tab bar.
CloseBySignal(i) ==
  /\ Len(tabs) > 1 /\ i \in DOMAIN tabs
  /\ Become([RemoveTab(Scene, i) EXCEPT !.list = RemoveAt(@, i), !.viewer[list[i]] = NewViewer])

\* tabCloseAction; a bar with one tab is hidden.
CloseTab(i) ==
  /\ Len(tabs) > 1 /\ i \in DOMAIN tabs
  /\ LET removed == [RemoveTab(Scene, i) EXCEPT !.list = RemoveAt(@, i),
                                                !.viewer[list[i]] = NewViewer]
     IN  Become(Chosen(removed, IF current <= i /\ current < Len(tabs) THEN current
                                ELSE current - 1))

ChooseTab(i) == i \in DOMAIN tabs /\ i # current /\ Become(SetCurrent(Scene, i))

Moved(seq, from, to) == InsertAt(RemoveAt(seq, from), to, seq[from])

\* Mutant: the list of viewers stays.
MoveTabOnly(to) ==
  /\ to \in DOMAIN tabs /\ to # current
  /\ Become(SetCurrent(Chosen([Scene EXCEPT !.tabs = Moved(@, current, to)], to), to))

\* tabMoveAction: a drag makes its tab the current one first.
MoveTab(to) ==
  /\ to \in DOMAIN tabs /\ to # current
  /\ LET moved == [Scene EXCEPT !.tabs = Moved(@, current, to), !.current = to]
     IN  Become(Chosen(Chosen([moved EXCEPT !.list = Moved(@, current, to)], to), to))

-----------------------------------------------------------------------------
(* Files and formats.                                                      *)

Named(name, listed) ==
  [Scene EXCEPT !.viewer[imageviewer].name = name, !.viewer[imageviewer].listed = listed]

HasList == viewer[imageviewer].listed

\* fileTreeTriggered, by the tree, a drop or the dialogue
Open(f) == Reloaded(Named(f, TRUE))

\* The dialogue was cancelled: the name is cleared, the list is kept.
OpenNothing == Become(Named(None, HasList))

\* last or next, when the tree does not follow
NameOnly(f) == HasList /\ Become(Named(f, TRUE))

Submit == \E good \in BOOLEAN : Loads(Scene, good) /\ Become(Triggered(Scene, good))

\* setHF: a type read from a file, or none.
HardFormat == \E type \in Types : Reloaded([Scene EXCEPT !.bar.type = type])

Reset == Reloaded(Scene)

\* closeActionTriggered
Close == Become(Titled(Named(None, FALSE), None))

\* The handlers that turn, flip, light or zoom the picture, and a resize
Repaint == Become(Show(Scene))

\* The fields, and exchangeHW
Edit(fields) == Become([Scene EXCEPT !.bar = fields])

Updateflock ==
  /\ locked' = ~locked
  /\ UNCHANGED <<list, viewer, imageviewer, tmpviewer, tabs, current, bar, filename>>

Next ==
  \/ AddTo
  \/ \E i \in DOMAIN tabs : CloseTab(i) \/ ChooseTab(i) \/ MoveTab(i)
  \/ \E f \in Files : Open(f) \/ NameOnly(f)
  \/ OpenNothing \/ Submit \/ HardFormat \/ Reset \/ Close \/ Repaint
  \/ \E fields \in Shown : Edit(fields)
  \/ Updateflock

Spec == Init /\ [][Next]_vars

-----------------------------------------------------------------------------
\* Window and tab bar agree after every handler: as many tabs as viewers, or no
\* tab yet, and the current viewer is that of the current tab.  The signals of
\* removeTab() arrive while the closed viewer is still in the list, and choose the
\* wrong one (mainwindow.cpp:151-181).
CurrentIsShown ==
  /\ IsInjective(list)
  /\ IF tabs = <<>> THEN list = <<imageviewer>>
     ELSE /\ Len(tabs) = Len(list)
          /\ current \in DOMAIN list /\ imageviewer = list[current]

Place(v) == CHOOSE i \in DOMAIN list : list[i] = v
TextOf(v) == tabs[Place(v)]

\* The text of a tab only ever changes to the name of its own viewer, which stays
\* as it is unless it is the current one; in passing a signal may write the name
\* of another (mainwindow.cpp:99, 151-181).
TabsKeepTheirName ==
  [][\A v \in Range(list) \cap Range(list') :
       /\ v # imageviewer => viewer'[v] = viewer[v]
       /\ tabs' # <<>> =>
            TextOf(v)' = viewer'[v].name \/ (tabs # <<>> /\ TextOf(v)' = TextOf(v))]_vars

ShowsFormat == bar = Fields(bar, viewer[imageviewer].info)

\* The fields are one for all tabs: whenever they, the current viewer or its
\* format change, other than by an edit, they show the format of the current
\* viewer; a new viewer starts with the format of the one it was added from
\* (mainwindow.cpp:123-181, 653-655).
FieldsFollowTab ==
  [][/\ \/ ShowsFormat'
        \/ UNCHANGED <<bar, imageviewer>> /\ viewer'[imageviewer].info = viewer[imageviewer].info
        \/ \E fields \in Shown : Edit(fields)
     /\ \A v \in Range(list') \ Range(list) : viewer'[v].info = viewer[imageviewer].info]_vars

\* While the lock is open the format of a file is guessed when it is opened, as its
\* tool tip says (myInfoBar.cpp:248), unless another tab has one like it.
OpenedIsGuessed ==
  [][\A f \in Files :
       Open(f) /\ ~locked
         /\ (\A v \in Range(list) \ {imageviewer} :
               viewer[v].name # None => Class[viewer[v].name] # Class[f])
       => filename' = f]_vars
=============================================================================
