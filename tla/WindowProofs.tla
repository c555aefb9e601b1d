---------------------------- MODULE WindowProofs ----------------------------
(***************************************************************************)
(* Theorems about Window, for any number of viewers, tabs and files.       *)
(*                                                                         *)
(* A handler is a composition of a few calls, and a signal of the tab bar  *)
(* in the middle of one may choose a viewer the handler did not mean.  So  *)
(* what is kept is said of the scene a handler ends with: Agree is the     *)
(* invariant, KeepsTexts and KeepsFields compare that scene with the one   *)
(* the handler began with.  All three follow from what each call writes    *)
(* (ChoseAt, OneTab) and from where a viewer goes when the list loses one, *)
(* gains one or has one moved.                                             *)
(***************************************************************************)
EXTENDS Window, SequenceTheorems, TLAPS

Names == Files \cup {None}
Texts == Names \cup {"default"}
Tab == [name : Names, info : Infos, listed : BOOLEAN]

WindowType ==
  [list : Seq(Viewers), viewer : [Viewers -> Tab],
   imageviewer : Viewers, tmpviewer : Viewers \cup {None},
   tabs : Seq(Texts), current : Nat, bar : Shown, filename : Names]

\* Window and tab bar agree.
Agree(s) ==
  /\ s \in WindowType /\ IsInjective(s.list)
  /\ IF s.tabs = <<>> THEN s.list = <<s.imageviewer>> /\ s.current = 0
     ELSE /\ Len(s.tabs) = Len(s.list)
          /\ s.current \in DOMAIN s.list /\ s.imageviewer = s.list[s.current]

\* The inductive invariant.
Inv == Agree(Scene)

\* From s to t no text changes but to the name of its own viewer.
KeepsTexts(s, t) ==
  \A j \in DOMAIN s.list, k \in DOMAIN t.list :
    s.list[j] = t.list[k] =>
      /\ s.list[j] # s.imageviewer => t.viewer[s.list[j]] = s.viewer[s.list[j]]
      /\ t.tabs # <<>> =>
           \/ t.tabs[k] = t.viewer[t.list[k]].name
           \/ s.tabs # <<>> /\ t.tabs[k] = s.tabs[j]

\* The fields follow the current viewer, and a new viewer has its format.
KeepsFields(s, t) ==
  /\ \/ t.bar = Fields(t.bar, t.viewer[t.imageviewer].info)
     \/ /\ t.bar = s.bar /\ t.imageviewer = s.imageviewer
        /\ t.viewer[s.imageviewer].info = s.viewer[s.imageviewer].info
  /\ \A k \in DOMAIN t.list :
       \/ \E j \in DOMAIN s.list : s.list[j] = t.list[k]
       \/ t.viewer[t.list[k]].info = s.viewer[s.imageviewer].info

Follows(s, t) == Agree(t) /\ KeepsTexts(s, t) /\ KeepsFields(s, t)

\* What the calls leave alone.
Alike(s, t) ==
  t.list = s.list /\ t.viewer = s.viewer /\ t.tmpviewer = s.tmpviewer /\ t.filename = s.filename

\* The text of tab i is all that differs.
WroteAt(s, t, i, text) ==
  /\ Len(t.tabs) = Len(s.tabs)
  /\ \A j \in 1 .. Len(s.tabs) : t.tabs[j] = IF j = i THEN text ELSE s.tabs[j]

\* The viewer of place i is chosen while tab n is the current one.
ChoseAt(s, t, i, n) ==
  /\ t \in WindowType /\ Alike(s, t)
  /\ t.current = n /\ t.imageviewer = s.list[i]
  /\ t.bar = Fields(s.bar, s.viewer[s.list[i]].info)
  /\ WroteAt(s, t, n, s.viewer[s.list[i]].name)

-----------------------------------------------------------------------------
(* What the calls write.                                                   *)

\* What the fields show of a format they show again.
LEMMA FieldsAreShown ==
  ASSUME NEW b \in Shown, NEW info \in Infos
  PROVE  /\ Fields(b, info) \in Shown
         /\ Fields(Fields(b, info), info) = Fields(b, info)
         /\ info \in Shown => Fields(b, info) = info
<1>. DEFINE w == Fields(b, info)
<1>1. CASE info \in Shown
  <2>1. info.type \in Types /\ info.size \in Sizes /\ info.type # None /\ info.size # 0
    BY <1>1, WindowAssumption DEF Shown
  <2>2. info = [type |-> info.type, size |-> info.size]
    BY <1>1 DEF Shown
  <2>. QED  BY <1>1, <2>1, <2>2 DEF Fields
<1>2. CASE info = Blank /\ info \notin Shown
  <2>1. w = [type |-> b.type, size |-> 1]
    BY <1>2 DEF Fields, Blank
  <2>. HIDE DEF w
  <2>2. Fields(w, info) = [type |-> w.type, size |-> 1]
    BY <1>2 DEF Fields, Blank
  <2>3. w \in Shown /\ Fields(w, info) = w
    BY <2>1, <2>2, WindowAssumption DEF Shown
  <2>. QED  BY <1>2, <2>3 DEF w
<1>. QED  BY <1>1, <1>2 DEF Infos

LEMMA TitledWrites ==
  ASSUME NEW s \in WindowType, NEW text \in Texts, s.current \in 0 .. Len(s.tabs)
  PROVE  LET t == Titled(s, text)
         IN  /\ t \in WindowType /\ Alike(s, t)
             /\ t.current = s.current /\ t.imageviewer = s.imageviewer /\ t.bar = s.bar
             /\ WroteAt(s, t, s.current, text)
<1>1. CASE s.current = 0
  BY <1>1 DEF Titled, Alike, WroteAt, WindowType
<1>2. CASE s.current # 0
  <2>. DEFINE t == Titled(s, text)
  <2>1. t = [s EXCEPT !.tabs = [s.tabs EXCEPT ![s.current] = text]]
    BY <1>2 DEF Titled
  <2>2. s.tabs \in Seq(Texts) /\ s.current \in 1 .. Len(s.tabs)
    BY <1>2 DEF WindowType
  <2>3. PICK u : u = [s.tabs EXCEPT ![s.current] = text]
    OBVIOUS
  <2>4. /\ u \in Seq(Texts) /\ Len(u) = Len(s.tabs)
        /\ \A j \in 1 .. Len(s.tabs) : u[j] = IF j = s.current THEN text ELSE s.tabs[j]
    BY <2>2, <2>3, ExceptSeq
  <2>5. t = [s EXCEPT !.tabs = u]
    BY <2>1, <2>3
  <2>. HIDE DEF t
  <2>. QED  BY <2>4, <2>5 DEF t, Alike, WroteAt, WindowType
<1>. QED  BY <1>1, <1>2

LEMMA ShowWrites ==
  ASSUME NEW s \in WindowType, s.current \in 0 .. Len(s.tabs)
  PROVE  LET t == Show(s)
         IN  /\ t \in WindowType /\ Alike(s, t)
             /\ t.current = s.current /\ t.imageviewer = s.imageviewer /\ t.bar = s.bar
             /\ WroteAt(s, t, s.current, s.viewer[s.imageviewer].name)
<1>1. s.viewer[s.imageviewer].name \in Texts
  BY DEF WindowType, Tab, Texts
<1>. QED  BY <1>1, TitledWrites DEF Show

LEMMA ChosenChooses ==
  ASSUME NEW s \in WindowType, s.current \in 0 .. Len(s.tabs),
         NEW i \in 1 .. Len(s.list)
  PROVE  ChoseAt(s, Chosen(s, i), i, s.current)
<1>. DEFINE u == [s EXCEPT !.imageviewer = s.list[i]]
            v == Show(u)
<1>1. s.list[i] \in Viewers
  BY ElementOfSeq DEF WindowType
<1>2. /\ u \in WindowType /\ Alike(s, u) /\ u.current = s.current /\ u.tabs = s.tabs
      /\ u.imageviewer = s.list[i] /\ u.bar = s.bar
  BY <1>1 DEF WindowType, Alike
<1>3. Chosen(s, i) = [v EXCEPT !.bar = Fields(v.bar, v.viewer[v.imageviewer].info)]
  BY DEF Chosen, SetInfo
<1>. HIDE DEF u
<1>4. /\ v \in WindowType /\ Alike(u, v)
      /\ v.current = s.current /\ v.imageviewer = s.list[i] /\ v.bar = s.bar
      /\ WroteAt(u, v, s.current, u.viewer[s.list[i]].name)
  BY <1>2, ShowWrites
<1>. HIDE DEF v
<1>5. v.viewer = s.viewer /\ u.viewer = s.viewer
  BY <1>2, <1>4 DEF Alike
<1>6. Fields(v.bar, v.viewer[v.imageviewer].info) \in Shown
  <2>1. v.bar \in Shown /\ v.viewer[v.imageviewer].info \in Infos
    BY <1>4 DEF WindowType, Tab
  <2>. QED  BY <2>1, FieldsAreShown
<1>7. PICK b : b = Fields(v.bar, v.viewer[v.imageviewer].info)
  OBVIOUS
<1>8. PICK t : t = [v EXCEPT !.bar = b]
  OBVIOUS
<1>9. t \in WindowType /\ Alike(v, t) /\ t.current = v.current /\ t.tabs = v.tabs
      /\ t.imageviewer = v.imageviewer /\ t.bar = b
  BY <1>4, <1>6, <1>7, <1>8 DEF WindowType, Alike
<1>10. ChoseAt(s, t, i, s.current)
  BY <1>2, <1>4, <1>5, <1>7, <1>9 DEF ChoseAt, Alike, WroteAt
<1>. QED  BY <1>3, <1>7, <1>8, <1>10

LEMMA SetCurrentChooses ==
  ASSUME NEW s \in WindowType,
         NEW i \in 1 .. Len(s.list), i \in 1 .. Len(s.tabs), i # s.current
  PROVE  ChoseAt(s, SetCurrent(s, i), i, i)
<1>. DEFINE u == [s EXCEPT !.current = i]
<1>1. SetCurrent(s, i) = Chosen(u, i)
  BY DEF SetCurrent
<1>2. i \in Nat
  BY DEF WindowType
<1>3. /\ u \in WindowType /\ Alike(s, u) /\ u.current = i /\ u.tabs = s.tabs /\ u.bar = s.bar
  BY <1>2 DEF WindowType, Alike
<1>. HIDE DEF u
<1>4. u.list = s.list
  BY <1>3 DEF Alike
<1>5. u.current \in 0 .. Len(u.tabs)
  BY <1>2, <1>3
<1>6. ChoseAt(u, Chosen(u, i), i, i)
  BY <1>3, <1>4, <1>5, ChosenChooses
<1>. QED  BY <1>1, <1>3, <1>6 DEF ChoseAt, Alike, WroteAt

\* A handler that leaves the list as it is.
LEMMA SameListAgrees ==
  ASSUME NEW s, Agree(s), NEW t \in WindowType,
         t.list = s.list, Len(t.tabs) = Len(s.tabs),
         IF s.tabs = <<>> THEN t.imageviewer = s.imageviewer /\ t.current = s.current
         ELSE t.current \in DOMAIN s.list /\ t.imageviewer = s.list[t.current],
         \A v \in Viewers : v # s.imageviewer => t.viewer[v] = s.viewer[v],
         \A j \in 1 .. Len(s.tabs) :
           t.tabs[j] = s.tabs[j] \/ t.tabs[j] = t.viewer[s.list[j]].name
  PROVE  Agree(t) /\ KeepsTexts(s, t)
<1>1. s \in WindowType
  BY DEF Agree
<1>2. s.tabs \in Seq(Texts) /\ t.tabs \in Seq(Texts) /\ s.list \in Seq(Viewers)
  BY <1>1 DEF WindowType
<1>3. t.tabs = <<>> <=> s.tabs = <<>>
  BY <1>2, EmptySeq
<1>4. Agree(t)
  BY <1>3 DEF Agree
<1>5. ASSUME NEW j \in DOMAIN s.list, NEW k \in DOMAIN t.list, s.list[j] = t.list[k]
      PROVE  /\ s.list[j] # s.imageviewer => t.viewer[s.list[j]] = s.viewer[s.list[j]]
             /\ t.tabs # <<>> =>
                  \/ t.tabs[k] = t.viewer[t.list[k]].name
                  \/ s.tabs # <<>> /\ t.tabs[k] = s.tabs[j]
  <2>1. j = k
    BY <1>5 DEF Agree, IsInjective
  <2>2. j \in 1 .. Len(s.list) /\ s.list[j] \in Viewers
    BY <1>2, LenProperties, ElementOfSeq
  <2>3. t.tabs # <<>> => j \in 1 .. Len(s.tabs)
    BY <1>3, <2>2 DEF Agree
  <2>. QED  BY <1>3, <1>5, <2>1, <2>2, <2>3
<1>. QED  BY <1>4, <1>5 DEF KeepsTexts

-----------------------------------------------------------------------------
(* What a scene keeps of another.                                          *)

LEMMA CurrentInRange ==
  ASSUME NEW s, Agree(s)
  PROVE  /\ s \in WindowType /\ s.current \in 0 .. Len(s.tabs)
         /\ s.tabs # <<>> => s.current \in 1 .. Len(s.list)
         /\ s.list # <<>>
<1>1. s.tabs \in Seq(Texts) /\ s.list \in Seq(Viewers)
  BY DEF Agree, WindowType
<1>2. DOMAIN s.list = 1 .. Len(s.list) /\ Len(s.list) \in Nat /\ Len(s.tabs) \in Nat
  BY <1>1, LenProperties
<1>3. ASSUME s.tabs = <<>>  PROVE Len(s.list) = 1
  <2>1. s.list = <<s.imageviewer>>
    BY <1>3 DEF Agree
  <2>. QED  BY <2>1
<1>4. s.tabs # <<>> => s.current \in 1 .. Len(s.list) /\ Len(s.tabs) = Len(s.list)
  BY <1>2 DEF Agree
<1>5. s.tabs = <<>> => s.current = 0
  BY DEF Agree
<1>6. Len(s.list) # 0
  BY <1>2, <1>3, <1>4
<1>7. s.list # <<>>
  BY <1>1, <1>6, EmptySeq
<1>8. s.current \in 0 .. Len(s.tabs)
  BY <1>2, <1>4, <1>5
<1>. QED  BY <1>4, <1>7, <1>8 DEF Agree

LEMMA BecomeIsScene ==
  ASSUME NEW t \in WindowType, Become(t)
  PROVE  Scene' = t
<1>1. t = [list |-> t.list, viewer |-> t.viewer, imageviewer |-> t.imageviewer,
           tmpviewer |-> t.tmpviewer, tabs |-> t.tabs, current |-> t.current,
           bar |-> t.bar, filename |-> t.filename]
  BY DEF WindowType
<1>. QED  BY <1>1 DEF Become, Scene

\* A tab is chosen.
LEMMA ChoosingFollows ==
  ASSUME NEW s, Agree(s), s.tabs # <<>>,
         NEW i \in 1 .. Len(s.list), NEW t, ChoseAt(s, t, i, i)
  PROVE  Follows(s, t)
<1>1. /\ t \in WindowType /\ s \in WindowType /\ t.list = s.list /\ t.viewer = s.viewer
      /\ t.current = i /\ t.imageviewer = s.list[i]
      /\ t.bar = Fields(s.bar, s.viewer[s.list[i]].info)
      /\ WroteAt(s, t, i, s.viewer[s.list[i]].name)
  BY DEF ChoseAt, Alike, Agree
<1>2. s.list \in Seq(Viewers) /\ DOMAIN s.list = 1 .. Len(s.list) /\ s.list[i] \in Viewers
  BY <1>1, LenProperties, ElementOfSeq DEF WindowType
<1>3. Agree(t) /\ KeepsTexts(s, t)
  <2>. Len(t.tabs) = Len(s.tabs)
    BY <1>1 DEF WroteAt
  <2>. \A j \in 1 .. Len(s.tabs) :
           t.tabs[j] = s.tabs[j] \/ t.tabs[j] = t.viewer[s.list[j]].name
    BY <1>1 DEF WroteAt
  <2>. QED  BY <1>1, <1>2, SameListAgrees
<1>4. s.bar \in Shown /\ s.viewer[s.list[i]].info \in Infos
  BY <1>1, <1>2 DEF WindowType, Tab
<1>5. KeepsFields(s, t)
  BY <1>1, <1>4, FieldsAreShown DEF KeepsFields
<1>. QED  BY <1>3, <1>5 DEF Follows

-----------------------------------------------------------------------------
\* s has become t by what one handler did to the current viewer and its tab.
OneTab(s, t) ==
  /\ t \in WindowType
  /\ t.list = s.list /\ t.imageviewer = s.imageviewer /\ t.current = s.current
  /\ \A v \in Viewers : v # s.imageviewer => t.viewer[v] = s.viewer[v]
  /\ Len(t.tabs) = Len(s.tabs)
  /\ \A j \in 1 .. Len(s.tabs) :
       \/ t.tabs[j] = s.tabs[j]
       \/ j = s.current /\ t.tabs[j] = t.viewer[s.imageviewer].name

LEMMA OneTabFollows ==
  ASSUME NEW s, Agree(s), NEW t, OneTab(s, t),
         \/ t.bar = t.viewer[s.imageviewer].info
         \/ /\ t.bar = s.bar
            /\ t.viewer[s.imageviewer].info = s.viewer[s.imageviewer].info
  PROVE  Follows(s, t)
<1>1. s \in WindowType /\ t \in WindowType
  BY DEF Agree, OneTab
<1>2. Agree(t) /\ KeepsTexts(s, t)
  <2>1. IF s.tabs = <<>> THEN t.imageviewer = s.imageviewer /\ t.current = s.current
        ELSE t.current \in DOMAIN s.list /\ t.imageviewer = s.list[t.current]
    BY DEF OneTab, Agree
  <2>2. \A j \in 1 .. Len(s.tabs) :
           t.tabs[j] = s.tabs[j] \/ t.tabs[j] = t.viewer[s.list[j]].name
    <3>. TAKE j \in 1 .. Len(s.tabs)
    <3>1. s.tabs # <<>>
      BY EmptySeq DEF WindowType
    <3>. QED  BY <3>1 DEF OneTab, Agree
  <2>. QED  BY <1>1, <2>1, <2>2, SameListAgrees DEF OneTab
<1>3. KeepsFields(s, t)
  <2>1. t.bar \in Shown /\ Shown \subseteq Infos
    BY <1>1 DEF WindowType, Infos
  <2>2. Fields(t.bar, t.bar) = t.bar
    BY <2>1, FieldsAreShown
  <2>. QED  BY <2>2 DEF KeepsFields, OneTab
<1>. QED  BY <1>2, <1>3 DEF Follows

LEMMA NamingIsOneTab ==
  ASSUME NEW s, Agree(s), NEW name \in Names, NEW listed \in BOOLEAN
  PROVE  LET t == [s EXCEPT !.viewer[s.imageviewer].name = name,
                            !.viewer[s.imageviewer].listed = listed]
         IN  /\ OneTab(s, t) /\ t.bar = s.bar /\ t.viewer[s.imageviewer].name = name
             /\ t.viewer[s.imageviewer].info = s.viewer[s.imageviewer].info
<1>. DEFINE i == s.imageviewer
            w == [s.viewer EXCEPT ![i].name = name, ![i].listed = listed]
            t == [s EXCEPT !.viewer = w]
<1>1. s \in WindowType /\ i \in Viewers /\ s.viewer \in [Viewers -> Tab]
  BY DEF Agree, WindowType
<1>2. /\ w \in [Viewers -> Tab] /\ w[i].name = name /\ w[i].info = s.viewer[i].info
      /\ \A v \in Viewers : v # i => w[v] = s.viewer[v]
  BY <1>1 DEF Tab
<1>. HIDE DEF w
<1>3. /\ t \in WindowType /\ t.viewer = w /\ t.list = s.list /\ t.imageviewer = i
      /\ t.current = s.current /\ t.tabs = s.tabs /\ t.bar = s.bar
  BY <1>1, <1>2 DEF WindowType
<1>4. t = [s EXCEPT !.viewer[s.imageviewer].name = name,
                    !.viewer[s.imageviewer].listed = listed]
  BY DEF w
<1>. HIDE DEF t
<1>5. OneTab(s, t)
  BY <1>2, <1>3 DEF OneTab
<1>. QED  BY <1>2, <1>3, <1>4, <1>5

LEMMA InformingIsOneTab ==
  ASSUME NEW s, Agree(s), NEW u, OneTab(s, u)
  PROVE  LET t == [u EXCEPT !.viewer[u.imageviewer].info = u.bar]
         IN  OneTab(s, t) /\ t.bar = u.bar /\ t.viewer[s.imageviewer].info = t.bar
<1>. DEFINE i == u.imageviewer
            w == [u.viewer EXCEPT ![i].info = u.bar]
            t == [u EXCEPT !.viewer = w]
<1>1. u \in WindowType /\ i = s.imageviewer /\ i \in Viewers /\ u.viewer \in [Viewers -> Tab]
      /\ u.bar \in Infos
  BY DEF OneTab, WindowType, Infos
<1>2. /\ w \in [Viewers -> Tab] /\ w[i].info = u.bar /\ w[i].name = u.viewer[i].name
      /\ \A v \in Viewers : v # i => w[v] = u.viewer[v]
  BY <1>1 DEF Tab
<1>. HIDE DEF w
<1>3. /\ t \in WindowType /\ t.viewer = w /\ t.list = u.list /\ t.imageviewer = i
      /\ t.current = u.current /\ t.tabs = u.tabs /\ t.bar = u.bar
  BY <1>1, <1>2 DEF WindowType
<1>4. t = [u EXCEPT !.viewer[u.imageviewer].info = u.bar]
  BY DEF w
<1>. HIDE DEF t
<1>5. OneTab(s, t)
  BY <1>1, <1>2, <1>3 DEF OneTab
<1>. QED  BY <1>1, <1>2, <1>3, <1>4, <1>5

LEMMA FieldsAreOneTab ==
  ASSUME NEW s, NEW u, OneTab(s, u), NEW b \in Shown
  PROVE  OneTab(s, [u EXCEPT !.bar = b])
<1>. DEFINE t == [u EXCEPT !.bar = b]
<1>1. /\ t \in WindowType /\ t.viewer = u.viewer /\ t.list = u.list
      /\ t.imageviewer = u.imageviewer /\ t.current = u.current /\ t.tabs = u.tabs
  BY DEF OneTab, WindowType
<1>. HIDE DEF t
<1>2. OneTab(s, t)
  BY <1>1 DEF OneTab
<1>. QED  BY <1>2 DEF t

LEMMA TitledIsOneTab ==
  ASSUME NEW s, Agree(s), NEW u, OneTab(s, u)
  PROVE  LET t == Titled(u, u.viewer[u.imageviewer].name)
         IN  OneTab(s, t) /\ t.viewer = u.viewer /\ t.bar = u.bar
<1>. DEFINE name == u.viewer[u.imageviewer].name
            t == Titled(u, name)
<1>1. u \in WindowType /\ u.current \in 0 .. Len(u.tabs) /\ name \in Texts
  BY CurrentInRange DEF OneTab, WindowType, Tab, Texts
<1>2. /\ t \in WindowType /\ Alike(u, t)
      /\ t.current = u.current /\ t.imageviewer = u.imageviewer /\ t.bar = u.bar
      /\ WroteAt(u, t, u.current, name)
  BY <1>1, TitledWrites
<1>. HIDE DEF t
<1>3. OneTab(s, t) /\ t.viewer = u.viewer /\ t.bar = u.bar
  BY <1>2 DEF OneTab, Alike, WroteAt
<1>. QED  BY <1>3 DEF t

LEMMA ShowIsOneTab ==
  ASSUME NEW s, Agree(s), NEW u, OneTab(s, u)
  PROVE  OneTab(s, Show(u)) /\ Show(u).viewer = u.viewer /\ Show(u).bar = u.bar
BY TitledIsOneTab DEF Show

\* settingTriggered() makes the viewer's format what the fields show.
LEMMA TriggeredIsOneTab ==
  ASSUME NEW s, Agree(s), NEW u, OneTab(s, u), NEW good \in BOOLEAN
  PROVE  LET t == Triggered(u, good)
         IN  OneTab(s, t) /\ t.viewer[s.imageviewer].info = t.bar
<1>. DEFINE w == [u EXCEPT !.viewer[u.imageviewer].info = u.bar]
<1>1. OneTab(s, w) /\ w.viewer[s.imageviewer].info = w.bar
  BY InformingIsOneTab
<1>2. Triggered(u, good) = IF good THEN Show(w) ELSE w
  BY DEF Triggered
<1>. HIDE DEF w
<1>. QED  BY <1>1, <1>2, ShowIsOneTab

LEMMA ParsedIsOneTab ==
  ASSUME NEW s, NEW u, OneTab(s, u), NEW guess \in Shown
  PROVE  OneTab(s, Parsed(u, guess))
<1>. DEFINE name == u.viewer[u.imageviewer].name
            asked == [u EXCEPT !.filename = name]
<1>1. name \in Names
  BY DEF OneTab, WindowType, Tab
<1>2. /\ asked \in WindowType /\ asked.viewer = u.viewer /\ asked.list = u.list
      /\ asked.imageviewer = u.imageviewer /\ asked.current = u.current /\ asked.tabs = u.tabs
  BY <1>1 DEF OneTab, WindowType
<1>3. Parsed(u, guess) =
        IF locked THEN u
        ELSE IF name \in Pictures THEN asked ELSE [asked EXCEPT !.bar = guess]
  BY DEF Parsed
<1>. HIDE DEF asked, name
<1>4. OneTab(s, asked)
  BY <1>2 DEF OneTab
<1>. QED  BY <1>3, <1>4, FieldsAreOneTab

\* loadImageResource(true), in whatever is done to the current viewer before.
LEMMA ReloadedFollows ==
  ASSUME Inv, NEW u, OneTab(Scene, u), Reloaded(u)
  PROVE  Follows(Scene, Scene')
<1>. DEFINE s == Scene
<1>1. PICK good \in BOOLEAN, guess \in Shown \cup {u.bar}, same \in BOOLEAN :
        Become(Show(Triggered(IF same THEN u ELSE Parsed(u, guess), good)))
  <2>1. PICK same \in BOOLEAN :
          \E asked \in IF same THEN {u} ELSE {Parsed(u, guess) : guess \in Shown \cup {u.bar}},
             good \in BOOLEAN : Become(Show(Triggered(asked, good)))
    BY DEF Reloaded, AsInTmp
  <2>2. PICK v \in IF same THEN {u} ELSE {Parsed(u, guess) : guess \in Shown \cup {u.bar}},
             good \in BOOLEAN : Become(Show(Triggered(v, good)))
    BY <2>1
  <2>3. \E guess \in Shown \cup {u.bar} : v = IF same THEN u ELSE Parsed(u, guess)
    BY <2>2
  <2>. QED  BY <2>2, <2>3
<1>. DEFINE v == IF same THEN u ELSE Parsed(u, guess)
            t == Triggered(v, good)
<1>. HIDE DEF s
<1>2. Agree(s)
  BY DEF Inv, s
<1>3. guess \in Shown
  BY DEF OneTab, WindowType
<1>4. OneTab(s, v)
  BY <1>3, ParsedIsOneTab DEF s
<1>. HIDE DEF v
<1>5. OneTab(s, t) /\ t.viewer[s.imageviewer].info = t.bar
  BY <1>2, <1>4, TriggeredIsOneTab
<1>. HIDE DEF t
<1>6. OneTab(s, Show(t)) /\ Show(t).viewer = t.viewer /\ Show(t).bar = t.bar
  BY <1>2, <1>5, ShowIsOneTab
<1>7. Show(t) \in WindowType /\ Become(Show(t))
  BY <1>1, <1>6 DEF OneTab, t, v
<1>8. Scene' = Show(t)
  BY <1>7, BecomeIsScene
<1>9. Follows(s, Show(t))
  <2>. DEFINE w == Show(t)
  <2>1. OneTab(s, w) /\ w.bar = w.viewer[s.imageviewer].info
    BY <1>5, <1>6
  <2>. HIDE DEF w
  <2>2. Follows(s, w)
    BY <1>2, <2>1, OneTabFollows
  <2>. QED  BY <2>2 DEF w
<1>. QED  BY <1>8, <1>9 DEF s

-----------------------------------------------------------------------------
(* The handlers.                                                           *)

LEMMA SceneMembers ==
  /\ Scene.list = list /\ Scene.viewer = viewer /\ Scene.imageviewer = imageviewer
  /\ Scene.tmpviewer = tmpviewer /\ Scene.tabs = tabs /\ Scene.current = current
  /\ Scene.bar = bar /\ Scene.filename = filename
BY DEF Scene

LEMMA SceneIsOneTab ==
  ASSUME Inv
  PROVE  OneTab(Scene, Scene)
BY DEF Inv, Agree, OneTab

LEMMA BecomeFollows ==
  ASSUME NEW t, Follows(Scene, t), Become(t)
  PROVE  Follows(Scene, Scene')
BY BecomeIsScene DEF Follows, Agree

LEMMA NamedIsOneTab ==
  ASSUME Inv, NEW name \in Names, NEW listed \in BOOLEAN
  PROVE  LET t == Named(name, listed)
         IN  /\ OneTab(Scene, t) /\ t.bar = bar /\ t.viewer[imageviewer].name = name
             /\ t.viewer[imageviewer].info = viewer[imageviewer].info
<1>1. Named(name, listed) = [Scene EXCEPT !.viewer[Scene.imageviewer].name = name,
                                          !.viewer[Scene.imageviewer].listed = listed]
  BY SceneMembers DEF Named
<1>. DEFINE t == [Scene EXCEPT !.viewer[Scene.imageviewer].name = name,
                               !.viewer[Scene.imageviewer].listed = listed]
<1>2. /\ OneTab(Scene, t) /\ t.bar = Scene.bar /\ t.viewer[Scene.imageviewer].name = name
      /\ t.viewer[Scene.imageviewer].info = Scene.viewer[Scene.imageviewer].info
  BY NamingIsOneTab DEF Inv
<1>. HIDE DEF t
<1>3. /\ OneTab(Scene, t) /\ t.bar = bar /\ t.viewer[imageviewer].name = name
      /\ t.viewer[imageviewer].info = viewer[imageviewer].info
  BY <1>2, SceneMembers
<1>. QED  BY <1>1, <1>3 DEF t

LEMMA OpenFollows ==
  ASSUME Inv, NEW f \in Files, Open(f)
  PROVE  Follows(Scene, Scene')
<1>1. OneTab(Scene, Named(f, TRUE))
  BY NamedIsOneTab DEF Names
<1>. QED  BY <1>1, ReloadedFollows DEF Open

LEMMA NamingFollows ==
  ASSUME Inv, NEW name \in Names, NEW listed \in BOOLEAN, Become(Named(name, listed))
  PROVE  Follows(Scene, Scene')
<1>. DEFINE t == Named(name, listed)
<1>1. /\ OneTab(Scene, t) /\ t.bar = bar
      /\ t.viewer[imageviewer].info = viewer[imageviewer].info
  BY NamedIsOneTab
<1>. HIDE DEF t
<1>2. Follows(Scene, t)
  BY <1>1, SceneMembers, OneTabFollows DEF Inv
<1>. QED  BY <1>2, BecomeFollows DEF t

LEMMA SubmitFollows ==
  ASSUME Inv, Submit
  PROVE  Follows(Scene, Scene')
<1>1. PICK good \in BOOLEAN : Become(Triggered(Scene, good))
  BY DEF Submit
<1>. DEFINE t == Triggered(Scene, good)
<1>2. OneTab(Scene, t) /\ t.viewer[imageviewer].info = t.bar
  BY SceneIsOneTab, SceneMembers, TriggeredIsOneTab DEF Inv
<1>. HIDE DEF t
<1>3. Follows(Scene, t)
  BY <1>2, SceneMembers, OneTabFollows DEF Inv
<1>. QED  BY <1>1, <1>3, BecomeFollows DEF t

LEMMA HardFormatFollows ==
  ASSUME Inv, HardFormat
  PROVE  Follows(Scene, Scene')
<1>1. PICK type \in Types : Reloaded([Scene EXCEPT !.bar.type = type])
  BY DEF HardFormat
<1>. DEFINE b == [bar EXCEPT !.type = type]
<1>2. bar \in Shown
  BY SceneMembers DEF Inv, Agree, WindowType
<1>3. b \in Shown
  BY <1>2 DEF Shown
<1>4. [Scene EXCEPT !.bar.type = type] = [Scene EXCEPT !.bar = b]
  BY SceneMembers DEF Scene
<1>. HIDE DEF b
<1>5. OneTab(Scene, [Scene EXCEPT !.bar = b])
  BY <1>3, SceneIsOneTab, FieldsAreOneTab
<1>. QED  BY <1>1, <1>4, <1>5, ReloadedFollows

LEMMA ResetFollows ==
  ASSUME Inv, Reset
  PROVE  Follows(Scene, Scene')
BY SceneIsOneTab, ReloadedFollows DEF Reset

\* A tab without a file has no text.
LEMMA CloseFollows ==
  ASSUME Inv, Close
  PROVE  Follows(Scene, Scene')
<1>. DEFINE u == Named(None, FALSE)
            t == Titled(u, u.viewer[u.imageviewer].name)
<1>1. /\ OneTab(Scene, u) /\ u.bar = bar /\ u.viewer[imageviewer].name = None
      /\ u.viewer[imageviewer].info = viewer[imageviewer].info
  BY NamedIsOneTab DEF Names
<1>2. t = Titled(u, None)
  BY <1>1, SceneMembers DEF OneTab
<1>. HIDE DEF u
<1>3. OneTab(Scene, t) /\ t.viewer = u.viewer /\ t.bar = u.bar
  BY <1>1, TitledIsOneTab DEF Inv
<1>. HIDE DEF t
<1>4. Follows(Scene, t)
  BY <1>1, <1>3, SceneMembers, OneTabFollows DEF Inv
<1>5. Become(t)
  BY <1>2 DEF Close, u
<1>. QED  BY <1>4, <1>5, BecomeFollows

LEMMA RepaintFollows ==
  ASSUME Inv, Repaint
  PROVE  Follows(Scene, Scene')
<1>. DEFINE t == Show(Scene)
<1>1. OneTab(Scene, t) /\ t.viewer = viewer /\ t.bar = bar
  BY SceneIsOneTab, SceneMembers, ShowIsOneTab DEF Inv
<1>. HIDE DEF t
<1>2. Follows(Scene, t)
  BY <1>1, SceneMembers, OneTabFollows DEF Inv
<1>. QED  BY <1>2, BecomeFollows DEF t, Repaint

LEMMA ChooseTabFollows ==
  ASSUME Inv, NEW i \in DOMAIN tabs, ChooseTab(i)
  PROVE  Follows(Scene, Scene')
<1>. DEFINE s == Scene
<1>1. /\ i # s.current /\ Become(SetCurrent(s, i)) /\ i \in DOMAIN s.tabs
  BY SceneMembers DEF ChooseTab
<1>. HIDE DEF s
<1>2. Agree(s) /\ s \in WindowType
  BY DEF Inv, Agree, s
<1>3. i \in 1 .. Len(s.tabs) /\ s.tabs # <<>>
  BY <1>1, <1>2, LenProperties DEF WindowType
<1>4. i \in 1 .. Len(s.list)
  BY <1>2, <1>3 DEF Agree
<1>5. ChoseAt(s, SetCurrent(s, i), i, i)
  BY <1>1, <1>2, <1>3, <1>4, SetCurrentChooses
<1>6. Follows(s, SetCurrent(s, i))
  BY <1>2, <1>3, <1>4, <1>5, ChoosingFollows
<1>. QED  BY <1>1, <1>6, BecomeFollows DEF s

\* An edit of the fields, which the current viewer learns of when it is submitted.
LEMMA EditAgrees ==
  ASSUME Inv, NEW fields \in Shown, Edit(fields)
  PROVE  /\ Agree(Scene') /\ KeepsTexts(Scene, Scene')
         /\ list' = list
<1>. DEFINE s == Scene
            t == [Scene EXCEPT !.bar = fields]
<1>1. OneTab(s, t) /\ s \in WindowType
  BY SceneIsOneTab, FieldsAreOneTab DEF OneTab
<1>2. t.viewer = s.viewer /\ t.tabs = s.tabs /\ t.list = s.list
  BY <1>1 DEF WindowType, s, Scene
<1>3. Become(t)
  BY DEF Edit
<1>. HIDE DEF s, t
<1>4. Agree(s)
  BY DEF Inv, s
<1>5. Agree(t) /\ KeepsTexts(s, t)
  <2>1. IF s.tabs = <<>> THEN t.imageviewer = s.imageviewer /\ t.current = s.current
        ELSE t.current \in DOMAIN s.list /\ t.imageviewer = s.list[t.current]
    BY <1>1, <1>4 DEF OneTab, Agree
  <2>. QED  BY <1>1, <1>2, <1>4, <2>1, SameListAgrees DEF OneTab
<1>6. Scene' = t
  BY <1>1, <1>3, BecomeIsScene DEF OneTab
<1>7. list' = list
  BY <1>2, <1>3, SceneMembers DEF Become, s
<1>. QED  BY <1>5, <1>6, <1>7 DEF s

-----------------------------------------------------------------------------
(* Where the members of a sequence go.                                     *)

LEMMA RemoveAtPlaces ==
  ASSUME NEW S, NEW seq \in Seq(S), NEW i \in 1 .. Len(seq)
  PROVE  LET r == RemoveAt(seq, i)
         IN  /\ r \in Seq(S) /\ Len(r) = Len(seq) - 1
             /\ \A k \in 1 .. Len(seq) - 1 : r[k] = IF k < i THEN seq[k] ELSE seq[k + 1]
<1>. DEFINE a == SubSeq(seq, 1, i - 1)
            b == SubSeq(seq, i + 1, Len(seq))
            r == RemoveAt(seq, i)
<1>1. Len(seq) \in Nat /\ i \in Nat /\ \A k \in 1 .. Len(seq) : seq[k] \in S
  BY LenProperties, ElementOfSeq
<1>2. a \in Seq(S) /\ Len(a) = i - 1 /\ \A k \in 1 .. i - 1 : a[k] = seq[k]
  <2>1. \A k \in 1 .. i - 1 : seq[k] \in S
    BY <1>1
  <2>2. /\ a \in Seq(S) /\ Len(a) = IF 1 <= i - 1 THEN (i - 1) - 1 + 1 ELSE 0
        /\ \A k \in 1 .. (i - 1) - 1 + 1 : a[k] = seq[1 + k - 1]
    BY <1>1, <2>1, SubSeqProperties
  <2>. HIDE DEF a
  <2>. QED  BY <1>1, <2>2
<1>3. b \in Seq(S) /\ Len(b) = Len(seq) - i /\ \A k \in 1 .. Len(seq) - i : b[k] = seq[i + k]
  <2>1. \A k \in i + 1 .. Len(seq) : seq[k] \in S
    BY <1>1
  <2>2. /\ b \in Seq(S) /\ Len(b) = IF i + 1 <= Len(seq) THEN Len(seq) - (i + 1) + 1 ELSE 0
        /\ \A k \in 1 .. Len(seq) - (i + 1) + 1 : b[k] = seq[(i + 1) + k - 1]
    BY <1>1, <2>1, SubSeqProperties
  <2>. HIDE DEF b
  <2>. QED  BY <1>1, <2>2
<1>4. r = a \o b
  BY DEF RemoveAt
<1>. HIDE DEF a, b, r
<1>5. /\ r \in Seq(S) /\ Len(r) = Len(a) + Len(b)
      /\ \A k \in 1 .. Len(a) + Len(b) : r[k] = IF k <= Len(a) THEN a[k] ELSE b[k - Len(a)]
  BY <1>2, <1>3, <1>4, ConcatProperties
<1>6. \A k \in 1 .. Len(seq) - 1 : r[k] = IF k < i THEN seq[k] ELSE seq[k + 1]
  <2>. TAKE k \in 1 .. Len(seq) - 1
  <2>1. CASE k < i
    BY <1>1, <1>2, <1>3, <1>5, <2>1
  <2>2. CASE k >= i
    <3>1. /\ k \in 1 .. Len(a) + Len(b) /\ ~(k <= Len(a)) /\ k - (i - 1) \in 1 .. Len(seq) - i
      BY <1>1, <1>2, <1>3, <2>2
    <3>3. r[k] = b[k - (i - 1)]
      BY <1>2, <1>5, <3>1
    <3>2. i + (k - (i - 1)) = k + 1
      BY <1>1
    <3>. QED  BY <1>1, <1>3, <2>2, <3>1, <3>2, <3>3
  <2>. QED  BY <1>1, <2>1, <2>2
<1>. QED  BY <1>1, <1>2, <1>3, <1>5, <1>6 DEF r

LEMMA InsertAtPlaces ==
  ASSUME NEW S, NEW seq \in Seq(S), NEW e \in S, NEW i \in 1 .. Len(seq) + 1
  PROVE  LET r == InsertAt(seq, i, e)
         IN  /\ r \in Seq(S) /\ Len(r) = Len(seq) + 1
             /\ \A k \in 1 .. Len(seq) + 1 :
                  r[k] = IF k < i THEN seq[k] ELSE IF k = i THEN e ELSE seq[k - 1]
<1>. DEFINE a == SubSeq(seq, 1, i - 1)
            b == SubSeq(seq, i, Len(seq))
            c == a \o <<e>>
            r == InsertAt(seq, i, e)
<1>1. Len(seq) \in Nat /\ i \in Nat /\ \A k \in 1 .. Len(seq) : seq[k] \in S
  BY LenProperties, ElementOfSeq
<1>2. a \in Seq(S) /\ Len(a) = i - 1 /\ \A k \in 1 .. i - 1 : a[k] = seq[k]
  <2>1. \A k \in 1 .. i - 1 : seq[k] \in S
    BY <1>1
  <2>2. /\ a \in Seq(S) /\ Len(a) = IF 1 <= i - 1 THEN (i - 1) - 1 + 1 ELSE 0
        /\ \A k \in 1 .. (i - 1) - 1 + 1 : a[k] = seq[1 + k - 1]
    BY <1>1, <2>1, SubSeqProperties
  <2>. HIDE DEF a
  <2>. QED  BY <1>1, <2>2
<1>3. /\ b \in Seq(S) /\ Len(b) = Len(seq) - i + 1
      /\ \A k \in 1 .. Len(seq) - i + 1 : b[k] = seq[i + k - 1]
  <2>1. \A k \in i .. Len(seq) : seq[k] \in S
    BY <1>1
  <2>2. /\ b \in Seq(S) /\ Len(b) = IF i <= Len(seq) THEN Len(seq) - i + 1 ELSE 0
        /\ \A k \in 1 .. Len(seq) - i + 1 : b[k] = seq[i + k - 1]
    BY <1>1, <2>1, SubSeqProperties
  <2>. HIDE DEF b
  <2>. QED  BY <1>1, <2>2
<1>4. <<e>> \in Seq(S) /\ Len(<<e>>) = 1 /\ <<e>>[1] = e
  OBVIOUS
<1>5. r = c \o b
  BY DEF InsertAt
<1>. HIDE DEF a, b
<1>6. /\ c \in Seq(S) /\ Len(c) = Len(a) + 1
      /\ \A k \in 1 .. Len(a) + 1 : c[k] = IF k <= Len(a) THEN a[k] ELSE <<e>>[k - Len(a)]
  BY <1>2, <1>4, ConcatProperties
<1>. HIDE DEF c, r
<1>7. Len(c) = i /\ c[i] = e /\ \A k \in 1 .. i - 1 : c[k] = seq[k]
  <2>1. Len(a) = i - 1 /\ i \in 1 .. Len(a) + 1 /\ ~(i <= Len(a)) /\ i - Len(a) = 1
    BY <1>1, <1>2
  <2>2. c[i] = <<e>>[i - Len(a)]
    BY <1>6, <2>1
  <2>. QED  BY <1>1, <1>2, <1>4, <1>6, <2>1, <2>2
<1>8. /\ r \in Seq(S) /\ Len(r) = Len(c) + Len(b)
      /\ \A k \in 1 .. Len(c) + Len(b) : r[k] = IF k <= Len(c) THEN c[k] ELSE b[k - Len(c)]
  BY <1>3, <1>5, <1>6, ConcatProperties
<1>9. ASSUME NEW k \in 1 .. Len(seq) + 1
      PROVE  r[k] = IF k < i THEN seq[k] ELSE IF k = i THEN e ELSE seq[k - 1]
  <2>1. CASE k <= i
    BY <1>1, <1>3, <1>7, <1>8, <2>1
  <2>2. CASE k > i
    <3>1. r[k] = b[k - i] /\ k - i \in 1 .. Len(seq) - i + 1
      BY <1>1, <1>3, <1>7, <1>8, <2>2
    <3>2. i + (k - i) - 1 = k - 1
      BY <1>1
    <3>. QED  BY <1>1, <1>3, <2>2, <3>1, <3>2
  <2>. QED  BY <1>1, <2>1, <2>2
<1>. QED  BY <1>1, <1>3, <1>7, <1>8, <1>9 DEF r

\* Where the k-th comes from.
Source(from, to, k) ==
  IF k = to THEN from
  ELSE IF k < to THEN IF k < from THEN k ELSE k + 1
       ELSE IF k - 1 < from THEN k - 1 ELSE k

LEMMA MovedPlaces ==
  ASSUME NEW S, NEW seq \in Seq(S), NEW from \in 1 .. Len(seq), NEW to \in 1 .. Len(seq)
  PROVE  LET m == Moved(seq, from, to)
         IN  /\ m \in Seq(S) /\ Len(m) = Len(seq)
             /\ \A k \in 1 .. Len(seq) :
                  Source(from, to, k) \in 1 .. Len(seq) /\ m[k] = seq[Source(from, to, k)]
<1>. DEFINE r == RemoveAt(seq, from)
            e == seq[from]
            m == InsertAt(r, to, e)
<1>1. Len(seq) \in Nat /\ e \in S
  BY LenProperties, ElementOfSeq
<1>2. /\ r \in Seq(S) /\ Len(r) = Len(seq) - 1
      /\ \A k \in 1 .. Len(seq) - 1 : r[k] = IF k < from THEN seq[k] ELSE seq[k + 1]
  BY RemoveAtPlaces
<1>. HIDE DEF r
<1>3. to \in 1 .. Len(r) + 1
  BY <1>1, <1>2
<1>. HIDE DEF e
<1>4. r \in Seq(S) /\ e \in S
  BY <1>1, <1>2
<1>5. /\ m \in Seq(S) /\ Len(m) = Len(r) + 1
      /\ \A k \in 1 .. Len(r) + 1 :
           m[k] = IF k < to THEN r[k] ELSE IF k = to THEN e ELSE r[k - 1]
  BY <1>3, <1>4, InsertAtPlaces
<1>. HIDE DEF m
<1>6. ASSUME NEW k \in 1 .. Len(seq)
      PROVE  Source(from, to, k) \in 1 .. Len(seq) /\ m[k] = seq[Source(from, to, k)]
  <2>1. CASE k < to
    BY <1>1, <1>2, <1>5, <2>1 DEF Source
  <2>2. CASE k = to
    BY <1>1, <1>2, <1>5, <2>2 DEF Source, e
  <2>3. CASE k > to
    <3>1. m[k] = r[k - 1] /\ k - 1 \in 1 .. Len(seq) - 1
      BY <1>1, <1>2, <1>5, <2>3
    <3>2. r[k - 1] = IF k - 1 < from THEN seq[k - 1] ELSE seq[(k - 1) + 1]
      BY <1>2, <3>1
    <3>. QED  BY <1>1, <2>3, <3>1, <3>2 DEF Source
  <2>. QED  BY <1>1, <2>1, <2>2, <2>3
<1>7. Moved(seq, from, to) = m
  BY DEF Moved, m, r, e
<1>. QED  BY <1>1, <1>2, <1>5, <1>6, <1>7

LEMMA SourceIsInjective ==
  ASSUME NEW n \in Nat, NEW from \in 1 .. n, NEW to \in 1 .. n,
         NEW k \in 1 .. n, NEW l \in 1 .. n, Source(from, to, k) = Source(from, to, l)
  PROVE  k = l
BY DEF Source

-----------------------------------------------------------------------------
(* Closing a tab.                                                          *)

\* The place of the current tab when tab i of n is gone.
Left(cur, i, n) == IF cur <= i /\ cur < n THEN cur ELSE cur - 1

\* removeTab(): the signal it sends in between writes the text of the current tab
\* alone.
LEMMA RemoveTabLeaves ==
  ASSUME NEW s, Agree(s), Len(s.tabs) > 1, NEW i \in 1 .. Len(s.tabs)
  PROVE  LET r == RemoveTab(s, i)
             n == Len(s.tabs)
             p == Left(s.current, i, n)
         IN  /\ r \in WindowType /\ Alike(s, r)
             /\ r.current = p /\ p \in 1 .. n - 1
             /\ Len(r.tabs) = n - 1
             /\ \A k \in 1 .. n - 1 :
                  k # p => r.tabs[k] = IF k < i THEN s.tabs[k] ELSE s.tabs[k + 1]
<1>. DEFINE n == Len(s.tabs)
            p == Left(s.current, i, n)
            rest == RemoveAt(s.tabs, i)
            removed == [s EXCEPT !.tabs = rest]
            r == RemoveTab(s, i)
<1>1. s \in WindowType /\ s.tabs \in Seq(Texts) /\ n \in Nat /\ n > 1 /\ i \in 1 .. n
  BY LenProperties DEF Agree, WindowType
<1>2. s.tabs # <<>>
  BY EmptySeq
<1>3. Len(s.list) = n /\ s.current \in 1 .. n
  BY <1>2, CurrentInRange DEF Agree
<1>4. /\ rest \in Seq(Texts) /\ Len(rest) = n - 1
      /\ \A k \in 1 .. n - 1 : rest[k] = IF k < i THEN s.tabs[k] ELSE s.tabs[k + 1]
  BY <1>1, RemoveAtPlaces
<1>5. r = CASE i = s.current -> SetCurrent([removed EXCEPT !.current = 0],
                                             IF i > Len(removed.tabs) THEN Len(removed.tabs) ELSE i)
            [] i < s.current -> SetCurrent(removed, s.current - 1)
            [] i > s.current -> removed
  BY DEF RemoveTab
<1>. HIDE DEF rest, r, n
<1>6. /\ removed \in WindowType /\ Alike(s, removed) /\ removed.tabs = rest
      /\ removed.current = s.current
  BY <1>1, <1>4 DEF WindowType, Alike
<1>. HIDE DEF removed
<1>7. CASE i = s.current
  <2>. DEFINE u == [removed EXCEPT !.current = 0]
              q == IF i > n - 1 THEN n - 1 ELSE i
  <2>1. r = SetCurrent(u, q)
    BY <1>3, <1>4, <1>5, <1>6, <1>7
  <2>2. u \in WindowType /\ Alike(s, u) /\ u.tabs = rest /\ u.current = 0
    BY <1>6 DEF WindowType, Alike
  <2>3. q = p /\ q \in 1 .. n - 1 /\ q \in 1 .. n
    BY <1>1, <1>3, <1>7 DEF Left
  <2>. HIDE DEF u, q, p
  <2>4. q \in 1 .. Len(u.list) /\ q \in 1 .. Len(u.tabs) /\ q # u.current
    BY <1>3, <1>4, <2>2, <2>3 DEF Alike
  <2>5. ChoseAt(u, r, q, q)
    BY <2>1, <2>2, <2>4, SetCurrentChooses
  <2>. QED  BY <1>4, <2>2, <2>3, <2>5 DEF ChoseAt, Alike, WroteAt, r, n, p
<1>8. CASE i < s.current
  <2>. DEFINE q == s.current - 1
  <2>1. r = SetCurrent(removed, q)
    BY <1>1, <1>3, <1>5, <1>8
  <2>2. q = p /\ q \in 1 .. n - 1 /\ q \in 1 .. n /\ q # s.current
    BY <1>1, <1>3, <1>8 DEF Left
  <2>. HIDE DEF q, p
  <2>3. q \in 1 .. Len(removed.list) /\ q \in 1 .. Len(removed.tabs) /\ q # removed.current
    BY <1>3, <1>4, <1>6, <2>2 DEF Alike
  <2>4. ChoseAt(removed, r, q, q)
    BY <1>6, <2>1, <2>3, SetCurrentChooses
  <2>. QED  BY <1>4, <1>6, <2>2, <2>4 DEF ChoseAt, Alike, WroteAt, r, n, p
<1>9. CASE i > s.current
  <2>1. r = removed
    BY <1>1, <1>3, <1>5, <1>9
  <2>2. p = s.current /\ p \in 1 .. n - 1
    BY <1>1, <1>3, <1>9 DEF Left
  <2>. HIDE DEF p
  <2>. QED  BY <1>4, <1>6, <2>1, <2>2 DEF r, n, p
<1>. QED  BY <1>1, <1>3, <1>7, <1>8, <1>9

\* However the signals went, the window ends with the viewer of the current tab.
LEMMA CloseTabFollows ==
  ASSUME Inv, NEW i \in DOMAIN tabs, CloseTab(i)
  PROVE  Follows(Scene, Scene')
<1>. DEFINE s == Scene
            n == Len(s.tabs)
            p == Left(s.current, i, n)
            r == RemoveTab(s, i)
            rest == RemoveAt(s.list, i)
            w == [s.viewer EXCEPT ![s.list[i]] = NewViewer]
            u == [r EXCEPT !.list = rest, !.viewer = w]
            t == Chosen(u, p)
<1>1. Agree(s) /\ s \in WindowType /\ n > 1 /\ i \in 1 .. n /\ n \in Nat
  <2>1. s.tabs = tabs /\ Len(tabs) > 1 /\ Agree(s)
    BY SceneMembers DEF CloseTab, Inv
  <2>. HIDE DEF s
  <2>2. s.tabs \in Seq(Texts) /\ s \in WindowType
    BY <2>1 DEF Agree, WindowType
  <2>. QED  BY <2>1, <2>2, LenProperties
<1>2. /\ r \in WindowType /\ Alike(s, r)
      /\ r.current = p /\ p \in 1 .. n - 1
      /\ Len(r.tabs) = n - 1
      /\ \A k \in 1 .. n - 1 : k # p => r.tabs[k] = IF k < i THEN s.tabs[k] ELSE s.tabs[k + 1]
  <2>. HIDE DEF s
  <2>. QED  BY <1>1, RemoveTabLeaves
<1>3. Become(t)
  <2>1. s.list = list /\ s.viewer = viewer /\ s.tabs = tabs /\ s.current = current
    BY SceneMembers
  <2>2. u = [r EXCEPT !.list = RemoveAt(@, i), !.viewer[list[i]] = NewViewer]
    BY <1>2, <2>1 DEF Alike, WindowType
  <2>. QED  BY <2>1, <2>2 DEF CloseTab, Left
<1>. HIDE DEF s, r, p
<1>4. s.tabs # <<>> /\ Len(s.list) = n /\ s.list \in Seq(Viewers) /\ DOMAIN s.list = 1 .. n
  <2>1. s.tabs # <<>>
    BY <1>1, EmptySeq
  <2>. QED  BY <1>1, <2>1, LenProperties DEF Agree, WindowType
<1>. HIDE DEF n
<1>. DEFINE From(k) == IF k < i THEN k ELSE k + 1
<1>5. /\ rest \in Seq(Viewers) /\ Len(rest) = n - 1 /\ DOMAIN rest = 1 .. n - 1
      /\ \A k \in 1 .. n - 1 : From(k) \in 1 .. n /\ rest[k] = s.list[From(k)]
  <2>1. s.list \in Seq(Viewers) /\ i \in 1 .. Len(s.list) /\ Len(s.list) = n
    BY <1>1, <1>4
  <2>2. /\ rest \in Seq(Viewers) /\ Len(rest) = n - 1
        /\ \A k \in 1 .. n - 1 : rest[k] = IF k < i THEN s.list[k] ELSE s.list[k + 1]
    BY <2>1, RemoveAtPlaces
  <2>. HIDE DEF rest
  <2>. QED  BY <1>1, <2>2, LenProperties
<1>6. \A k \in 1 .. n, l \in 1 .. n : s.list[k] = s.list[l] => k = l
  BY <1>1, <1>4 DEF Agree, IsInjective
<1>. HIDE DEF rest
<1>7. s.list[i] \in Viewers /\ s.viewer \in [Viewers -> Tab]
  BY <1>1, <1>4, ElementOfSeq DEF WindowType
<1>8. NewViewer \in Tab
  BY DEF NewViewer, Infos, Tab, Names
<1>9. w \in [Viewers -> Tab] /\ \A v \in Viewers : v # s.list[i] => w[v] = s.viewer[v]
  BY <1>7, <1>8
<1>. HIDE DEF w
<1>10. /\ u \in WindowType /\ u.list = rest /\ u.viewer = w /\ u.tabs = r.tabs
       /\ u.current = p /\ u.bar = r.bar
  BY <1>2, <1>5, <1>9 DEF WindowType
<1>. HIDE DEF u
<1>11. ChoseAt(u, t, p, p)
  <2>1. p \in 1 .. Len(u.list) /\ u.current \in 0 .. Len(u.tabs)
    BY <1>1, <1>2, <1>5, <1>10
  <2>. QED  BY <1>10, <2>1, ChosenChooses
<1>. HIDE DEF t
<1>12. /\ t \in WindowType /\ t.list = rest /\ t.viewer = w
       /\ t.current = p /\ t.imageviewer = rest[p]
       /\ t.bar = Fields(u.bar, w[rest[p]].info)
       /\ Len(t.tabs) = n - 1
       /\ \A k \in 1 .. n - 1 : t.tabs[k] = IF k = p THEN w[rest[p]].name ELSE r.tabs[k]
  BY <1>2, <1>10, <1>11 DEF ChoseAt, Alike, WroteAt
<1>13. t.tabs # <<>>
  BY <1>1, <1>12, EmptySeq DEF WindowType
<1>14. Agree(t)
  <2>1. ASSUME NEW k \in 1 .. n - 1, NEW l \in 1 .. n - 1, rest[k] = rest[l]  PROVE k = l
    <3>1. From(k) \in 1 .. n /\ From(l) \in 1 .. n /\ s.list[From(k)] = s.list[From(l)]
      BY <1>5, <2>1
    <3>2. From(k) = From(l)
      BY <1>6, <3>1
    <3>. QED  BY <1>1, <3>2
  <2>2. IsInjective(t.list)
    BY <1>5, <1>12, <2>1 DEF IsInjective
  <2>. QED  BY <1>2, <1>5, <1>12, <1>13, <2>2 DEF Agree
<1>15. KeepsTexts(s, t)
  <2>. SUFFICES ASSUME NEW j \in DOMAIN s.list, NEW k \in DOMAIN t.list, s.list[j] = t.list[k]
                PROVE  /\ t.viewer[s.list[j]] = s.viewer[s.list[j]]
                       /\ \/ t.tabs[k] = t.viewer[t.list[k]].name
                          \/ s.tabs # <<>> /\ t.tabs[k] = s.tabs[j]
    BY DEF KeepsTexts
  <2>1. j \in 1 .. n /\ k \in 1 .. n - 1 /\ s.list[j] = rest[k]
    BY <1>4, <1>5, <1>12
  <2>2. j = From(k)
    BY <1>5, <1>6, <2>1
  <2>3. j # i
    BY <1>1, <2>1, <2>2
  <2>4. s.list[j] # s.list[i] /\ s.list[j] \in Viewers
    BY <1>1, <1>4, <1>6, <2>1, <2>3, ElementOfSeq
  <2>5. t.viewer[s.list[j]] = s.viewer[s.list[j]]
    BY <1>9, <1>12, <2>4
  <2>6. CASE k = p
    BY <1>12, <2>1, <2>5, <2>6
  <2>7. CASE k # p
    <3>1. t.tabs[k] = r.tabs[k]
      BY <1>12, <2>1, <2>7
    <3>2. r.tabs[k] = s.tabs[From(k)]
      BY <1>2, <2>1, <2>7
    <3>. HIDE DEF From
    <3>. QED  BY <1>4, <2>2, <2>5, <3>1, <3>2
  <2>. QED  BY <2>5, <2>6, <2>7
<1>16. KeepsFields(s, t)
  <2>1. \A k \in DOMAIN t.list : \E j \in DOMAIN s.list : s.list[j] = t.list[k]
    <3>. HIDE DEF From
    <3>. QED  BY <1>4, <1>5, <1>12
  <2>2. u.bar \in Shown /\ w[rest[p]].info \in Infos
    BY <1>2, <1>5, <1>9, <1>10, ElementOfSeq DEF WindowType, Tab
  <2>. QED  BY <1>12, <2>1, <2>2, FieldsAreShown DEF KeepsFields
<1>. QED  BY <1>3, <1>14, <1>15, <1>16, BecomeFollows DEF Follows, s

-----------------------------------------------------------------------------
(* Moving and adding.                                                      *)

\* A tab is dragged to another place, and its viewer with it.
LEMMA MoveTabFollows ==
  ASSUME Inv, NEW to \in DOMAIN tabs, MoveTab(to)
  PROVE  Follows(Scene, Scene')
<1>. DEFINE s == Scene
            n == Len(s.tabs)
            texts == Moved(s.tabs, s.current, to)
            places == Moved(s.list, s.current, to)
            a == [s EXCEPT !.tabs = texts, !.current = to, !.list = places]
            b == Chosen(a, to)
            t == Chosen(b, to)
<1>1. Become(t) /\ s.tabs = tabs
  <2>1. /\ s.list = list /\ s.tabs = tabs /\ s.current = current
    BY SceneMembers
  <2>2. a = [[s EXCEPT !.tabs = Moved(@, current, to), !.current = to]
               EXCEPT !.list = Moved(@, current, to)]
    BY <2>1 DEF Scene
  <2>. QED  BY <2>1, <2>2 DEF MoveTab
<1>2. Agree(s) /\ s \in WindowType
  BY DEF Inv, Agree
<1>. HIDE DEF s
<1>3. /\ s.tabs \in Seq(Texts) /\ s.list \in Seq(Viewers) /\ n \in Nat
      /\ to \in 1 .. n /\ Len(s.list) = n /\ s.current \in 1 .. n /\ DOMAIN s.list = 1 .. n
      /\ s.tabs # <<>>
  <2>1. s.tabs \in Seq(Texts) /\ s.list \in Seq(Viewers) /\ n \in Nat /\ to \in 1 .. n
    BY <1>1, <1>2, LenProperties DEF WindowType
  <2>2. s.tabs # <<>>
    BY <2>1, EmptySeq
  <2>. QED  BY <1>2, <2>1, <2>2, CurrentInRange, LenProperties DEF Agree
<1>. DEFINE From(k) == Source(s.current, to, k)
<1>. HIDE DEF n
<1>4. /\ texts \in Seq(Texts) /\ Len(texts) = n
      /\ \A k \in 1 .. n : From(k) \in 1 .. n /\ texts[k] = s.tabs[From(k)]
  <2>1. /\ s.tabs \in Seq(Texts) /\ Len(s.tabs) = n
        /\ s.current \in 1 .. Len(s.tabs) /\ to \in 1 .. Len(s.tabs)
    BY <1>3 DEF n
  <2>2. /\ texts \in Seq(Texts) /\ Len(texts) = Len(s.tabs)
        /\ \A k \in 1 .. Len(s.tabs) :
             From(k) \in 1 .. Len(s.tabs) /\ texts[k] = s.tabs[From(k)]
    BY <2>1, MovedPlaces
  <2>. HIDE DEF texts, From
  <2>. QED  BY <2>1, <2>2
<1>5. /\ places \in Seq(Viewers) /\ Len(places) = n /\ DOMAIN places = 1 .. n
      /\ \A k \in 1 .. n : From(k) \in 1 .. n /\ places[k] = s.list[From(k)]
  <2>1. s.current \in 1 .. Len(s.list) /\ to \in 1 .. Len(s.list) /\ Len(s.list) = n
    BY <1>3
  <2>2. /\ places \in Seq(Viewers) /\ Len(places) = Len(s.list)
        /\ \A k \in 1 .. Len(s.list) :
             From(k) \in 1 .. Len(s.list) /\ places[k] = s.list[From(k)]
    BY <1>3, <2>1, MovedPlaces
  <2>. HIDE DEF places, From
  <2>. QED  BY <2>1, <2>2, LenProperties
<1>. HIDE DEF texts, places
<1>6. /\ a \in WindowType /\ a.list = places /\ a.tabs = texts /\ a.current = to
      /\ a.viewer = s.viewer /\ a.bar = s.bar
  <2>1. texts \in Seq(Texts) /\ places \in Seq(Viewers) /\ to \in Nat
    BY <1>3, <1>4, <1>5
  <2>. QED  BY <1>2, <2>1 DEF WindowType
<1>. HIDE DEF a
<1>7. ChoseAt(a, b, to, to)
  <2>1. to \in 1 .. Len(a.list) /\ a.current \in 0 .. Len(a.tabs)
    BY <1>3, <1>4, <1>5, <1>6
  <2>. QED  BY <1>6, <2>1, ChosenChooses
<1>. HIDE DEF b
<1>8. /\ b \in WindowType /\ b.list = places /\ b.viewer = s.viewer /\ b.current = to
      /\ WroteAt(a, b, to, s.viewer[places[to]].name) /\ Len(b.tabs) = n
  BY <1>4, <1>6, <1>7 DEF ChoseAt, Alike, WroteAt
<1>9. ChoseAt(b, t, to, to)
  <2>1. to \in 1 .. Len(b.list) /\ b.current \in 0 .. Len(b.tabs)
    BY <1>3, <1>5, <1>8
  <2>. QED  BY <1>8, <2>1, ChosenChooses
<1>. HIDE DEF t
<1>10. /\ t \in WindowType /\ t.list = places /\ t.viewer = s.viewer
       /\ t.current = to /\ t.imageviewer = places[to]
       /\ t.bar = Fields(b.bar, s.viewer[places[to]].info)
       /\ Len(t.tabs) = n
       /\ \A k \in 1 .. n : t.tabs[k] = IF k = to THEN s.viewer[places[to]].name ELSE texts[k]
  BY <1>4, <1>6, <1>8, <1>9 DEF ChoseAt, Alike, WroteAt
<1>11. t.tabs # <<>>
  BY <1>3, <1>10, EmptySeq DEF WindowType
<1>12. \A k \in 1 .. n, l \in 1 .. n : s.list[k] = s.list[l] => k = l
  BY <1>2, <1>3 DEF Agree, IsInjective
<1>13. Agree(t)
  <2>1. ASSUME NEW k \in 1 .. n, NEW l \in 1 .. n, places[k] = places[l]  PROVE k = l
    <3>1. From(k) \in 1 .. n /\ From(l) \in 1 .. n /\ s.list[From(k)] = s.list[From(l)]
      BY <1>5, <2>1
    <3>2. From(k) = From(l)
      BY <1>12, <3>1
    <3>. QED  BY <1>3, <3>2, SourceIsInjective
  <2>2. IsInjective(t.list)
    BY <1>5, <1>10, <2>1 DEF IsInjective
  <2>. QED  BY <1>3, <1>5, <1>10, <1>11, <2>2 DEF Agree
<1>14. KeepsTexts(s, t)
  <2>. SUFFICES ASSUME NEW j \in DOMAIN s.list, NEW k \in DOMAIN t.list, s.list[j] = t.list[k]
                PROVE  \/ t.tabs[k] = t.viewer[t.list[k]].name
                       \/ s.tabs # <<>> /\ t.tabs[k] = s.tabs[j]
    BY <1>10 DEF KeepsTexts
  <2>1. j \in 1 .. n /\ k \in 1 .. n /\ From(k) \in 1 .. n /\ s.list[j] = s.list[From(k)]
    BY <1>3, <1>5, <1>10
  <2>2. j = From(k)
    BY <1>12, <2>1
  <2>3. CASE k = to
    BY <1>10, <2>1, <2>3
  <2>4. CASE k # to
    <3>1. t.tabs[k] = texts[k]
      BY <1>10, <2>1, <2>4
    <3>2. texts[k] = s.tabs[From(k)]
      BY <1>4, <2>1
    <3>. QED  BY <1>3, <2>2, <3>1, <3>2
  <2>. QED  BY <2>3, <2>4
<1>15. KeepsFields(s, t)
  <2>1. ASSUME NEW k \in DOMAIN t.list  PROVE \E j \in DOMAIN s.list : s.list[j] = t.list[k]
    <3>1. k \in 1 .. n /\ From(k) \in 1 .. n /\ t.list[k] = s.list[From(k)]
      BY <1>5, <1>10, <2>1
    <3>. QED  BY <1>3, <3>1
  <2>2. b.bar \in Shown /\ s.viewer[places[to]].info \in Infos
    BY <1>2, <1>3, <1>5, <1>8, ElementOfSeq DEF WindowType, Tab
  <2>. QED  BY <1>10, <2>1, <2>2, FieldsAreShown DEF KeepsFields
<1>. QED  BY <1>1, <1>13, <1>14, <1>15, BecomeFollows DEF Follows, s

\* A tab is added.  With the first one come two, and the signal of the bar has the
\* first viewer chosen again before the last tab is.
LEMMA AddTabAppends ==
  ASSUME NEW s \in WindowType, Len(s.list) > 0
  PROVE  LET t == AddTab(s)
             n == Len(s.tabs)
         IN  /\ t \in WindowType /\ Alike(s, t)
             /\ Len(t.tabs) = n + 1
             /\ s.tabs # <<>> => /\ t.current = s.current
                                 /\ \A k \in 1 .. n : t.tabs[k] = s.tabs[k]
             /\ s.tabs = <<>> /\ s.current # 1 =>
                  t.current = 1 /\ t.tabs[1] = s.viewer[s.list[1]].name
<1>. DEFINE n == Len(s.tabs)
            more == Append(s.tabs, "default")
            added == [s EXCEPT !.tabs = more]
            t == AddTab(s)
<1>1. s.tabs \in Seq(Texts) /\ n \in Nat /\ "default" \in Texts /\ s.list \in Seq(Viewers)
      /\ Len(s.list) \in Nat
  BY LenProperties DEF WindowType, Texts
<1>2. more \in Seq(Texts) /\ Len(more) = n + 1 /\ \A k \in 1 .. n : more[k] = s.tabs[k]
  BY <1>1, AppendProperties
<1>3. t = IF s.tabs = <<>> THEN SetCurrent(added, 1) ELSE added
  BY DEF AddTab
<1>. HIDE DEF more, t
<1>4. /\ added \in WindowType /\ Alike(s, added) /\ added.tabs = more
      /\ added.current = s.current
  BY <1>2 DEF WindowType, Alike
<1>. HIDE DEF added
<1>5. CASE s.tabs # <<>>
  BY <1>2, <1>3, <1>4, <1>5 DEF t
<1>6. CASE s.tabs = <<>> /\ s.current = 1
  BY <1>2, <1>3, <1>4, <1>6 DEF t, SetCurrent
<1>7. CASE s.tabs = <<>> /\ s.current # 1
  <2>1. 1 \in 1 .. Len(added.list) /\ 1 \in 1 .. Len(added.tabs) /\ 1 # added.current
    <3>1. Len(added.list) = Len(s.list) /\ Len(added.tabs) = n + 1 /\ added.current = s.current
      BY <1>2, <1>4 DEF Alike
    <3>. HIDE DEF n
    <3>. QED  BY <1>1, <1>7, <3>1
  <2>2. ChoseAt(added, SetCurrent(added, 1), 1, 1)
    BY <1>4, <2>1, SetCurrentChooses
  <2>3. 1 \in 1 .. n + 1
    BY <1>1
  <2>. QED  BY <1>2, <1>3, <1>4, <1>7, <2>2, <2>3 DEF ChoseAt, Alike, WroteAt, t
<1>. QED  BY <1>5, <1>6, <1>7

LEMMA AddToFollows ==
  ASSUME Inv, AddTo
  PROVE  Follows(Scene, Scene')
<1>. DEFINE s == Scene
            n == Len(s.list)
            old == s.imageviewer
<1>1. Agree(s) /\ s \in WindowType
  BY DEF Inv, Agree
<1>2. PICK new, made :
        /\ new \in Viewers \ Range(list)
        /\ made = [Scene EXCEPT !.tmpviewer = imageviewer, !.imageviewer = new,
                                  !.list = Append(@, new), !.viewer[new] = NewViewer]
        /\ LET first == IF tabs = <<>> THEN AddTab(made) ELSE made
               second == AddTab(first)
               name == viewer[list[1]].name
               titled == IF name = None THEN second ELSE [second EXCEPT !.tabs[1] = name]
               chosen == SetCurrent(titled, Len(titled.tabs))
           IN  Become(SetInfo([chosen EXCEPT
                 !.viewer[chosen.imageviewer].info = chosen.viewer[chosen.tmpviewer].info]))
  BY DEF AddTo
<1>. DEFINE longer == Append(s.list, new)
            w == [s.viewer EXCEPT ![new] = NewViewer]
            first == IF tabs = <<>> THEN AddTab(made) ELSE made
            second == AddTab(first)
            name == viewer[list[1]].name
            titled == IF name = None THEN second ELSE [second EXCEPT !.tabs[1] = name]
            chosen == SetCurrent(titled, Len(titled.tabs))
            told == [chosen EXCEPT
              !.viewer[chosen.imageviewer].info = chosen.viewer[chosen.tmpviewer].info]
            t == SetInfo(told)
<1>3. /\ Become(t) /\ new \in Viewers /\ new \notin Range(s.list)
      /\ s.tabs = tabs /\ s.list = list /\ s.viewer = viewer
      /\ made = [s EXCEPT !.tmpviewer = old, !.imageviewer = new,
                          !.list = longer, !.viewer = w]
  <2>1. s.tabs = tabs /\ s.list = list /\ s.viewer = viewer
    BY SceneMembers
  <2>2. made = [s EXCEPT !.tmpviewer = old, !.imageviewer = new,
                         !.list = longer, !.viewer = w]
    BY <1>2, SceneMembers DEF Scene
  <2>3. Become(t)
    BY <1>2
  <2>. HIDE DEF s, t
  <2>. QED  BY <1>2, <2>1, <2>2, <2>3
<1>. HIDE DEF s, t
<1>4. /\ s.list \in Seq(Viewers) /\ n \in Nat /\ n > 0 /\ DOMAIN s.list = 1 .. n
      /\ s.viewer \in [Viewers -> Tab] /\ old \in Viewers /\ s.tabs \in Seq(Texts)
      /\ \A k \in 1 .. n : s.list[k] \in Viewers /\ s.list[k] # new
  <2>1. s.list \in Seq(Viewers) /\ s.list # <<>>
    BY <1>1, CurrentInRange DEF WindowType
  <2>2. n \in Nat /\ n > 0 /\ DOMAIN s.list = 1 .. n
    BY <2>1, LenProperties, EmptySeq
  <2>3. \A k \in 1 .. n : s.list[k] \in Viewers /\ s.list[k] # new
    BY <1>3, <2>1, <2>2, ElementOfSeq DEF Range
  <2>. QED  BY <1>1, <2>1, <2>2, <2>3 DEF WindowType
<1>5. old # new
  <2>1. CASE s.tabs = <<>>
    <3>1. s.list = <<old>>
      BY <1>1, <2>1 DEF Agree
    <3>2. s.list[1] = old /\ 1 \in 1 .. n
      BY <1>4, <3>1
    <3>. QED  BY <1>4, <3>2
  <2>2. CASE s.tabs # <<>>
    BY <1>1, <1>4, <2>2 DEF Agree
  <2>. QED  BY <2>1, <2>2
<1>. HIDE DEF n, old
<1>6. /\ longer \in Seq(Viewers) /\ Len(longer) = n + 1 /\ longer[n + 1] = new
      /\ DOMAIN longer = 1 .. n + 1
      /\ \A k \in 1 .. n : longer[k] = s.list[k]
  <2>1. /\ longer \in Seq(Viewers) /\ Len(longer) = n + 1 /\ longer[n + 1] = new
        /\ \A k \in 1 .. n : longer[k] = s.list[k]
    BY <1>3, <1>4, AppendProperties DEF n
  <2>. HIDE DEF longer
  <2>. QED  BY <2>1, LenProperties
<1>7. NewViewer \in Tab /\ NewViewer.name = None
  BY DEF NewViewer, Infos, Tab, Names
<1>8. w \in [Viewers -> Tab] /\ \A v \in Viewers : v # new => w[v] = s.viewer[v]
  BY <1>4, <1>7
<1>. HIDE DEF longer, w
<1>9. /\ made \in WindowType /\ made.list = longer /\ made.viewer = w /\ made.tmpviewer = old
      /\ made.tabs = s.tabs /\ made.current = s.current
  <2>1. /\ s \in WindowType /\ new \in Viewers /\ old \in Viewers /\ longer \in Seq(Viewers)
        /\ w \in [Viewers -> Tab]
    BY <1>1, <1>3, <1>4, <1>6, <1>8
  <2>. QED  BY <1>3, <2>1 DEF WindowType
<1>10. /\ second \in WindowType /\ second.list = longer /\ second.viewer = w
       /\ second.tmpviewer = old /\ Len(second.tabs) = n + 1 /\ second.current \in 1 .. n
       /\ \A k \in 1 .. n : \/ second.tabs[k] = w[longer[k]].name
                            \/ s.tabs # <<>> /\ second.tabs[k] = s.tabs[k]
  <2>1. Len(made.list) > 0
    BY <1>4, <1>6, <1>9
  <2>2. CASE s.tabs = <<>>
    <3>1. s.list = <<s.imageviewer>> /\ s.current = 0
      BY <1>1, <2>2 DEF Agree
    <3>2. n = 1
      BY <3>1 DEF n
    <3>3. first = AddTab(made)
      BY <1>3, <2>2
    <3>. HIDE DEF first
    <3>4. /\ first \in WindowType /\ Alike(made, first) /\ Len(first.tabs) = 1
          /\ first.current = 1 /\ first.tabs[1] = w[longer[1]].name
      <4>1. Len(made.tabs) = 0 /\ made.tabs = <<>> /\ made.current # 1
        BY <1>9, <2>2, <3>1
      <4>2. LET u == AddTab(made)
            IN  /\ u \in WindowType /\ Alike(made, u) /\ Len(u.tabs) = Len(made.tabs) + 1
                /\ u.current = 1 /\ u.tabs[1] = made.viewer[made.list[1]].name
        BY <1>9, <2>1, <4>1, AddTabAppends
      <4>. QED  BY <1>9, <3>3, <4>1, <4>2
    <3>5. first.tabs # <<>> /\ Len(first.list) > 0
      BY <1>9, <2>1, <3>4, EmptySeq DEF Alike, WindowType
    <3>6. /\ second \in WindowType /\ Alike(first, second) /\ Len(second.tabs) = 2
          /\ second.current = 1 /\ second.tabs[1] = first.tabs[1]
      <4>1. LET u == AddTab(first)
            IN  /\ u \in WindowType /\ Alike(first, u) /\ Len(u.tabs) = Len(first.tabs) + 1
                /\ u.current = first.current
                /\ \A k \in 1 .. Len(first.tabs) : u.tabs[k] = first.tabs[k]
        BY <3>4, <3>5, AddTabAppends
      <4>. QED  BY <3>4, <4>1
    <3>. HIDE DEF second
    <3>. QED  BY <1>9, <3>2, <3>4, <3>6 DEF Alike
  <2>3. CASE s.tabs # <<>>
    <3>1. first = made /\ Len(made.tabs) = n /\ made.current \in 1 .. n /\ made.tabs # <<>>
      BY <1>1, <1>3, <1>4, <1>9, <2>3 DEF Agree, n
    <3>. HIDE DEF first
    <3>2. /\ second \in WindowType /\ Alike(made, second) /\ Len(second.tabs) = n + 1
          /\ second.current = made.current
          /\ \A k \in 1 .. n : second.tabs[k] = made.tabs[k]
      BY <1>9, <2>1, <3>1, AddTabAppends
    <3>. HIDE DEF second
    <3>. QED  BY <1>9, <2>3, <3>1, <3>2 DEF Alike
  <2>. QED  BY <2>2, <2>3
<1>. HIDE DEF first, second
<1>11. /\ titled \in WindowType /\ titled.list = longer /\ titled.viewer = w
       /\ titled.tmpviewer = old /\ Len(titled.tabs) = n + 1 /\ titled.current \in 1 .. n
       /\ \A k \in 1 .. n : \/ titled.tabs[k] = w[longer[k]].name
                            \/ s.tabs # <<>> /\ titled.tabs[k] = s.tabs[k]
  <2>1. CASE name = None
    BY <1>10, <2>1
  <2>2. CASE name # None
    <3>1. 1 \in 1 .. n /\ 1 \in 1 .. Len(second.tabs)
      BY <1>4, <1>10
    <3>2. name = w[longer[1]].name /\ name \in Texts
      BY <1>3, <1>4, <1>6, <1>8, <3>1 DEF Tab, Texts
    <3>3. titled = [second EXCEPT !.tabs = [second.tabs EXCEPT ![1] = name]]
      BY <2>2
    <3>. HIDE DEF name
    <3>4. PICK texts : texts = [second.tabs EXCEPT ![1] = name]
      OBVIOUS
    <3>5. /\ texts \in Seq(Texts) /\ Len(texts) = n + 1
          /\ \A k \in 1 .. n + 1 : texts[k] = IF k = 1 THEN name ELSE second.tabs[k]
      <4>1. second.tabs \in Seq(Texts)
        BY <1>10 DEF WindowType
      <4>. QED  BY <1>10, <3>1, <3>2, <3>4, <4>1, ExceptSeq
    <3>6. titled = [second EXCEPT !.tabs = texts]
      BY <3>3, <3>4
    <3>. HIDE DEF titled
    <3>7. /\ titled \in WindowType /\ titled.list = longer /\ titled.viewer = w
          /\ titled.tmpviewer = old /\ titled.tabs = texts /\ titled.current \in 1 .. n
      BY <1>10, <3>5, <3>6 DEF WindowType
    <3>. QED  BY <1>4, <1>10, <3>2, <3>5, <3>7
  <2>. QED  BY <2>1, <2>2
<1>. HIDE DEF titled
<1>12. ChoseAt(titled, chosen, n + 1, n + 1)
  <2>1. /\ Len(titled.tabs) = n + 1 /\ n + 1 \in 1 .. Len(titled.list)
        /\ n + 1 \in 1 .. Len(titled.tabs) /\ n + 1 # titled.current
    BY <1>4, <1>6, <1>11
  <2>. QED  BY <1>11, <2>1, SetCurrentChooses
<1>. HIDE DEF chosen
<1>13. /\ chosen \in WindowType /\ chosen.list = longer /\ chosen.viewer = w
       /\ chosen.tmpviewer = old /\ chosen.imageviewer = new
       /\ Len(chosen.tabs) = n + 1 /\ chosen.current = n + 1
       /\ \A k \in 1 .. n : chosen.tabs[k] = titled.tabs[k]
  BY <1>4, <1>6, <1>11, <1>12 DEF ChoseAt, Alike, WroteAt
<1>. DEFINE x == [w EXCEPT ![new].info = w[old].info]
<1>14. /\ x \in [Viewers -> Tab] /\ x[new].info = s.viewer[old].info
       /\ \A v \in Viewers : v # new => x[v] = s.viewer[v]
  <2>1. w[old] = s.viewer[old] /\ w[old].info \in Infos
    BY <1>4, <1>5, <1>8 DEF Tab
  <2>. QED  BY <1>3, <1>8, <2>1 DEF Tab
<1>15. /\ told \in WindowType /\ told.list = longer /\ told.viewer = x
       /\ told.imageviewer = new /\ told.tabs = chosen.tabs
       /\ told.current = n + 1 /\ told.bar = chosen.bar
  <2>1. told = [chosen EXCEPT !.viewer = x]
    BY <1>13
  <2>. HIDE DEF x, told
  <2>. QED  BY <1>13, <1>14, <2>1 DEF WindowType
<1>. HIDE DEF x, told
<1>16. told.bar \in Shown /\ x[new].info \in Infos
  BY <1>14, <1>15 DEF WindowType, Tab
<1>17. /\ t \in WindowType /\ t.list = longer /\ t.viewer = x
       /\ t.imageviewer = new /\ t.tabs = chosen.tabs
       /\ t.current = n + 1 /\ t.bar = Fields(told.bar, x[new].info)
  <2>1. PICK b : b = Fields(told.bar, x[new].info)
    OBVIOUS
  <2>2. t = [told EXCEPT !.bar = b]
    BY <1>15, <2>1 DEF t, SetInfo
  <2>3. b \in Shown
    BY <1>16, <2>1, FieldsAreShown
  <2>4. /\ t \in WindowType /\ t.list = longer /\ t.viewer = x
        /\ t.imageviewer = new /\ t.tabs = chosen.tabs
        /\ t.current = n + 1 /\ t.bar = b
    BY <1>15, <2>2, <2>3 DEF WindowType
  <2>. QED  BY <2>1, <2>4
<1>18. \A k \in 1 .. n, l \in 1 .. n : s.list[k] = s.list[l] => k = l
  BY <1>1, <1>4 DEF Agree, IsInjective
<1>19. Agree(t)
  <2>1. ASSUME NEW k \in 1 .. n + 1, NEW l \in 1 .. n + 1, longer[k] = longer[l]  PROVE k = l
    BY <1>4, <1>6, <1>18, <2>1
  <2>2. IsInjective(t.list)
    BY <1>6, <1>17, <2>1 DEF IsInjective
  <2>3. t.tabs # <<>> /\ Len(t.tabs) = n + 1 /\ n + 1 \in DOMAIN t.list
    BY <1>4, <1>6, <1>13, <1>17, EmptySeq DEF WindowType
  <2>. QED  BY <1>6, <1>17, <2>2, <2>3 DEF Agree
<1>20. KeepsTexts(s, t)
  <2>. SUFFICES ASSUME NEW j \in DOMAIN s.list, NEW k \in DOMAIN t.list, s.list[j] = t.list[k]
                PROVE  /\ t.viewer[s.list[j]] = s.viewer[s.list[j]]
                       /\ \/ t.tabs[k] = t.viewer[t.list[k]].name
                          \/ s.tabs # <<>> /\ t.tabs[k] = s.tabs[j]
    BY DEF KeepsTexts
  <2>1. j \in 1 .. n /\ k \in 1 .. n + 1 /\ s.list[j] = longer[k]
    BY <1>4, <1>6, <1>17
  <2>2. k # n + 1 /\ k \in 1 .. n
    BY <1>4, <1>6, <2>1
  <2>3. j = k
    BY <1>6, <1>18, <2>1, <2>2
  <2>4. t.viewer[s.list[j]] = s.viewer[s.list[j]] /\ w[longer[k]] = s.viewer[s.list[j]]
    BY <1>4, <1>8, <1>14, <1>17, <2>1
  <2>. QED  BY <1>11, <1>13, <1>17, <2>1, <2>2, <2>3, <2>4
<1>21. KeepsFields(s, t)
  <2>1. \A k \in 1 .. n + 1 :
          \/ \E j \in 1 .. n : s.list[j] = longer[k]
          \/ x[longer[k]].info = s.viewer[old].info
    BY <1>4, <1>6, <1>14
  <2>. QED  BY <1>4, <1>6, <1>16, <1>17, <2>1, FieldsAreShown DEF KeepsFields, old
<1>. QED  BY <1>3, <1>19, <1>20, <1>21, BecomeFollows DEF Follows, s

-----------------------------------------------------------------------------
(* The specification.                                                      *)

LEMMA SceneKept ==
  ASSUME Inv, Scene' = Scene
  PROVE  Follows(Scene, Scene')
<1>1. OneTab(Scene, Scene) /\ Agree(Scene)
  BY SceneIsOneTab DEF Inv
<1>2. KeepsTexts(Scene, Scene)
  BY <1>1 DEF KeepsTexts, Agree, IsInjective
<1>3. KeepsFields(Scene, Scene)
  BY DEF KeepsFields
<1>. QED  BY <1>1, <1>2, <1>3 DEF Follows

LEMMA InitInv ==
  ASSUME Init
  PROVE  Inv
<1>. DEFINE s == Scene
<1>1. PICK v \in Viewers : list = <<v>> /\ imageviewer = v
  BY DEF Init
<1>2. /\ viewer \in [Viewers -> Tab] /\ tabs = <<>> /\ current = 0 /\ bar \in Shown
      /\ tmpviewer = None /\ filename = None
  BY DEF Init, NewViewer, Infos, Tab, Names
<1>3. list \in Seq(Viewers) /\ tabs \in Seq(Texts) /\ IsInjective(list)
  BY <1>1, <1>2 DEF IsInjective
<1>4. s \in WindowType
  BY <1>1, <1>2, <1>3 DEF Scene, WindowType, Names
<1>5. s.list = list /\ s.tabs = <<>> /\ s.current = 0 /\ s.imageviewer = imageviewer
  BY <1>2, SceneMembers
<1>. HIDE DEF s
<1>6. Agree(s)
  BY <1>1, <1>3, <1>4, <1>5 DEF Agree
<1>. QED  BY <1>6 DEF Inv, s

\* Every step of the window.
LEMMA WindowSteps ==
  ASSUME Inv, [Next]_vars
  PROVE  /\ Agree(Scene') /\ KeepsTexts(Scene, Scene')
         /\ \/ KeepsFields(Scene, Scene')
            \/ (\E fields \in Shown : Edit(fields)) /\ list' = list
<1>0. HasList \in BOOLEAN
  BY SceneMembers DEF Inv, Agree, WindowType, Tab, HasList
<1>1. CASE \E f \in Files : Open(f) \/ NameOnly(f)
  BY <1>1, OpenFollows, NamingFollows DEF NameOnly, Names, Follows
<1>2. CASE OpenNothing \/ Submit \/ HardFormat \/ Reset \/ Close \/ Repaint
  BY <1>0, <1>2, NamingFollows, SubmitFollows, HardFormatFollows, ResetFollows, CloseFollows,
     RepaintFollows DEF OpenNothing, Names, Follows
<1>3. CASE AddTo
  BY <1>3, AddToFollows DEF Follows
<1>4. CASE \E i \in DOMAIN tabs : CloseTab(i) \/ ChooseTab(i) \/ MoveTab(i)
  BY <1>4, CloseTabFollows, ChooseTabFollows, MoveTabFollows DEF Follows
<1>5. CASE \E fields \in Shown : Edit(fields)
  BY <1>5, EditAgrees
<1>6. CASE Updateflock \/ UNCHANGED vars
  <2>1. Scene' = Scene
    BY <1>6 DEF Updateflock, vars, Scene
  <2>. QED  BY <2>1, SceneKept DEF Follows
<1>. QED  BY <1>1, <1>2, <1>3, <1>4, <1>5, <1>6 DEF Next

LEMMA InvHolds ==
  Spec => []Inv
<1>1. Inv /\ [Next]_vars => Inv'
  BY WindowSteps DEF Inv
<1>. QED  BY <1>1, InitInv, PTL DEF Spec

\* The viewer the window works on is that of the current tab after every handler,
\* in the middle of whatever it chose another (mainwindow.cpp:151-181).
THEOREM CurrentTabIsShown ==
  Spec => []CurrentIsShown
<1>1. Inv => CurrentIsShown
  BY SceneMembers DEF Inv, Agree, CurrentIsShown
<1>. QED  BY <1>1, InvHolds, PTL

\* No tab takes the name of another tab's viewer for good, and only the current
\* viewer changes (mainwindow.cpp:99, 151-181).
THEOREM EveryTabKeepsItsName ==
  Spec => TabsKeepTheirName
<1>. DEFINE A ==
       \A v \in Range(list) \cap Range(list') :
         /\ v # imageviewer => viewer'[v] = viewer[v]
         /\ tabs' # <<>> =>
              TextOf(v)' = viewer'[v].name \/ (tabs # <<>> /\ TextOf(v)' = TextOf(v))
<1>1. ASSUME Inv, KeepsTexts(Scene, Scene')  PROVE A
  <2>. SUFFICES ASSUME NEW v \in Range(list) \cap Range(list')
                PROVE  /\ v # imageviewer => viewer'[v] = viewer[v]
                       /\ tabs' # <<>> =>
                            \/ TextOf(v)' = viewer'[v].name
                            \/ tabs # <<>> /\ TextOf(v)' = TextOf(v)
    OBVIOUS
  <2>1. Place(v) \in DOMAIN list /\ list[Place(v)] = v
    BY DEF Place, Range
  <2>2. Place(v)' \in DOMAIN list' /\ list'[Place(v)'] = v
    BY DEF Place, Range
  <2>3. TextOf(v) = tabs[Place(v)] /\ TextOf(v)' = tabs'[Place(v)']
    BY DEF TextOf
  <2>4. /\ Scene'.list = list' /\ Scene'.viewer = viewer' /\ Scene'.tabs = tabs'
    BY DEF Scene
  <2>. QED  BY <1>1, <2>1, <2>2, <2>3, <2>4, SceneMembers DEF KeepsTexts
<1>2. Inv /\ [Next]_vars => [A]_vars
  BY <1>1, WindowSteps
<1>. QED  BY <1>2, InvHolds, PTL DEF Spec, TabsKeepTheirName

\* The fields of the bar, one set for all tabs, never show the format of a viewer
\* that is not the current one (mainwindow.cpp:123-181, 653-655).
THEOREM FieldsFollowTheTab ==
  Spec => FieldsFollowTab
<1>. DEFINE A ==
       /\ \/ ShowsFormat'
          \/ UNCHANGED <<bar, imageviewer>> /\ viewer'[imageviewer].info = viewer[imageviewer].info
          \/ \E fields \in Shown : Edit(fields)
       /\ \A v \in Range(list') \ Range(list) : viewer'[v].info = viewer[imageviewer].info
<1>1. ASSUME KeepsFields(Scene, Scene')  PROVE A
  <2>1. /\ Scene'.list = list' /\ Scene'.viewer = viewer'
        /\ Scene'.imageviewer = imageviewer' /\ Scene'.bar = bar'
    BY DEF Scene
  <2>2. \/ ShowsFormat'
        \/ UNCHANGED <<bar, imageviewer>> /\ viewer'[imageviewer].info = viewer[imageviewer].info
    BY <1>1, <2>1, SceneMembers DEF KeepsFields, ShowsFormat
  <2>3. \A v \in Range(list') \ Range(list) : viewer'[v].info = viewer[imageviewer].info
    BY <1>1, <2>1, SceneMembers DEF KeepsFields, Range
  <2>. QED  BY <2>2, <2>3
<1>2. ASSUME NEW fields \in Shown, Edit(fields), list' = list  PROVE A
  BY <1>2
<1>3. Inv /\ [Next]_vars => [A]_vars
  BY <1>1, <1>2, WindowSteps
<1>. QED  BY <1>3, InvHolds, PTL DEF Spec, FieldsFollowTab
=============================================================================
