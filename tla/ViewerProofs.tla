---------------------------- MODULE ViewerProofs ----------------------------
(***************************************************************************)
(* Theorems about Viewer.  What a handler makes of the scene is a          *)
(* composition of a few operators; each of them has a lemma that says what *)
(* it keeps, so that a handler only has to cite those of the calls it      *)
(* makes, in the order of the code.                                        *)
(*                                                                         *)
(* Between two calls of one handler the label may show an old pixmap and   *)
(* the pixmap may be one of an old angle or zoom.  So what every call keeps*)
(* (Sound) is told apart from what a handler restores at its end (Current),*)
(* and from what painting brings about (Fresh).                            *)
(*                                                                         *)
(* At the end, theorems about Navigation: which file a viewer shows next.  *)
(***************************************************************************)
EXTENDS Viewer, Navigation, SequenceTheorems, FiniteSetTheorems, TLAPS

ZoomRange == MinZoom .. MaxZoom

ViewerType ==
  [filename : Files \cup {NoFile}, empty : BOOLEAN,
   angle : 0 .. 3, ratio : ZoomRange,
   image : Pictures \cup {Garbage, Null}, at : Places,
   origin : Pictures \cup {Null}, pixmap : Pixmaps \cup {Null},
   isInit : BOOLEAN, angleTmp : 0 .. 3, ratioTmp : ZoomRange,
   listed : BOOLEAN]

BarType == [fit : BOOLEAN, al : BOOLEAN, bp : BOOLEAN, zoom : ZoomRange]

SceneType == [viewer : ViewerType, bar : BarType, label : Pixmaps \cup {Null}]

\* The viewer remembers the angle and the zoom of the pixmap it has.
Remembered(v) ==
  v.pixmap # Null => v.pixmap.angle = v.angleTmp /\ v.pixmap.ratio = v.ratioTmp

\* A viewer with an image was loaded once; one without is no view on a buffer.
Grounded(v) ==
  /\ HasImage(v) => v.origin \in Pictures
  /\ ~HasImage(v) => v.at = "own"

\* What holds of a viewer even in the middle of a load.
Loose(v) == v \in ViewerType /\ Remembered(v) /\ Grounded(v)

Original(v) ==
  ~v.empty => /\ v.image \in Pictures
              /\ v.origin = Picture(v.image.file, v.image.bayer)

Held(v) == ~v.empty => v.pixmap # Null /\ v.pixmap.pic = v.image

Sound(v) == Loose(v) /\ Original(v) /\ Held(v)
Fresh(v) == v.pixmap = Painted(v)

Well(s) == s \in SceneType /\ Sound(s.viewer)
Current(s) == s.label \in {Null, s.viewer.pixmap}

\* The inductive invariant.
Inv == Well(Scene) /\ Current(Scene)

-----------------------------------------------------------------------------
(* Zooms.                                                                  *)

LEMMA ZoomsInRange == Zooms \subseteq ZoomRange /\ 100 \in ZoomRange
BY ViewerAssumption DEF ZoomRange

\* Whatever is asked for, the zoom stays between its bounds.
LEMMA ClampInRange ==
  ASSUME NEW z \in Int
  PROVE  /\ Clamp(z) \in ZoomRange
         /\ z \in ZoomRange => Clamp(z) = z
BY ViewerAssumption DEF Clamp, ZoomRange

LEMMA StepsInRange ==
  ASSUME NEW z \in ZoomRange
  PROVE  Enlarged(z) \in ZoomRange /\ Lessened(z) \in ZoomRange
<1>. z \in Int
  BY ViewerAssumption DEF ZoomRange
<1>. QED  BY ClampInRange DEF Enlarged, Lessened

-----------------------------------------------------------------------------
(* The viewer.                                                             *)

\* Painting a viewer whose pixmap is that of its image, or that was told that it
\* is not, brings the pixmap up to date.
LEMMA PaintIsSound ==
  ASSUME NEW v, Loose(v), Original(v), HasImage(v), v.isInit \/ Held(v)
  PROVE  /\ Sound(Paint(v))
         /\ Paint(v).empty = v.empty
         /\ ~v.empty => Fresh(Paint(v))
<1>. USE DEF Loose, HasImage
<1>1. CASE UpToDate(v)
  <2>1. Paint(v) = v /\ ~v.isInit /\ Held(v) /\ v.ratioTmp = v.ratio /\ v.angleTmp = v.angle
    BY <1>1 DEF Paint, UpToDate
  <2>2. ASSUME ~v.empty  PROVE v.pixmap = Painted(v)
    <3>1. v.pixmap \in Pixmaps /\ v.pixmap.pic = v.image
      BY <2>1, <2>2 DEF Held, ViewerType
    <3>2. v.pixmap.angle = v.angle /\ v.pixmap.ratio = v.ratio
      BY <2>1, <3>1, ValuesAssumption DEF Remembered
    <3>. QED  BY <3>1, <3>2 DEF Pixmaps, Painted
  <2>. QED  BY <2>1, <2>2 DEF Sound, Fresh
<1>2. CASE ~UpToDate(v)
  <2>. DEFINE w == Paint(v)
  <2>1. w = [v EXCEPT !.pixmap = Painted(v), !.angleTmp = v.angle, !.ratioTmp = v.ratio]
    BY <1>2 DEF Paint, Painted
  <2>2. Painted(v) \in Pixmaps
    BY DEF Painted, Pixmaps, ViewerType, ZoomRange
  <2>3. Painted(v) # Null
    BY <2>2, ValuesAssumption
  <2>4. w \in ViewerType
    BY <2>1, <2>2 DEF ViewerType
  <2>5. /\ w.pixmap = Painted(v) /\ w.angleTmp = v.angle /\ w.ratioTmp = v.ratio
        /\ w.image = v.image /\ w.angle = v.angle /\ w.ratio = v.ratio /\ w.empty = v.empty
        /\ w.origin = v.origin /\ w.at = v.at
    BY <2>1 DEF ViewerType
  <2>6. Painted(v).pic = v.image /\ Painted(v).angle = v.angle /\ Painted(v).ratio = v.ratio
    BY DEF Painted
  <2>. HIDE DEF w
  <2>7. Loose(w) /\ Original(w) /\ Held(w)
    BY <2>3, <2>4, <2>5, <2>6 DEF Remembered, Grounded, Original, Held
  <2>8. Fresh(w)
    BY <2>5 DEF Fresh, Painted
  <2>. QED  BY <2>5, <2>7, <2>8 DEF Sound, w
<1>. QED  BY <1>1, <1>2

LEMMA SetZoomIsSound ==
  ASSUME NEW v, Sound(v), NEW z \in ZoomRange
  PROVE  /\ Sound(SetZoom(v, z))
         /\ SetZoom(v, z).empty = v.empty
         /\ ~v.empty => Fresh(SetZoom(v, z))
<1>. DEFINE u == [v EXCEPT !.ratio = Clamp(z)]
<1>1. Clamp(z) \in ZoomRange
  BY ClampInRange, ViewerAssumption DEF ZoomRange
<1>2. /\ u \in ViewerType
      /\ u.pixmap = v.pixmap /\ u.angleTmp = v.angleTmp /\ u.ratioTmp = v.ratioTmp
      /\ u.image = v.image /\ u.origin = v.origin /\ u.at = v.at /\ u.empty = v.empty
  BY <1>1 DEF Sound, Loose, ViewerType
<1>. HIDE DEF u
<1>3. Sound(u)
  BY <1>2 DEF Sound, Loose, Remembered, Grounded, HasImage, Original, Held
<1>4. ~v.empty => HasImage(v)
  BY ValuesAssumption DEF Sound, Original, HasImage
<1>5. SetZoom(v, z) = IF HasImage(v) THEN Paint(u) ELSE u
  BY DEF SetZoom, u
<1>6. HasImage(u) = HasImage(v)
  BY <1>2 DEF HasImage
<1>7. CASE HasImage(v)
  BY <1>2, <1>3, <1>5, <1>6, <1>7, PaintIsSound DEF Sound
<1>8. CASE ~HasImage(v)
  BY <1>2, <1>3, <1>4, <1>5, <1>8
<1>. QED  BY <1>7, <1>8

\* The light is put on the original picture, whatever was done to the other.
LEMMA SetLightIsSound ==
  ASSUME NEW v, Sound(v), NEW on \in BOOLEAN
  PROVE  /\ Sound(SetLight(v, on))
         /\ SetLight(v, on).empty = v.empty
         /\ ~v.empty => Fresh(SetLight(v, on))
<1>. DEFINE pic == [v.origin EXCEPT !.light = on]
            u == [Holding(v, pic) EXCEPT !.isInit = TRUE]
<1>1. ~v.empty => HasImage(v)
  BY ValuesAssumption DEF Sound, Original, HasImage
<1>2. CASE ~HasImage(v)
  BY <1>1, <1>2 DEF SetLight
<1>3. CASE HasImage(v)
  <2>1. v.origin \in Pictures
    BY <1>3 DEF Sound, Loose, Grounded
  <2>2. pic \in Pictures /\ pic.file = v.origin.file /\ pic.bayer = v.origin.bayer
    BY <2>1 DEF Pictures
  <2>. HIDE DEF pic
  <2>3. /\ u \in ViewerType
        /\ u.pixmap = v.pixmap /\ u.angleTmp = v.angleTmp /\ u.ratioTmp = v.ratioTmp
        /\ u.image = pic /\ u.origin = v.origin /\ u.empty = v.empty /\ u.isInit
    BY <2>2 DEF Sound, Loose, ViewerType, Holding, Places
  <2>4. SetLight(v, on) = Paint(u)
    BY <1>3 DEF SetLight, pic
  <2>. HIDE DEF u
  <2>5. HasImage(u)
    BY <2>2, <2>3, ValuesAssumption DEF HasImage
  <2>6. Loose(u)
    BY <2>1, <2>3, <2>5 DEF Sound, Loose, Remembered, Grounded
  <2>7. ASSUME ~v.empty  PROVE v.origin = Picture(v.origin.file, v.origin.bayer)
    <3>1. v.origin = Picture(v.image.file, v.image.bayer)
      BY <2>7 DEF Sound, Original
    <3>2. v.origin.file = v.image.file /\ v.origin.bayer = v.image.bayer
      BY <3>1 DEF Picture
    <3>. QED  BY <3>1, <3>2
  <2>8. Original(u)
    BY <2>2, <2>3, <2>7 DEF Original
  <2>. QED  BY <2>3, <2>4, <2>5, <2>6, <2>8, PaintIsSound
<1>. QED  BY <1>2, <1>3

LEMMA FlippedIsSound ==
  ASSUME NEW v, Sound(v), ~v.empty
  PROVE  Sound(Flipped(v)) /\ ~Flipped(v).empty /\ Fresh(Flipped(v))
<1>. DEFINE pic == [v.image EXCEPT !.flip = ~@]
            u == [Holding(v, pic) EXCEPT !.isInit = TRUE]
<1>1. v.image \in Pictures /\ v.origin = Picture(v.image.file, v.image.bayer)
  BY DEF Sound, Original
<1>2. pic \in Pictures /\ pic.file = v.image.file /\ pic.bayer = v.image.bayer
  BY <1>1 DEF Pictures
<1>. HIDE DEF pic
<1>3. /\ u \in ViewerType
      /\ u.pixmap = v.pixmap /\ u.angleTmp = v.angleTmp /\ u.ratioTmp = v.ratioTmp
      /\ u.image = pic /\ u.origin = v.origin /\ u.empty = v.empty /\ u.isInit
  BY <1>2 DEF Sound, Loose, ViewerType, Holding, Places
<1>4. Flipped(v) = Paint(u)
  BY DEF Flipped, pic
<1>. HIDE DEF u
<1>5. HasImage(v) /\ HasImage(u)
  BY <1>1, <1>2, <1>3, ValuesAssumption DEF HasImage
<1>6. Loose(u) /\ Original(u)
  BY <1>1, <1>2, <1>3, <1>5 DEF Sound, Loose, Remembered, Grounded, Original
<1>. QED  BY <1>3, <1>4, <1>5, <1>6, PaintIsSound

LEMMA SpunIsSound ==
  ASSUME NEW v, Sound(v), ~v.empty, NEW quarters \in {1, 3}
  PROVE  Sound(Spun(v, quarters)) /\ ~Spun(v, quarters).empty /\ Fresh(Spun(v, quarters))
<1>. DEFINE u == [v EXCEPT !.angle = (@ + quarters) % 4]
<1>1. v.angle \in 0 .. 3
  BY DEF Sound, Loose, ViewerType
<1>2. (v.angle + quarters) % 4 \in 0 .. 3
  BY <1>1
<1>3. /\ u \in ViewerType
      /\ u.pixmap = v.pixmap /\ u.angleTmp = v.angleTmp /\ u.ratioTmp = v.ratioTmp
      /\ u.image = v.image /\ u.origin = v.origin /\ u.empty = v.empty /\ u.at = v.at
  BY <1>2 DEF Sound, Loose, ViewerType
<1>4. Spun(v, quarters) = Paint(u)
  BY DEF Spun
<1>. HIDE DEF u
<1>5. HasImage(u)
  BY <1>3, ValuesAssumption DEF Sound, Original, HasImage
<1>6. Loose(u) /\ Original(u) /\ Held(u)
  BY <1>3, <1>5 DEF Sound, Loose, Remembered, Grounded, HasImage, Original, Held
<1>. QED  BY <1>3, <1>4, <1>5, <1>6, PaintIsSound

-----------------------------------------------------------------------------
(* Loading.                                                                *)

\* A load that succeeds leaves nothing of what was there before.
LEMMA LoadedIsSound ==
  ASSUME NEW v, v \in ViewerType,
         NEW f \in Files, NEW b \in BOOLEAN, v.image = Picture(f, b)
  PROVE  Sound(Loaded(v))
<1>. DEFINE u == [v EXCEPT !.isInit = TRUE]
            p == Painted(v)
            w == [u EXCEPT !.pixmap = p, !.angleTmp = v.angle, !.ratioTmp = v.ratio]
            x == Loaded(v)
<1>1. v.image \in Pictures /\ v.image.file = f /\ v.image.bayer = b
  BY DEF Picture, Pictures
<1>2. u \in ViewerType /\ u.isInit /\ Painted(u) = p
  BY DEF ViewerType, Painted
<1>3. Paint(u) = w
  BY <1>2 DEF Paint, UpToDate, Painted, ViewerType
<1>4. p \in Pixmaps /\ p.pic = v.image /\ p.angle = v.angle /\ p.ratio = v.ratio
  BY <1>1 DEF Painted, Pixmaps, ViewerType, ZoomRange
<1>. HIDE DEF p
<1>5. w \in ViewerType
  BY <1>2, <1>4 DEF ViewerType
<1>6. x = [w EXCEPT !.isInit = FALSE, !.empty = FALSE, !.origin = v.image]
  BY <1>3 DEF Loaded
<1>7. /\ x \in ViewerType
      /\ x.image = v.image /\ x.origin = v.image /\ x.pixmap = p
      /\ x.angleTmp = v.angle /\ x.ratioTmp = v.ratio
  BY <1>1, <1>5, <1>6 DEF ViewerType
<1>. HIDE DEF x
<1>8. HasImage(x) /\ p # Null
  BY <1>1, <1>4, <1>7, ValuesAssumption DEF HasImage
<1>9. Loose(x) /\ Original(x) /\ Held(x)
  BY <1>1, <1>4, <1>7, <1>8 DEF Loose, Remembered, Grounded, Original, Held
<1>. QED  BY <1>9 DEF Sound, x

\* After one that fails nothing is claimed of the picture any more.
LEMMA FailedIsSound ==
  ASSUME NEW v, Loose(v)
  PROVE  Sound(Failed(v))
<1>. DEFINE u == Failed(v)
<1>1. /\ u \in ViewerType /\ u.empty
      /\ u.pixmap = v.pixmap /\ u.angleTmp = v.angleTmp /\ u.ratioTmp = v.ratioTmp
      /\ u.image = v.image /\ u.origin = v.origin /\ u.at = v.at
  BY DEF Failed, Loose, ViewerType
<1>. HIDE DEF u
<1>2. Sound(u)
  BY <1>1 DEF Sound, Loose, Remembered, Grounded, HasImage, Original, Held
<1>. QED  BY <1>2 DEF u

\* Only an image that is a view on a buffer suffers when that is filled.
LEMMA FilledIsLoose ==
  ASSUME NEW v, Loose(v), NEW buffer \in {"in", "out"}, NEW grows \in BOOLEAN
  PROVE  Loose(Filled(v, buffer, grows))
<1>1. CASE v.at # buffer
  BY <1>1 DEF Filled
<1>2. CASE v.at = buffer
  <2>. DEFINE u == [v EXCEPT !.image = Garbage, !.at = IF grows THEN "freed" ELSE buffer]
  <2>1. HasImage(v)
    BY <1>2 DEF Loose, Grounded
  <2>2. /\ u \in ViewerType
        /\ u.pixmap = v.pixmap /\ u.angleTmp = v.angleTmp /\ u.ratioTmp = v.ratioTmp
        /\ u.image = Garbage /\ u.origin = v.origin
    BY DEF Loose, ViewerType, Places
  <2>3. Filled(v, buffer, grows) = u
    BY <1>2 DEF Filled
  <2>. HIDE DEF u
  <2>. QED  BY <2>1, <2>2, <2>3, ValuesAssumption DEF Loose, Remembered, Grounded, HasImage
<1>. QED  BY <1>1, <1>2

LEMMA SwappedIsLoose ==
  ASSUME NEW v, Loose(v)
  PROVE  Loose(Swapped(v))
<1>. DEFINE place == CASE v.at = "in" -> "out" [] v.at = "out" -> "in" [] OTHER -> v.at
            u == [v EXCEPT !.at = place]
<1>1. v.at \in Places
  BY DEF Loose, ViewerType
<1>2. place \in Places /\ (v.at = "own" => place = "own")
  BY <1>1 DEF Places
<1>3. Swapped(v) = u
  BY DEF Swapped
<1>. HIDE DEF place
<1>4. /\ u \in ViewerType /\ u.at = place
      /\ u.pixmap = v.pixmap /\ u.angleTmp = v.angleTmp /\ u.ratioTmp = v.ratioTmp
      /\ u.image = v.image /\ u.origin = v.origin
  BY <1>2 DEF Loose, ViewerType
<1>. HIDE DEF u
<1>. QED  BY <1>2, <1>3, <1>4 DEF Loose, Remembered, Grounded, HasImage

LEMMA InterruptedIsLoose ==
  ASSUME NEW v, Loose(v), NEW run \in Runs, run.ends = "midway"
  PROVE  Loose(Interrupted(v, run))
<1>1. run.links \in {1, 2} /\ run.grows \in BOOLEAN
  BY DEF Runs
<1>2. Loose(Filled(v, "in", run.grows))
  BY <1>1, FilledIsLoose
<1>3. Loose(Filled(Filled(v, "in", run.grows), "out", run.grows))
  BY <1>1, <1>2, FilledIsLoose
<1>4. \A u : Loose(u) => Loose(Filled(Swapped(u), "out", run.grows))
  BY <1>1, FilledIsLoose, SwappedIsLoose
<1>. QED  BY <1>2, <1>3, <1>4 DEF Interrupted

LEMMA HoldingIsLoose ==
  ASSUME NEW v, Loose(v), NEW pic \in Pictures \cup {Null}
  PROVE  /\ Holding(v, pic) \in ViewerType /\ Holding(v, pic).image = pic
         /\ pic = Null => Loose(Holding(v, pic))
<1>. DEFINE u == Holding(v, pic)
<1>1. /\ u \in ViewerType /\ u.at = "own"
      /\ u.pixmap = v.pixmap /\ u.angleTmp = v.angleTmp /\ u.ratioTmp = v.ratioTmp
      /\ u.image = pic /\ u.origin = v.origin
  BY DEF Holding, Loose, ViewerType, Places
<1>. HIDE DEF u
<1>2. pic = Null => Loose(u)
  BY <1>1 DEF Loose, Remembered, Grounded, HasImage
<1>. QED  BY <1>1, <1>2 DEF u

\* However a load ends, what the viewer claims is true.
LEMMA SetRawIsSound ==
  ASSUME NEW v, Sound(v), NEW bayer \in BOOLEAN, NEW run \in Runs
  PROVE  Sound(SetRaw(v, bayer, run))
<1>. USE DEF Sound
<1>1. v.filename \in Files \cup {NoFile} /\ NoFile \notin Files
  BY ViewerAssumption DEF Loose, ViewerType
<1>2. run.ends \in {"refused", "well", "midway"}
  BY DEF Runs
<1>3. CASE v.filename = NoFile
  <2>1. v.filename \notin ImageFiles /\ v.filename \notin RawFiles
    BY <1>1, <1>3 DEF Files
  <2>. QED  BY <1>3, <2>1 DEF SetRaw
<1>4. CASE v.filename \in ImageFiles
  <2>1. v.filename # NoFile
    BY <1>1, <1>4 DEF Files
  <2>2. v.filename \notin RawFiles
    BY <1>4, ViewerAssumption
  <2>3. SetRaw(v, bayer, run) =
          IF run.ends = "well" THEN Loaded(Holding(v, Picture(v.filename, FALSE)))
          ELSE Failed(Holding(v, Null))
    BY <1>4, <2>1, <2>2 DEF SetRaw
  <2>4. CASE run.ends = "well"
    <3>1. Picture(v.filename, FALSE) \in Pictures /\ v.filename \in Files
      BY <1>4 DEF Picture, Pictures, Files
    <3>2. Sound(Loaded(Holding(v, Picture(v.filename, FALSE))))
      BY <3>1, HoldingIsLoose, LoadedIsSound
    <3>. QED  BY <2>3, <2>4, <3>2
  <2>5. CASE run.ends # "well"
    BY <2>3, <2>5, HoldingIsLoose, FailedIsSound
  <2>. QED  BY <2>4, <2>5
<1>5. CASE v.filename \in RawFiles
  <2>1. v.filename # NoFile
    BY <1>1, <1>5 DEF Files
  <2>2. v.filename \notin ImageFiles
    BY <1>5, ViewerAssumption
  <2>. DEFINE u == [v EXCEPT !.image = Picture(v.filename, bayer), !.at = "out"]
  <2>3. SetRaw(v, bayer, run) =
          CASE run.ends = "refused" -> Failed(v)
            [] run.ends = "midway" -> Failed(Interrupted(v, run))
            [] run.ends = "well" -> Loaded(u)
    BY <1>5, <2>1, <2>2 DEF SetRaw
  <2>4. CASE run.ends = "refused"
    BY <2>3, <2>4, FailedIsSound
  <2>5. CASE run.ends = "midway"
    BY <2>3, <2>5, FailedIsSound, InterruptedIsLoose
  <2>6. CASE run.ends = "well"
    <3>1. Picture(v.filename, bayer) \in Pictures /\ v.filename \in Files
      BY <1>5 DEF Picture, Pictures, Files
    <3>2. u \in ViewerType /\ u.image = Picture(v.filename, bayer)
      BY <3>1 DEF Loose, ViewerType, Places
    <3>. HIDE DEF u
    <3>3. Sound(Loaded(u))
      BY <3>1, <3>2, LoadedIsSound
    <3>. QED  BY <2>3, <2>6, <3>3
  <2>. QED  BY <1>2, <2>4, <2>5, <2>6
<1>. QED  BY <1>1, <1>3, <1>4, <1>5 DEF Files

LEMMA ClosedIsSound ==
  ASSUME NEW v, Sound(v)
  PROVE  Sound(Closed(v))
<1>. DEFINE h == Holding(v, Null)
            u == Closed(v)
<1>1. h \in ViewerType /\ h.image = Null /\ h.at = "own"
  BY DEF Sound, Loose, ViewerType, Holding, Places
<1>2. u = [h EXCEPT !.filename = NoFile, !.empty = TRUE, !.listed = FALSE, !.pixmap = Null]
  BY DEF Closed
<1>. HIDE DEF h
<1>3. u \in ViewerType /\ u.empty /\ u.image = Null /\ u.at = "own" /\ u.pixmap = Null
  BY <1>1, <1>2 DEF ViewerType
<1>. HIDE DEF u
<1>4. Sound(u)
  BY <1>3 DEF Sound, Loose, Remembered, Grounded, HasImage, Original, Held
<1>. QED  BY <1>4 DEF u

-----------------------------------------------------------------------------
(* The window and the bar.                                                 *)

\* The viewer of a scene may be replaced by any other sound one.
LEMMA WithViewer ==
  ASSUME NEW s, Well(s), NEW v, Sound(v)
  PROVE  /\ Well([s EXCEPT !.viewer = v])
         /\ [s EXCEPT !.viewer = v].viewer = v
         /\ [s EXCEPT !.viewer = v].bar = s.bar
         /\ [s EXCEPT !.viewer = v].label = s.label
<1>1. v \in ViewerType
  BY DEF Sound, Loose
<1>. QED  BY <1>1 DEF Well, SceneType

LEMMA WithBar ==
  ASSUME NEW s, Well(s), NEW b \in BarType
  PROVE  /\ Well([s EXCEPT !.bar = b])
         /\ [s EXCEPT !.bar = b].viewer = s.viewer
         /\ [s EXCEPT !.bar = b].bar = b
         /\ [s EXCEPT !.bar = b].label = s.label
BY DEF Well, SceneType

LEMMA LabelledIsCurrent ==
  ASSUME NEW s, Well(s)
  PROVE  /\ Well(Labelled(s)) /\ Current(Labelled(s))
         /\ Labelled(s).viewer = s.viewer /\ Labelled(s).bar = s.bar
<1>1. s.viewer.pixmap \in Pixmaps \cup {Null}
  BY DEF Well, Sound, Loose, ViewerType
<1>. QED  BY <1>1 DEF Well, SceneType, Labelled, Current

LEMMA ClearedIsCurrent ==
  ASSUME NEW s, Well(s)
  PROVE  Well(Cleared(s)) /\ Current(Cleared(s))
BY DEF Well, SceneType, Cleared, Current

\* What every call of the window keeps: a scene that is well, the label if it was
\* current, and a pixmap that was up to date.
Keeps(s, t) ==
  /\ Well(t)
  /\ Current(s) => Current(t)
  /\ t.viewer.empty = s.viewer.empty
  /\ ~s.viewer.empty /\ Fresh(s.viewer) => Fresh(t.viewer)

LEMMA ZoomActionKeeps ==
  ASSUME NEW s, Well(s), NEW z \in ZoomRange
  PROVE  /\ Keeps(s, ZoomAction(s, z))
         /\ ~s.viewer.empty => Fresh(ZoomAction(s, z).viewer)
<1>1. CASE s.viewer.empty
  BY <1>1 DEF ZoomAction, Keeps
<1>2. CASE ~s.viewer.empty
  <2>. DEFINE b == [s.bar EXCEPT !.fit = FALSE]
              v == SetZoom(s.viewer, z)
              r == [s EXCEPT !.bar = b]
              t == [r EXCEPT !.viewer = v]
  <2>1. s \in SceneType /\ s.bar \in BarType
    BY DEF Well, SceneType
  <2>2. b \in BarType
    BY <2>1 DEF BarType
  <2>3. Sound(v) /\ v.empty = s.viewer.empty /\ Fresh(v)
    BY <1>2, SetZoomIsSound DEF Well
  <2>4. ZoomAction(s, z) = Labelled(t)
    BY <1>2, <2>1 DEF ZoomAction, SceneType
  <2>. HIDE DEF b, v
  <2>5. Well(r)
    BY <2>2, WithBar
  <2>. HIDE DEF r
  <2>6. Well(t) /\ t.viewer = v
    BY <2>3, <2>5, WithViewer
  <2>. HIDE DEF t
  <2>. QED  BY <1>2, <2>3, <2>4, <2>6, LabelledIsCurrent DEF Keeps
<1>. QED  BY <1>1, <1>2

LEMMA BarZoomKeeps ==
  ASSUME NEW s, Well(s), NEW z \in ZoomRange
  PROVE  Keeps(s, BarZoom(s, z))
<1>. DEFINE b == [s.bar EXCEPT !.zoom = z]
            t == [s EXCEPT !.bar = b]
<1>1. s \in SceneType /\ s.bar \in BarType
  BY DEF Well, SceneType
<1>2. b \in BarType
  BY <1>1 DEF BarType
<1>3. BarZoom(s, z) = IF s.bar.zoom = z \/ z = s.viewer.ratio THEN t ELSE ZoomAction(t, z)
  BY <1>1 DEF BarZoom, SceneType
<1>. HIDE DEF b
<1>4. Well(t) /\ t.viewer = s.viewer /\ t.label = s.label
  BY <1>2, WithBar
<1>. HIDE DEF t
<1>5. Keeps(s, t)
  BY <1>4 DEF Keeps, Current
<1>6. Keeps(s, ZoomAction(t, z))
  BY <1>4, <1>5, ZoomActionKeeps DEF Keeps
<1>. QED  BY <1>3, <1>5, <1>6

LEMMA FittedKeeps ==
  ASSUME NEW s, Well(s), NEW z \in ZoomRange
  PROVE  Keeps(s, Fitted(s, z))
<1>. DEFINE t == BarZoom(s, z)
            b == [t.bar EXCEPT !.fit = TRUE]
            u == [t EXCEPT !.bar = b]
<1>1. Keeps(s, t)
  BY BarZoomKeeps
<1>2. t \in SceneType /\ t.bar \in BarType
  BY <1>1 DEF Keeps, Well, SceneType
<1>3. Fitted(s, z) = IF s.bar.fit THEN u ELSE s
  BY <1>2 DEF Fitted, SceneType
<1>. HIDE DEF t
<1>4. b \in BarType
  BY <1>2 DEF BarType
<1>. HIDE DEF b
<1>5. Well(u) /\ u.viewer = t.viewer /\ u.label = t.label
  BY <1>1, <1>4, WithBar DEF Keeps
<1>. HIDE DEF u
<1>6. Keeps(s, u) /\ Keeps(s, s)
  BY <1>1, <1>5 DEF Keeps, Current
<1>. QED  BY <1>3, <1>6

\* loadImageResource(false) puts the label right, whatever was done before.
LEMMA ShowIsCurrent ==
  ASSUME NEW s, Well(s), NEW z \in ZoomRange
  PROVE  Keeps(s, Show(s, z)) /\ Current(Show(s, z))
BY FittedKeeps, LabelledIsCurrent DEF Show, Keeps

LEMMA LitIsCurrent ==
  ASSUME NEW s, Well(s), NEW on \in BOOLEAN, NEW z \in ZoomRange
  PROVE  /\ Well(Lit(s, on, z)) /\ Current(Lit(s, on, z))
         /\ ~s.viewer.empty => Fresh(Lit(s, on, z).viewer)
<1>. DEFINE v == SetLight(s.viewer, on)
            t == [s EXCEPT !.viewer = v]
<1>1. Sound(v) /\ v.empty = s.viewer.empty /\ (~s.viewer.empty => Fresh(v))
  BY SetLightIsSound DEF Well
<1>2. Lit(s, on, z) = Show(t, z)
  BY DEF Lit
<1>. HIDE DEF v
<1>3. Well(t) /\ t.viewer = v
  BY <1>1, WithViewer
<1>. HIDE DEF t
<1>4. Keeps(t, Show(t, z)) /\ Current(Show(t, z))
  BY <1>3, ShowIsCurrent
<1>. QED  BY <1>1, <1>2, <1>3, <1>4 DEF Keeps

LEMMA ResetALKeeps ==
  ASSUME NEW s, Well(s), NEW z \in ZoomRange
  PROVE  Well(ResetAL(s, z)) /\ (Current(s) => Current(ResetAL(s, z)))
<1>. DEFINE b == [s.bar EXCEPT !.al = FALSE]
            t == [s EXCEPT !.bar = b]
<1>1. s \in SceneType /\ s.bar \in BarType
  BY DEF Well, SceneType
<1>2. b \in BarType
  BY <1>1 DEF BarType
<1>3. ResetAL(s, z) = IF s.bar.al THEN Lit(t, FALSE, z) ELSE s
  BY <1>1 DEF ResetAL, SceneType
<1>. HIDE DEF b
<1>4. Well(t)
  BY <1>2, WithBar
<1>. HIDE DEF t
<1>. QED  BY <1>3, <1>4, LitIsCurrent

LEMMA SubmittedIsCurrent ==
  ASSUME NEW s, Well(s), NEW run \in Runs, NEW z \in ZoomRange
  PROVE  Well(Submitted(s, run, z)) /\ Current(Submitted(s, run, z))
<1>. DEFINE v == SetRaw(s.viewer, s.bar.bp, run)
            t == [s EXCEPT !.viewer = v]
<1>1. s.bar.bp \in BOOLEAN
  BY DEF Well, SceneType, BarType
<1>2. Sound(v)
  BY <1>1, SetRawIsSound DEF Well
<1>3. Submitted(s, run, z) =
        IF Succeeds(s.viewer, run) THEN Show(ResetAL(t, z), z) ELSE Cleared(t)
  BY DEF Submitted
<1>. HIDE DEF v
<1>4. Well(t)
  BY <1>2, WithViewer
<1>. HIDE DEF t
<1>5. Well(Show(ResetAL(t, z), z)) /\ Current(Show(ResetAL(t, z), z))
  BY <1>4, ResetALKeeps, ShowIsCurrent DEF Keeps
<1>. QED  BY <1>3, <1>4, <1>5, ClearedIsCurrent

LEMMA ReloadedIsCurrent ==
  ASSUME NEW s, Well(s), NEW run \in Runs, NEW z \in ZoomRange
  PROVE  Well(Reloaded(s, run, z)) /\ Current(Reloaded(s, run, z))
BY SubmittedIsCurrent, ShowIsCurrent DEF Reloaded, Keeps

-----------------------------------------------------------------------------
(* The handlers.                                                           *)

LEMMA InitInv == Init => Inv
<1>. SUFFICES ASSUME Init  PROVE Inv
  OBVIOUS
<1>1. viewer \in ViewerType /\ bar \in BarType /\ label \in Pixmaps \cup {Null}
  BY ZoomsInRange DEF Init, ViewerType, BarType, Places
<1>2. Scene \in SceneType /\ Scene.viewer = viewer /\ Scene.label = label
  BY <1>1 DEF Scene, SceneType
<1>3. Sound(viewer)
  BY <1>1 DEF Init, Sound, Loose, Remembered, Grounded, HasImage, Original, Held
<1>. QED  BY <1>2, <1>3 DEF Inv, Well, Current, Init

\* A step that makes the scene s makes it the next one.
LEMMA BecomeInv ==
  ASSUME NEW s, Well(s), Current(s), Become(s)
  PROVE  Inv' /\ viewer' = s.viewer
<1>1. s = [viewer |-> s.viewer, bar |-> s.bar, label |-> s.label]
  BY DEF Well, SceneType
<1>2. Scene' = s
  BY <1>1 DEF Become, Scene
<1>. QED  BY <1>2 DEF Inv, Become, Well, Current

\* What is known of a scene only its viewer's name, list, angle or zoom of which
\* were set.
LEMMA Touched ==
  ASSUME Inv, NEW v, v \in ViewerType,
         v.empty = viewer.empty, v.image = viewer.image, v.at = viewer.at,
         v.origin = viewer.origin, v.pixmap = viewer.pixmap,
         v.angleTmp = viewer.angleTmp, v.ratioTmp = viewer.ratioTmp
  PROVE  Well([Scene EXCEPT !.viewer = v]) /\ Current([Scene EXCEPT !.viewer = v])
<1>1. Scene.viewer = viewer /\ Well(Scene) /\ Current(Scene)
  BY DEF Inv, Scene
<1>2. Sound(v)
  BY <1>1 DEF Well, Sound, Loose, Remembered, Grounded, HasImage, Original, Held
<1>. QED  BY <1>1, <1>2, WithViewer DEF Current

LEMMA InScene ==
  ASSUME Inv
  PROVE  /\ Well(Scene) /\ Current(Scene)
         /\ Scene.viewer = viewer /\ Scene.bar = bar /\ Scene.label = label
         /\ viewer \in ViewerType /\ bar \in BarType /\ Sound(viewer)
<1>1. Scene.viewer = viewer /\ Scene.bar = bar /\ Scene.label = label
  BY DEF Scene
<1>2. viewer \in ViewerType /\ bar \in BarType
  BY <1>1 DEF Inv, Well, SceneType
<1>. QED  BY <1>1, <1>2 DEF Inv, Well

LEMMA OpenKeeps ==
  ASSUME Inv, NEW f \in Files, Open(f)
  PROVE  Inv'
<1>1. PICK run \in Runs, z \in Zooms, some \in BOOLEAN :
        Become(Reloaded(ResetAL([Scene EXCEPT !.viewer.filename = f, !.viewer.listed = some], z),
                        run, z))
  BY DEF Open
<1>. DEFINE v == [viewer EXCEPT !.filename = f, !.listed = some]
            s == [Scene EXCEPT !.viewer = v]
<1>2. s = [Scene EXCEPT !.viewer.filename = f, !.viewer.listed = some]
  BY DEF Scene
<1>3. Well(s) /\ Current(s)
  BY InScene, Touched DEF ViewerType
<1>4. z \in ZoomRange
  BY ZoomsInRange
<1>. HIDE DEF s
<1>. DEFINE t == Reloaded(ResetAL(s, z), run, z)
<1>5. Well(t) /\ Current(t)
  BY <1>3, <1>4, ResetALKeeps, ReloadedIsCurrent
<1>6. Become(t)
  BY <1>1, <1>2
<1>. HIDE DEF t
<1>. QED  BY <1>5, <1>6, BecomeInv

LEMMA NamingKeeps ==
  ASSUME Inv
  PROVE  (\E f \in Files : Navigate(f)) \/ OpenNothing \/ NothingToNavigate \/ Delete => Inv'
<1>1. ASSUME NEW f \in Files, Navigate(f)  PROVE Inv'
  <2>. DEFINE v == [viewer EXCEPT !.filename = f]
              s == [Scene EXCEPT !.viewer = v]
  <2>1. Well(s) /\ Current(s)
    BY InScene, Touched DEF ViewerType
  <2>2. Become(s)
    BY <1>1 DEF Navigate, Scene
  <2>. HIDE DEF s
  <2>. QED  BY <2>1, <2>2, BecomeInv
<1>2. ASSUME OpenNothing  PROVE Inv'
  <2>. DEFINE v == [viewer EXCEPT !.filename = NoFile]
              s == [Scene EXCEPT !.viewer = v]
  <2>1. Well(s)
    BY InScene, Touched DEF ViewerType
  <2>2. Become(Cleared(s))
    BY <1>2 DEF OpenNothing, Scene
  <2>. HIDE DEF s
  <2>. QED  BY <2>1, <2>2, ClearedIsCurrent, BecomeInv
<1>3. ASSUME NothingToNavigate  PROVE Inv'
  BY <1>3, InScene, ClearedIsCurrent, BecomeInv DEF NothingToNavigate
<1>4. ASSUME Delete  PROVE Inv'
  <2>1. PICK some \in BOOLEAN : Become(Cleared([Scene EXCEPT !.viewer.listed = some]))
    BY <1>4 DEF Delete
  <2>. DEFINE v == [viewer EXCEPT !.listed = some]
              s == [Scene EXCEPT !.viewer = v]
  <2>2. Well(s)
    BY InScene, Touched DEF ViewerType
  <2>3. Become(Cleared(s))
    BY <2>1 DEF Scene
  <2>. HIDE DEF s
  <2>. QED  BY <2>2, <2>3, ClearedIsCurrent, BecomeInv
<1>. QED  BY <1>1, <1>2, <1>3, <1>4

LEMMA LoadingKeeps ==
  ASSUME Inv
  PROVE  ProcessBtnClicked \/ HardFormat \/ ResizeEvent => Inv'
BY InScene, ZoomsInRange, SubmittedIsCurrent, ReloadedIsCurrent, ShowIsCurrent, BecomeInv
   DEF ProcessBtnClicked, HardFormat, ResizeEvent, Keeps

LEMMA SetALKeeps ==
  ASSUME Inv, NEW on \in BOOLEAN, SetAL(on)
  PROVE  Inv' /\ (~viewer.empty => Fresh(viewer'))
<1>1. PICK z \in Zooms : Become(Lit([Scene EXCEPT !.bar.al = on], on, z))
  BY DEF SetAL
<1>. DEFINE b == [bar EXCEPT !.al = on]
            s == [Scene EXCEPT !.bar = b]
<1>2. b \in BarType
  BY InScene DEF BarType
<1>3. s = [Scene EXCEPT !.bar.al = on]
  BY DEF Scene
<1>. HIDE DEF b
<1>4. Well(s) /\ s.viewer = viewer
  BY <1>2, InScene, WithBar
<1>. HIDE DEF s
<1>. DEFINE t == Lit(s, on, z)
<1>5. Well(t) /\ Current(t) /\ (~viewer.empty => Fresh(t.viewer))
  BY <1>4, ZoomsInRange, LitIsCurrent
<1>6. Become(t)
  BY <1>1, <1>3
<1>. HIDE DEF t
<1>. QED  BY <1>5, <1>6, BecomeInv

LEMMA SetFitKeeps ==
  ASSUME Inv, NEW on \in BOOLEAN, SetFit(on)
  PROVE  Inv'
<1>1. PICK z \in Zooms : Become(Fitted([Scene EXCEPT !.bar.fit = on], z))
  BY DEF SetFit
<1>. DEFINE b == [bar EXCEPT !.fit = on]
            s == [Scene EXCEPT !.bar = b]
<1>2. b \in BarType
  BY InScene DEF BarType
<1>3. s = [Scene EXCEPT !.bar.fit = on]
  BY DEF Scene
<1>. HIDE DEF b
<1>4. Well(s) /\ Current(s)
  BY <1>2, InScene, WithBar DEF Current
<1>. HIDE DEF s
<1>5. Keeps(s, Fitted(s, z))
  BY <1>4, ZoomsInRange, FittedKeeps
<1>6. Become(Fitted(s, z))
  BY <1>1, <1>3
<1>. QED  BY <1>4, <1>5, <1>6, BecomeInv DEF Keeps

LEMMA SetBPKeeps ==
  ASSUME Inv, NEW on \in BOOLEAN, NEW applies \in BOOLEAN, SetBP(on, applies)
  PROVE  Inv'
<1>. DEFINE b == [bar EXCEPT !.bp = on]
            s == [Scene EXCEPT !.bar = b]
<1>1. b \in BarType
  BY InScene DEF BarType
<1>2. s = [Scene EXCEPT !.bar.bp = on]
  BY DEF Scene
<1>. HIDE DEF b
<1>3. Well(s) /\ Current(s) /\ s.viewer = viewer
  BY <1>1, InScene, WithBar DEF Current
<1>. HIDE DEF s
<1>4. CASE ~applies \/ viewer.empty
  <2>1. Become(s)
    BY <1>2, <1>4 DEF SetBP
  <2>. QED  BY <1>3, <2>1, BecomeInv
<1>5. CASE ~(~applies \/ viewer.empty)
  <2>1. PICK run \in Runs, z \in Zooms :
          LET loaded == [s EXCEPT !.viewer = SetRaw(@, on, run)]
          IN  Become(IF Succeeds(viewer, run) THEN Show(loaded, z) ELSE Cleared(loaded))
    BY <1>2, <1>5 DEF SetBP
  <2>. DEFINE v == SetRaw(s.viewer, on, run)
              t == [s EXCEPT !.viewer = v]
  <2>2. Sound(v)
    BY <1>3, SetRawIsSound DEF Well
  <2>3. Become(IF Succeeds(viewer, run) THEN Show(t, z) ELSE Cleared(t))
    BY <2>1
  <2>. HIDE DEF v
  <2>4. Well(t)
    BY <1>3, <2>2, WithViewer
  <2>. HIDE DEF t
  <2>5. Well(Show(t, z)) /\ Current(Show(t, z)) /\ Well(Cleared(t)) /\ Current(Cleared(t))
    BY <2>4, ZoomsInRange, ShowIsCurrent, ClearedIsCurrent DEF Keeps
  <2>. QED  BY <2>3, <2>5, BecomeInv
<1>. QED  BY <1>4, <1>5

LEMMA ZoomMovedKeeps ==
  ASSUME Inv, NEW z \in Zooms, ZoomMoved(z)
  PROVE  Inv'
<1>1. Keeps(Scene, BarZoom(Scene, z)) /\ Become(BarZoom(Scene, z))
  BY InScene, ZoomsInRange, BarZoomKeeps DEF ZoomMoved
<1>. QED  BY <1>1, InScene, BecomeInv DEF Keeps

LEMMA ZoomStepKeeps ==
  ASSUME Inv, NEW z \in ZoomRange, ZoomStep(z)
  PROVE  Inv' /\ Fresh(viewer')
<1>. DEFINE v == [viewer EXCEPT !.ratio = z]
            s == [Scene EXCEPT !.viewer = v]
            t == BarZoom(s, z)
            u == ZoomAction(t, z)
<1>1. v \in ViewerType /\ v.empty = viewer.empty
  BY InScene DEF ViewerType
<1>2. Well(s) /\ Current(s) /\ s.viewer = v
  BY <1>1, InScene, Touched DEF ViewerType, Scene
<1>3. ~viewer.empty /\ Become(u)
  BY DEF ZoomStep, Scene
<1>. HIDE DEF v
<1>. HIDE DEF s
<1>4. Keeps(s, t)
  BY <1>2, BarZoomKeeps
<1>. HIDE DEF t
<1>5. Well(u) /\ Current(u) /\ Fresh(u.viewer)
  BY <1>1, <1>2, <1>3, <1>4, ZoomActionKeeps DEF Keeps
<1>. HIDE DEF u
<1>. QED  BY <1>3, <1>5, BecomeInv

LEMMA SpinKeeps ==
  ASSUME Inv, NEW quarters \in {1, 3}, Spin(quarters)
  PROVE  Inv' /\ Fresh(viewer')
<1>1. PICK z \in Zooms : Become(Show([Scene EXCEPT !.viewer = Spun(@, quarters)], z))
  BY DEF Spin
<1>. DEFINE v == Spun(viewer, quarters)
            s == [Scene EXCEPT !.viewer = v]
<1>2. Sound(v) /\ ~v.empty /\ Fresh(v)
  BY InScene, SpunIsSound DEF Spin
<1>3. s = [Scene EXCEPT !.viewer = Spun(@, quarters)]
  BY DEF Scene
<1>. HIDE DEF v
<1>4. Well(s) /\ s.viewer = v
  BY <1>2, InScene, WithViewer
<1>. HIDE DEF s
<1>5. Keeps(s, Show(s, z)) /\ Current(Show(s, z)) /\ Become(Show(s, z))
  BY <1>1, <1>3, <1>4, ZoomsInRange, ShowIsCurrent
<1>. QED  BY <1>2, <1>4, <1>5, BecomeInv DEF Keeps

LEMMA FlipKeeps ==
  ASSUME Inv, Flip
  PROVE  Inv' /\ Fresh(viewer')
<1>1. PICK z \in Zooms : Become(Show([Scene EXCEPT !.viewer = Flipped(@)], z))
  BY DEF Flip
<1>. DEFINE v == Flipped(viewer)
            s == [Scene EXCEPT !.viewer = v]
<1>2. Sound(v) /\ ~v.empty /\ Fresh(v)
  BY InScene, FlippedIsSound DEF Flip
<1>3. s = [Scene EXCEPT !.viewer = Flipped(@)]
  BY DEF Scene
<1>. HIDE DEF v
<1>4. Well(s) /\ s.viewer = v
  BY <1>2, InScene, WithViewer
<1>. HIDE DEF s
<1>5. Keeps(s, Show(s, z)) /\ Current(Show(s, z)) /\ Become(Show(s, z))
  BY <1>1, <1>3, <1>4, ZoomsInRange, ShowIsCurrent
<1>. QED  BY <1>2, <1>4, <1>5, BecomeInv DEF Keeps

LEMMA ResetKeeps ==
  ASSUME Inv, Reset
  PROVE  Inv'
<1>. DEFINE b == [bar EXCEPT !.fit = FALSE]
            s == [Scene EXCEPT !.bar = b]
            t == BarZoom(s, 100)
            r == [t.viewer EXCEPT !.angle = 0]
            v == [r EXCEPT !.ratio = 100]
            u == [t EXCEPT !.viewer = v]
<1>1. b \in BarType
  BY InScene DEF BarType
<1>2. s = [Scene EXCEPT !.bar.fit = FALSE]
  BY DEF Scene
<1>3. Well(s)
  BY <1>1, InScene, WithBar
<1>4. PICK run \in Runs, z \in Zooms :
        Become(Reloaded([t EXCEPT !.viewer.angle = 0, !.viewer.ratio = 100], run, z))
  BY <1>2 DEF Reset
<1>. HIDE DEF s
<1>5. Well(t)
  BY <1>3, ZoomsInRange, BarZoomKeeps DEF Keeps
<1>. HIDE DEF t
<1>6. t \in SceneType /\ t.viewer \in ViewerType /\ Sound(t.viewer)
  BY <1>5 DEF Well, SceneType
<1>7. u = [t EXCEPT !.viewer.angle = 0, !.viewer.ratio = 100]
  BY <1>6 DEF SceneType
<1>8. /\ v \in ViewerType /\ v.empty = t.viewer.empty /\ v.image = t.viewer.image
      /\ v.at = t.viewer.at /\ v.origin = t.viewer.origin /\ v.pixmap = t.viewer.pixmap
      /\ v.angleTmp = t.viewer.angleTmp /\ v.ratioTmp = t.viewer.ratioTmp
  <2>1. /\ r \in ViewerType /\ r.empty = t.viewer.empty /\ r.image = t.viewer.image
        /\ r.at = t.viewer.at /\ r.origin = t.viewer.origin /\ r.pixmap = t.viewer.pixmap
        /\ r.angleTmp = t.viewer.angleTmp /\ r.ratioTmp = t.viewer.ratioTmp
    BY <1>6 DEF ViewerType
  <2>. HIDE DEF r
  <2>. QED  BY <2>1, ZoomsInRange DEF ViewerType
<1>. HIDE DEF v
<1>9. Sound(v)
  BY <1>6, <1>8 DEF Sound, Loose, Remembered, Grounded, HasImage, Original, Held
<1>10. Well(u)
  BY <1>5, <1>9, WithViewer
<1>. HIDE DEF u
<1>11. Well(Reloaded(u, run, z)) /\ Current(Reloaded(u, run, z))
  BY <1>10, ZoomsInRange, ReloadedIsCurrent
<1>. QED  BY <1>4, <1>7, <1>11, BecomeInv

LEMMA CloseKeeps ==
  ASSUME Inv, Close
  PROVE  Inv'
<1>. DEFINE s == [Scene EXCEPT !.viewer = Closed(viewer)]
<1>1. Well(s)
  BY InScene, ClosedIsSound, WithViewer
<1>2. Become(Cleared(s))
  BY DEF Close, Scene
<1>. HIDE DEF s
<1>. QED  BY <1>1, <1>2, ClearedIsCurrent, BecomeInv

LEMMA StepInv == Inv /\ [Next]_vars => Inv'
<1>. SUFFICES ASSUME Inv, [Next]_vars  PROVE Inv'
  OBVIOUS
<1>1. CASE \E f \in Files : Open(f) \/ Navigate(f)
  BY <1>1, OpenKeeps, NamingKeeps
<1>2. CASE OpenNothing \/ NothingToNavigate \/ Delete
  BY <1>2, NamingKeeps
<1>3. CASE ProcessBtnClicked \/ HardFormat \/ ResizeEvent
  BY <1>3, LoadingKeeps
<1>4. CASE \E on \in BOOLEAN : SetAL(on) \/ SetFit(on) \/ \E applies \in BOOLEAN : SetBP(on, applies)
  BY <1>4, SetALKeeps, SetFitKeeps, SetBPKeeps
<1>5. CASE \E z \in Zooms : ZoomMoved(z)
  BY <1>5, ZoomMovedKeeps
<1>6. CASE ToEnlarge \/ ToLessen
  <2>1. Enlarged(viewer.ratio) \in ZoomRange /\ Lessened(viewer.ratio) \in ZoomRange
    BY InScene, StepsInRange DEF ViewerType
  <2>. QED  BY <1>6, <2>1, ZoomStepKeeps DEF ToEnlarge, ToLessen
<1>7. CASE Spin(1) \/ Spin(3)
  BY <1>7, SpinKeeps
<1>8. CASE Flip
  BY <1>8, FlipKeeps
<1>9. CASE Reset
  BY <1>9, ResetKeeps
<1>10. CASE Close
  BY <1>10, CloseKeeps
<1>11. CASE UNCHANGED vars
  BY <1>11 DEF vars, Inv, Scene, Well, Current
<1>. QED
  BY <1>1, <1>2, <1>3, <1>4, <1>5, <1>6, <1>7, <1>8, <1>9, <1>10, <1>11 DEF Next

LEMMA Invariance == Spec => []Inv
BY InitInv, StepInv, PTL DEF Spec

-----------------------------------------------------------------------------
\* The members of the viewer, the boxes and the label keep their types, a zoom out
\* of its bounds and a pixmap without a picture included.
THEOREM TypeCorrect == Spec => []TypeOK
<1>1. Inv => TypeOK
  BY DEF Inv, Well, SceneType, Scene, ViewerType, BarType, ZoomRange, TypeOK
<1>. QED  BY <1>1, Invariance, PTL

\* Whatever loads did to the buffers its image is a view on, a viewer that says it
\* has a picture still has the one that was painted last.
THEOREM ShownPictureIsHeld == Spec => []ShownIsHeld
<1>1. Inv => ShownIsHeld
  BY InScene DEF Sound, Held, ShownIsHeld
<1>. QED  BY <1>1, Invariance, PTL

\* No handler leaves an old pixmap on the label.
THEOREM LabelFollows == Spec => []LabelIsCurrent
<1>1. Inv => LabelIsCurrent
  BY InScene DEF Current, LabelIsCurrent
<1>. QED  BY <1>1, Invariance, PTL

\* Light is always computed from the file that is shown, as it was loaded.
THEOREM OriginStaysPristine == Spec => []OriginIsPristine
<1>1. Inv => OriginIsPristine
  BY InScene DEF Sound, Original, OriginIsPristine
<1>. QED  BY <1>1, Invariance, PTL

\* After a turn, a flip, a step of the zoom or a change of light the pixmap is the
\* image at the viewer's angle and zoom, although painting may be skipped.
THEOREM NothingStaysUnpainted == Spec => HandlersRepaint
<1>. DEFINE Handler == Spin(1) \/ Spin(3) \/ Flip \/ ToEnlarge \/ ToLessen \/ SetAL(TRUE) \/ SetAL(FALSE)
            A == Handler /\ ~viewer.empty => viewer'.pixmap = Painted(viewer')
<1>1. ASSUME Inv, Handler, ~viewer.empty  PROVE Fresh(viewer')
  <2>1. Enlarged(viewer.ratio) \in ZoomRange /\ Lessened(viewer.ratio) \in ZoomRange
    BY <1>1, InScene, StepsInRange DEF ViewerType
  <2>. QED
    BY <1>1, <2>1, SpinKeeps, FlipKeeps, ZoomStepKeeps, SetALKeeps DEF ToEnlarge, ToLessen
<1>2. Inv /\ [Next]_vars => [A]_vars
  BY <1>1 DEF Fresh
<1>. QED  BY <1>2, Invariance, PTL DEF Spec, HandlersRepaint

-----------------------------------------------------------------------------
(* Which file comes next (Navigation), for any files, in the order of their*)
(* names, and any directories.                                             *)

(* The directories the tree went to.                                       *)

HistType == [back : Seq(Dirs), forth : Seq(Dirs)]

\* None is kept twice in a row.
Remembers(h) ==
  /\ h \in HistType /\ h.back # <<>>
  /\ \A i \in 1 .. Len(h.back) - 1 : h.back[i] # h.back[i + 1]

LEMMA LastOfAppend ==
  ASSUME NEW S, NEW seq \in Seq(S), NEW e \in S
  PROVE  /\ Last(Append(seq, e)) = e
         /\ Front(Append(seq, e)) = seq
<1>. DEFINE a == Append(seq, e)
            f == SubSeq(a, 1, Len(a) - 1)
<1>1. /\ a \in Seq(S) /\ Len(a) = Len(seq) + 1 /\ Len(seq) \in Nat
      /\ \A i \in 1 .. Len(seq) : a[i] = seq[i]
      /\ a[Len(seq) + 1] = e
  BY AppendProperties, LenProperties
<1>. HIDE DEF a
<1>2. \A i \in 1 .. Len(a) - 1 : a[i] \in S
  BY <1>1, ElementOfSeq
<1>3. /\ f \in Seq(S) /\ Len(f) = IF 1 <= Len(a) - 1 THEN (Len(a) - 1) - 1 + 1 ELSE 0
      /\ \A i \in 1 .. (Len(a) - 1) - 1 + 1 : f[i] = a[1 + i - 1]
  BY <1>1, <1>2, SubSeqProperties
<1>. HIDE DEF f
<1>4. Len(f) = Len(seq) /\ \A i \in 1 .. Len(f) : f[i] = seq[i]
  BY <1>1, <1>3
<1>5. f = seq
  BY <1>3, <1>4, SeqEqual
<1>. QED  BY <1>1, <1>5 DEF Last, Front, a, f

LEMMA VisitedRemembers ==
  ASSUME NEW h \in HistType, h.back = <<>> \/ Remembers(h), NEW dir \in Dirs
  PROVE  /\ Remembers(Visited(h, dir)) /\ Last(Visited(h, dir).back) = dir
         /\ Visited(h, dir).forth = h.forth
         /\ Visited(h, dir).back =
              IF h.back # <<>> /\ Last(h.back) = dir THEN h.back ELSE Append(h.back, dir)
<1>. DEFINE b == Append(h.back, dir)
            v == Visited(h, dir)
<1>1. h.back \in Seq(Dirs)
  BY DEF HistType
<1>2. v = [h EXCEPT !.back = IF h.back # <<>> /\ Last(h.back) = dir THEN h.back ELSE b]
  BY DEF Visited
<1>3. /\ b \in Seq(Dirs) /\ b # <<>> /\ Len(b) = Len(h.back) + 1 /\ Len(h.back) \in Nat
      /\ \A i \in 1 .. Len(h.back) : b[i] = h.back[i]
      /\ b[Len(h.back) + 1] = dir
  BY <1>1, AppendProperties, LenProperties
<1>. HIDE DEF b, v
<1>4. CASE h.back # <<>> /\ Last(h.back) = dir
  <2>1. v = h
    BY <1>2, <1>4 DEF HistType
  <2>. QED  BY <1>4, <2>1 DEF v
<1>5. CASE ~(h.back # <<>> /\ Last(h.back) = dir)
  <2>1. v \in HistType /\ v.back = b /\ v.forth = h.forth
    BY <1>2, <1>3, <1>5 DEF HistType
  <2>2. ASSUME NEW i \in 1 .. Len(b) - 1  PROVE b[i] # b[i + 1]
    <3>1. i \in 1 .. Len(h.back) /\ b[i] = h.back[i]
      BY <1>3
    <3>2. h.back # <<>>
      BY <1>3, <3>1, EmptySeq
    <3>3. CASE i = Len(h.back)
      BY <1>3, <1>5, <3>1, <3>2, <3>3 DEF Last
    <3>4. CASE i # Len(h.back)
      <4>1. i \in 1 .. Len(h.back) - 1 /\ i + 1 \in 1 .. Len(h.back)
        BY <1>3, <3>1, <3>4
      <4>2. h.back[i] # h.back[i + 1] /\ b[i + 1] = h.back[i + 1]
        BY <1>3, <3>2, <4>1 DEF Remembers
      <4>. QED  BY <3>1, <4>2
    <3>. QED  BY <3>3, <3>4
  <2>3. Last(v.back) = dir
    BY <1>1, <2>1, LastOfAppend DEF b
  <2>. QED  BY <1>3, <1>5, <2>1, <2>2, <2>3 DEF Remembers, v, b
<1>. QED  BY <1>4, <1>5

\* What is left of m_dirs when its last one is taken off.
LEMMA BackedRemembers ==
  ASSUME NEW h, Remembers(h), Len(h.back) >= 2
  PROVE  /\ Remembers(Backed(h))
         /\ Last(Backed(h).back) # Last(h.back)
         /\ Forthed(Backed(h)) = h
<1>. DEFINE s == h.back
            n == Len(s)
            t == SubSeq(s, 1, n - 2)
            f == Append(h.forth, s[n])
            g == [back |-> t, forth |-> f]
            b == Backed(h)
<1>1. h \in HistType /\ s \in Seq(Dirs) /\ h.forth \in Seq(Dirs) /\ n \in Nat /\ n >= 2
  BY LenProperties DEF Remembers, HistType
<1>2. \A i \in 1 .. n : s[i] \in Dirs
  BY <1>1, ElementOfSeq
<1>3. \A i \in 1 .. n - 1 : s[i] # s[i + 1]
  BY DEF Remembers
<1>4. b = Visited(g, s[n - 1])
  BY DEF Backed
<1>. HIDE DEF b, s, n
<1>5. t \in Seq(Dirs) /\ Len(t) = n - 2 /\ \A i \in 1 .. n - 2 : t[i] = s[i]
  <2>1. \A i \in 1 .. n - 2 : s[i] \in Dirs
    BY <1>1, <1>2
  <2>2. /\ t \in Seq(Dirs) /\ Len(t) = IF 1 <= n - 2 THEN (n - 2) - 1 + 1 ELSE 0
        /\ \A i \in 1 .. (n - 2) - 1 + 1 : t[i] = s[1 + i - 1]
    BY <1>1, <2>1, SubSeqProperties
  <2>. HIDE DEF t
  <2>. QED  BY <1>1, <2>2
<1>6. f \in Seq(Dirs) /\ Last(f) = s[n] /\ Front(f) = h.forth /\ f # <<>>
  <2>1. s[n] \in Dirs
    BY <1>1, <1>2
  <2>. QED  BY <1>1, <2>1, AppendProperties, LastOfAppend
<1>. HIDE DEF t, f
<1>7. g \in HistType /\ g.back = t /\ g.forth = f
  BY <1>5, <1>6 DEF HistType
<1>. HIDE DEF g
<1>8. t = <<>> \/ Remembers(g)
  <2>1. \A i \in 1 .. Len(t) - 1 : t[i] # t[i + 1]
    BY <1>1, <1>3, <1>5
  <2>. QED  BY <1>7, <2>1 DEF Remembers
<1>9. t # <<>> => Last(t) # s[n - 1]
  <2>. SUFFICES ASSUME t # <<>>  PROVE t[n - 2] # s[n - 1]
    BY <1>5 DEF Last
  <2>1. n - 2 \in 1 .. n - 2
    BY <1>1, <1>5, EmptySeq
  <2>2. t[n - 2] = s[n - 2] /\ s[n - 2] # s[(n - 2) + 1] /\ (n - 2) + 1 = n - 1
    BY <1>1, <1>3, <1>5, <2>1
  <2>. QED  BY <2>2
<1>10. /\ Remembers(b) /\ Last(b.back) = s[n - 1] /\ b.forth = f
       /\ b.back = Append(t, s[n - 1])
  <2>1. s[n - 1] \in Dirs
    BY <1>1, <1>2
  <2>. QED  BY <1>4, <1>7, <1>8, <1>9, <2>1, VisitedRemembers
<1>11. s[n - 1] # s[n] /\ s[n] \in Dirs /\ s[n - 1] \in Dirs
  <2>1. n - 1 \in 1 .. n - 1 /\ (n - 1) + 1 = n
    BY <1>1
  <2>. QED  BY <1>1, <1>2, <1>3, <2>1
<1>12. Last(h.back) = s[n]
  BY DEF Last, s, n
<1>13. Forthed(b) = h
  <2>. DEFINE c == [b EXCEPT !.forth = Front(b.forth)]
              w == Visited(c, s[n])
  <2>1. Forthed(b) = w
    BY <1>6, <1>10 DEF Forthed
  <2>2. c \in HistType /\ c.back = b.back /\ c.forth = h.forth
    BY <1>1, <1>6, <1>10 DEF Remembers, HistType
  <2>. HIDE DEF c
  <2>3. Remembers(c)
    BY <1>10, <2>2 DEF Remembers
  <2>4. /\ w.forth = h.forth /\ w \in HistType
        /\ w.back = IF c.back # <<>> /\ Last(c.back) = s[n] THEN c.back ELSE Append(c.back, s[n])
    BY <1>11, <2>2, <2>3, VisitedRemembers DEF Remembers
  <2>5. w.back = Append(Append(t, s[n - 1]), s[n])
    BY <1>10, <1>11, <2>2, <2>4
  <2>6. Append(Append(t, s[n - 1]), s[n]) = s
    <3>. DEFINE u == Append(t, s[n - 1])
                x == Append(u, s[n])
    <3>1. /\ u \in Seq(Dirs) /\ Len(u) = n - 1
          /\ (\A i \in 1 .. n - 2 : u[i] = s[i]) /\ u[n - 1] = s[n - 1]
      <4>1. /\ u \in Seq(Dirs) /\ Len(u) = Len(t) + 1
            /\ (\A i \in 1 .. Len(t) : u[i] = t[i]) /\ u[Len(t) + 1] = s[n - 1]
        BY <1>5, <1>11, AppendProperties
      <4>2. Len(t) + 1 = n - 1
        BY <1>1, <1>5
      <4>. HIDE DEF u
      <4>. QED  BY <1>5, <4>1, <4>2
    <3>. HIDE DEF u
    <3>2. /\ x \in Seq(Dirs) /\ Len(x) = Len(u) + 1
          /\ (\A i \in 1 .. Len(u) : x[i] = u[i]) /\ x[Len(u) + 1] = s[n]
      BY <1>11, <3>1, AppendProperties
    <3>. HIDE DEF x
    <3>3. Len(x) = Len(s) /\ \A i \in 1 .. Len(x) : x[i] = s[i]
      <4>1. Len(s) = n /\ Len(x) = n /\ Len(u) + 1 = n
        BY <1>1, <3>1, <3>2 DEF n
      <4>2. ASSUME NEW i \in 1 .. n  PROVE x[i] = s[i]
        <5>1. CASE i = n
          BY <3>2, <4>1, <5>1
        <5>2. CASE i # n
          <6>1. i \in 1 .. Len(u) /\ (i \in 1 .. n - 2 \/ i = n - 1)
            BY <1>1, <3>1, <5>2
          <6>. QED  BY <3>1, <3>2, <6>1
        <5>. QED  BY <5>1, <5>2
      <4>. QED  BY <4>1, <4>2
    <3>. QED  BY <1>1, <3>2, <3>3, SeqEqual DEF x, u
  <2>7. w.back = s /\ s = h.back
    BY <2>5, <2>6 DEF s
  <2>. HIDE DEF w
  <2>8. w = h
    BY <1>1, <2>4, <2>7 DEF HistType
  <2>. QED  BY <2>1, <2>8
<1>. QED  BY <1>10, <1>11, <1>12, <1>13 DEF b

LEMMA ForthedRemembers ==
  ASSUME NEW h, Remembers(h), h.forth # <<>>
  PROVE  Remembers(Forthed(h))
<1>. DEFINE f == Front(h.forth)
            g == [h EXCEPT !.forth = f]
<1>1. h \in HistType /\ h.forth \in Seq(Dirs)
  BY DEF Remembers, HistType
<1>2. Len(h.forth) \in Nat /\ Len(h.forth) > 0 /\ \A i \in 1 .. Len(h.forth) : h.forth[i] \in Dirs
  BY <1>1, LenProperties, EmptySeq, ElementOfSeq
<1>3. f \in Seq(Dirs)
  <2>1. \A i \in 1 .. Len(h.forth) - 1 : h.forth[i] \in Dirs
    BY <1>2
  <2>2. SubSeq(h.forth, 1, Len(h.forth) - 1) \in Seq(Dirs)
    BY <1>2, <2>1, SubSeqProperties
  <2>. QED  BY <2>2 DEF Front
<1>4. Last(h.forth) \in Dirs
  BY <1>2 DEF Last
<1>. HIDE DEF f
<1>5. g \in HistType /\ g.back = h.back
  BY <1>1, <1>3 DEF HistType
<1>. HIDE DEF g
<1>6. Remembers(g)
  BY <1>5 DEF Remembers
<1>. QED  BY <1>4, <1>5, <1>6, VisitedRemembers DEF Forthed, g, f

-----------------------------------------------------------------------------
(* The files in the order of their names.                                  *)

Before(fs, f) == {g \in fs : g < f}
Rank(fs, f) == Cardinality({g \in fs : g < f})

\* No two files have as many before them.
LEMMA RanksDiffer ==
  ASSUME NEW fs, fs \subseteq Int, IsFiniteSet(fs), NEW f \in fs
  PROVE  /\ Rank(fs, f) \in 0 .. Cardinality(fs) - 1
         /\ \A g \in fs : g < f => Rank(fs, g) < Rank(fs, f)
<1>1. \A e \in fs : /\ IsFiniteSet(Before(fs, e))
                    /\ Rank(fs, e) = Cardinality(Before(fs, e)) /\ Rank(fs, e) \in Nat
  BY FS_Subset, FS_CardinalityType DEF Before, Rank
<1>2. Cardinality(fs) \in Nat
  BY FS_CardinalityType
<1>3. Rank(fs, f) \in 0 .. Cardinality(fs) - 1
  <2>1. Before(fs, f) \subseteq fs /\ f \notin Before(fs, f)
    BY DEF Before
  <2>2. /\ Cardinality(Before(fs, f)) <= Cardinality(fs)
        /\ Cardinality(fs) = Cardinality(Before(fs, f)) => fs = Before(fs, f)
    BY <2>1, FS_Subset
  <2>. QED  BY <1>1, <1>2, <2>1, <2>2
<1>4. ASSUME NEW g \in fs, g < f  PROVE Rank(fs, g) < Rank(fs, f)
  <2>1. g \in Before(fs, f) /\ g \notin Before(fs, g)
    BY <1>4 DEF Before
  <2>2. Before(fs, g) \subseteq Before(fs, f)
    <3>1. \A e \in fs : e \in Int /\ (e < g => e < f)
      BY <1>4
    <3>. QED  BY <3>1 DEF Before
  <2>3. /\ Cardinality(Before(fs, g)) <= Cardinality(Before(fs, f))
        /\ Cardinality(Before(fs, f)) = Cardinality(Before(fs, g)) => Before(fs, f) = Before(fs, g)
    BY <1>1, <2>2, FS_Subset
  <2>. QED  BY <1>1, <2>1, <2>3
<1>. QED  BY <1>3, <1>4

\* The list is an enumeration: none twice, and none that is not there.
LEMMA SortedEnumerates ==
  ASSUME NEW fs, fs \subseteq Int, IsFiniteSet(fs)
  PROVE  LET s == Sorted(fs)
         IN  /\ s \in Seq(fs) /\ DOMAIN s = 1 .. Len(s)
             /\ \A i, j \in DOMAIN s : s[i] = s[j] => i = j
<1>. DEFINE n == Cardinality(fs)
            R == [f \in fs |-> Rank(fs, f) + 1]
            s == Sorted(fs)
<1>1. n \in Nat
  BY FS_CardinalityType
<1>2. \A f \in fs : Rank(fs, f) \in 0 .. n - 1 /\ \A g \in fs : g < f => Rank(fs, g) < Rank(fs, f)
  BY RanksDiffer
<1>. HIDE DEF n
<1>3. \A f, g \in fs : Rank(fs, f) = Rank(fs, g) => f = g
  <2>. SUFFICES ASSUME NEW f \in fs, NEW g \in fs, Rank(fs, f) = Rank(fs, g)  PROVE f = g
    OBVIOUS
  <2>1. f \in Int /\ g \in Int /\ Rank(fs, f) \in Int
    BY <1>1, <1>2
  <2>2. ~(f < g) /\ ~(g < f)
    BY <1>2, <2>1
  <2>. QED  BY <2>1, <2>2
<1>4. \A i \in 1 .. n : \E f \in fs : Rank(fs, f) = i - 1
  <2>1. R \in [fs -> 1 .. n]
    BY <1>1, <1>2
  <2>2. \A f, g \in fs : R[f] = R[g] => f = g
    BY <1>1, <1>2, <1>3
  <2>. HIDE DEF R
  <2>3. R \in Injection(fs, 1 .. n)
    BY <2>1, <2>2 DEF Injection, IsInjective
  <2>4. IsFiniteSet(1 .. n) /\ Cardinality(1 .. n) = Cardinality(fs)
    BY <1>1, FS_Interval DEF n
  <2>5. R \in Surjection(fs, 1 .. n)
    BY <2>3, <2>4, FS_Injection
  <2>6. \A i \in 1 .. n : \E f \in fs : R[f] = i
    BY <2>5 DEF Surjection
  <2>7. \A f \in fs : R[f] = Rank(fs, f) + 1
    BY DEF R
  <2>8. ASSUME NEW i \in 1 .. n  PROVE \E f \in fs : Rank(fs, f) = i - 1
    <3>1. PICK f \in fs : R[f] = i
      BY <2>6
    <3>2. Rank(fs, f) \in Int /\ Rank(fs, f) + 1 = i /\ i \in Int
      BY <1>1, <1>2, <2>7, <3>1
    <3>. QED  BY <3>2
  <2>. QED  BY <2>8
<1>5. s = [i \in 1 .. n |-> CHOOSE f \in fs : Rank(fs, f) = i - 1]
  <2>1. s = [i \in 1 .. Cardinality(fs) |-> CHOOSE f \in fs : Rank(fs, f) = i - 1]
    BY DEF Sorted, Rank
  <2>2. Cardinality(fs) = n
    BY DEF n
  <2>. QED  BY <2>1, <2>2
<1>6. ASSUME NEW i \in 1 .. n
      PROVE  s[i] \in fs /\ Rank(fs, s[i]) = i - 1
  <2>1. PICK f \in fs : Rank(fs, f) = i - 1
    BY <1>4
  <2>2. s[i] = CHOOSE g \in fs : Rank(fs, g) = i - 1
    BY <1>5
  <2>. QED  BY <2>1, <2>2
<1>7. DOMAIN s = 1 .. n /\ s \in [1 .. n -> fs]
  BY <1>5, <1>6
<1>. HIDE DEF s
<1>8. s \in Seq(fs) /\ Len(s) = n
  BY <1>1, <1>7
<1>9. \A i, j \in 1 .. n : s[i] = s[j] => i = j
  BY <1>1, <1>6
<1>. QED  BY <1>7, <1>8, <1>9 DEF s

LEMMA Placed ==
  ASSUME NEW s, s \in [1 .. Len(s) -> Int], Len(s) \in Nat,
         \A i, j \in DOMAIN s : s[i] = s[j] => i = j, NEW f
  PROVE  /\ Position(s, f) \in Int
         /\ \A i \in DOMAIN s : s[i] = f => Position(s, f) = i - 1
         /\ ~(\E i \in DOMAIN s : s[i] = f) => Position(s, f) = -1
<1>1. CASE \E i \in DOMAIN s : s[i] = f
  <2>1. PICK i \in DOMAIN s : s[i] = f /\ (CHOOSE k \in DOMAIN s : s[k] = f) = i
    BY <1>1
  <2>2. Position(s, f) = i - 1 /\ i \in Int
    BY <1>1, <2>1 DEF Position
  <2>3. \A k \in DOMAIN s : s[k] = f => k = i
    BY <2>1
  <2>. QED  BY <1>1, <2>2, <2>3
<1>2. CASE ~(\E i \in DOMAIN s : s[i] = f)
  BY <1>2 DEF Position
<1>. QED  BY <1>1, <1>2

-----------------------------------------------------------------------------
(* Opening, stepping and deleting.                                         *)

BrowsingType ==
  /\ disk \subseteq DiskFiles /\ rows \subseteq DiskFiles /\ list \in Seq(DiskFiles)
  /\ index \in Int /\ name \in DiskFiles \cup {None}
  /\ fault \in BOOLEAN /\ vanished \in BOOLEAN /\ failed \in BOOLEAN

\* A search that took files out of the list has left the name of one that is gone.
Searching ==
  loop = <<>> \/ \E d \in {-1, 1}, n \in Nat \ {0} :
                   loop = <<d, n>> /\ (n = Len(list) \/ name \notin disk)

\* What holds as long as no file vanished and no load failed.
Listed ==
  /\ ~fault
  /\ \A i \in DOMAIN list : list[i] \in disk
  /\ \A i, j \in DOMAIN list : list[i] = list[j] => i = j
  /\ \A i \in DOMAIN list : list[i] = name => index = i - 1
  /\ loop # <<>> => loop[2] = Len(list)

\* The inductive invariant.
NavigationInv ==
  /\ BrowsingType /\ Searching /\ Remembers(hist)
  /\ ~vanished /\ ~failed => Listed

LEMMA SortedFiles ==
  ASSUME NEW fs \in SUBSET DiskFiles
  PROVE  LET s == Sorted(fs)
         IN  /\ s \in Seq(DiskFiles) /\ s \in [1 .. Len(s) -> fs] /\ Len(s) \in Nat
             /\ DOMAIN s = 1 .. Len(s)
             /\ \A i, j \in DOMAIN s : s[i] = s[j] => i = j
             /\ \A f : /\ Position(s, f) \in Int
                       /\ \A i \in DOMAIN s : s[i] = f => Position(s, f) = i - 1
                       /\ ~(\E i \in DOMAIN s : s[i] = f) => Position(s, f) = -1
<1>. DEFINE s == Sorted(fs)
<1>1. fs \subseteq Int /\ IsFiniteSet(fs)
  BY FS_Subset, NavigationAssumption
<1>2. s \in Seq(fs) /\ DOMAIN s = 1 .. Len(s) /\ \A i, j \in DOMAIN s : s[i] = s[j] => i = j
  BY <1>1, SortedEnumerates
<1>. HIDE DEF s
<1>3. s \in [1 .. Len(s) -> fs] /\ Len(s) \in Nat /\ s \in Seq(DiskFiles)
  BY <1>2, LenProperties, SeqMonotonic
<1>4. s \in [1 .. Len(s) -> Int]
  BY <1>1, <1>3
<1>. QED  BY <1>2, <1>3, <1>4, Placed DEF s

\* Opening reads the list anew, whatever it was.
LEMMA OpenedLists ==
  ASSUME BrowsingType, NEW f \in DiskFiles, NEW i \in Int,
         Opened(f, i), disk' = disk, loop' = <<>>, fault' = FALSE
  PROVE  /\ list' \in Seq(DiskFiles) /\ index' \in Int /\ name' \in DiskFiles
         /\ vanished' \in BOOLEAN /\ failed' \in BOOLEAN
         /\ ~failed' => Listed'
<1>. DEFINE s == Sorted(disk \ Hidden)
            good == f \in disk \ Bad
<1>1. /\ name' = f /\ list' = s /\ vanished' = FALSE /\ failed' = ~good
      /\ index' = IF good THEN Position(s, f) ELSE i
  BY DEF Opened
<1>2. /\ s \in Seq(DiskFiles) /\ s \in [1 .. Len(s) -> disk \ Hidden] /\ DOMAIN s = 1 .. Len(s)
      /\ \A k, j \in DOMAIN s : s[k] = s[j] => k = j
      /\ Position(s, f) \in Int
      /\ \A k \in DOMAIN s : s[k] = f => Position(s, f) = k - 1
  <2>1. disk \ Hidden \in SUBSET DiskFiles
    BY DEF BrowsingType
  <2>. QED  BY <2>1, SortedFiles
<1>. HIDE DEF s
<1>3. \A k \in DOMAIN s : s[k] \in disk
  BY <1>2
<1>. QED  BY <1>1, <1>2, <1>3 DEF Listed

\* What the tree shows: directories, then files.
LEMMA ViewHolds ==
  ASSUME rows \subseteq DiskFiles
  PROVE  \E n \in Nat :
           LET files == IF root = Home THEN Sorted(rows) ELSE <<>>
           IN  /\ files \in Seq(DiskFiles) /\ DOMAIN files = 1 .. Len(files) /\ Len(files) \in Nat
               /\ DOMAIN View = 1 .. n + Len(files)
               /\ \A i \in 1 .. n : View[i] \in Dirs
               /\ \A i \in 1 .. Len(files) : View[n + i] = files[i]
<1>. DEFINE ds == {d \in Dirs : Parent[d] = root /\ d # root}
            a == SetToSeq(ds)
            files == IF root = Home THEN Sorted(rows) ELSE <<>>
            n == Cardinality(ds)
<1>1. IsFiniteSet(ds)
  BY FS_Subset, NavigationAssumption
<1>2. n \in Nat /\ \E f \in [1 .. n -> ds] : IsInjective(f)
  <2>1. n \in Nat /\ ExistsBijection(1 .. n, ds)
    BY <1>1, FS_CardinalityType
  <2>. HIDE DEF n, ds
  <2>2. PICK f : f \in Bijection(1 .. n, ds)
    BY <2>1 DEF ExistsBijection
  <2>3. f \in [1 .. n -> ds] /\ \A i, j \in 1 .. n : f[i] = f[j] => i = j
    BY <2>2 DEF Bijection, Injection, IsInjective
  <2>4. IsInjective(f)
    BY <2>3 DEF IsInjective
  <2>. QED  BY <2>1, <2>3, <2>4
<1>3. a \in [1 .. n -> ds]
  <2>1. Cardinality(ds) = n
    OBVIOUS
  <2>2. a = CHOOSE f \in [1 .. n -> ds] : IsInjective(f)
    <3>. HIDE DEF n, ds
    <3>. QED  BY <2>1 DEF SetToSeq
  <2>. HIDE DEF n, ds, a
  <2>. QED  BY <1>2, <2>2
<1>4. a \in Seq(Dirs \cup DiskFiles) /\ Len(a) = n /\ \A i \in 1 .. n : a[i] \in Dirs
  <2>1. ds \subseteq Dirs
    OBVIOUS
  <2>. HIDE DEF a, n, ds
  <2>. QED  BY <1>2, <1>3, <2>1
<1>5. files \in Seq(DiskFiles) /\ DOMAIN files = 1 .. Len(files) /\ Len(files) \in Nat
  <2>1. Sorted(rows) \in Seq(DiskFiles)
    BY SortedFiles
  <2>2. files \in Seq(DiskFiles)
    BY <2>1
  <2>. HIDE DEF files
  <2>. QED  BY <2>2, LenProperties
<1>6. View = a \o files
  BY DEF View
<1>. HIDE DEF a, files, n, ds
<1>7. files \in Seq(Dirs \cup DiskFiles)
  BY <1>5, SeqMonotonic
<1>8. /\ View \in Seq(Dirs \cup DiskFiles) /\ Len(View) = n + Len(files)
      /\ \A i \in 1 .. n + Len(files) :
           View[i] = IF i <= n THEN a[i] ELSE files[i - n]
  <2>. DEFINE v == a \o files
  <2>1. /\ v \in Seq(Dirs \cup DiskFiles) /\ Len(v) = Len(a) + Len(files)
        /\ \A i \in 1 .. Len(a) + Len(files) :
             v[i] = IF i <= Len(a) THEN a[i] ELSE files[i - Len(a)]
    BY <1>4, <1>7, ConcatProperties
  <2>. HIDE DEF v
  <2>2. View = v
    BY <1>6 DEF v
  <2>. QED  BY <1>4, <2>1, <2>2
<1>9. DOMAIN View = 1 .. n + Len(files)
  BY <1>8, LenProperties
<1>10. \A i \in 1 .. n : View[i] \in Dirs
  BY <1>2, <1>4, <1>5, <1>8
<1>11. ASSUME NEW i \in 1 .. Len(files)  PROVE View[n + i] = files[i]
  <2>1. n + i \in 1 .. n + Len(files) /\ ~(n + i <= n) /\ (n + i) - n = i
    BY <1>2, <1>5
  <2>. QED  BY <1>8, <2>1
<1>. QED  BY <1>2, <1>5, <1>9, <1>10, <1>11 DEF files

LEMMA FileInView ==
  ASSUME BrowsingType,
         NEW r \in DOMAIN View, View[r] \notin Dirs
  PROVE  View[r] \in DiskFiles
<1>. DEFINE files == IF root = Home THEN Sorted(rows) ELSE <<>>
<1>1. PICK n \in Nat :
        /\ files \in Seq(DiskFiles) /\ DOMAIN files = 1 .. Len(files) /\ Len(files) \in Nat
        /\ DOMAIN View = 1 .. n + Len(files)
        /\ \A i \in 1 .. n : View[i] \in Dirs
        /\ \A i \in 1 .. Len(files) : View[n + i] = files[i]
  BY ViewHolds DEF BrowsingType
<1>. HIDE DEF files
<1>2. r \in 1 .. n + Len(files) /\ r \notin 1 .. n
  BY <1>1
<1>3. r - n \in 1 .. Len(files) /\ n + (r - n) = r
  BY <1>1, <1>2
<1>4. View[r] = files[r - n]
  BY <1>1, <1>3
<1>. QED  BY <1>1, <1>3, <1>4, ElementOfSeq

LEMMA RemoveAtLeaves ==
  ASSUME NEW S, NEW seq \in Seq(S), NEW i \in 1 .. Len(seq)
  PROVE  LET r == RemoveAt(seq, i)
         IN  /\ r \in Seq(S) /\ DOMAIN r = 1 .. Len(seq) - 1
             /\ \A k \in 1 .. Len(seq) - 1 : r[k] = IF k < i THEN seq[k] ELSE seq[k + 1]
<1>. DEFINE a == SubSeq(seq, 1, i - 1)
            b == SubSeq(seq, i + 1, Len(seq))
            r == a \o b
<1>1. Len(seq) \in Nat /\ i \in Nat /\ \A k \in 1 .. Len(seq) : seq[k] \in S
  BY LenProperties, ElementOfSeq
<1>2. a \in Seq(S) /\ Len(a) = i - 1 /\ \A k \in 1 .. i - 1 : a[k] = seq[k]
  <2>1. \A k \in 1 .. i - 1 : seq[k] \in S
    BY <1>1
  <2>2. /\ a \in Seq(S) /\ Len(a) = IF 1 <= i - 1 THEN (i - 1) - 1 + 1 ELSE 0
        /\ \A k \in 1 .. (i - 1) - 1 + 1 : a[k] = seq[1 + k - 1]
    BY <1>1, <2>1, SubSeqProperties
  <2>. HIDE DEF a
  <2>. QED  BY <1>1, <2>2
<1>3. b \in Seq(S) /\ Len(b) = Len(seq) - i /\ \A k \in 1 .. Len(seq) - i : b[k] = seq[i + k]
  <2>1. \A k \in i + 1 .. Len(seq) : seq[k] \in S
    BY <1>1
  <2>2. /\ b \in Seq(S) /\ Len(b) = IF i + 1 <= Len(seq) THEN Len(seq) - (i + 1) + 1 ELSE 0
        /\ \A k \in 1 .. Len(seq) - (i + 1) + 1 : b[k] = seq[(i + 1) + k - 1]
    BY <1>1, <2>1, SubSeqProperties
  <2>. HIDE DEF b
  <2>. QED  BY <1>1, <2>2
<1>. HIDE DEF a, b
<1>4. /\ r \in Seq(S) /\ Len(r) = Len(a) + Len(b)
      /\ \A k \in 1 .. Len(a) + Len(b) : r[k] = IF k <= Len(a) THEN a[k] ELSE b[k - Len(a)]
  BY <1>2, <1>3, ConcatProperties
<1>. HIDE DEF r
<1>5. \A k \in 1 .. Len(seq) - 1 : r[k] = IF k < i THEN seq[k] ELSE seq[k + 1]
  <2>. TAKE k \in 1 .. Len(seq) - 1
  <2>1. CASE k < i
    <3>1. k \in 1 .. Len(a) + Len(b) /\ k <= Len(a) /\ k \in 1 .. i - 1
      BY <1>1, <1>2, <1>3, <2>1
    <3>2. r[k] = a[k]
      BY <1>4, <3>1
    <3>. QED  BY <1>2, <2>1, <3>1, <3>2
  <2>2. CASE k >= i
    <3>1. /\ k \in 1 .. Len(a) + Len(b) /\ ~(k <= Len(a)) /\ k - (i - 1) \in 1 .. Len(seq) - i
          /\ i + (k - (i - 1)) = k + 1
      BY <1>1, <1>2, <1>3, <2>2
    <3>2. r[k] = b[k - (i - 1)]
      BY <1>2, <1>4, <3>1
    <3>. QED  BY <1>1, <1>3, <2>2, <3>1, <3>2
  <2>. QED  BY <1>1, <2>1, <2>2
<1>6. RemoveAt(seq, i) = r
  BY DEF RemoveAt, r, a, b
<1>7. DOMAIN r = 1 .. Len(seq) - 1
  BY <1>1, <1>2, <1>3, <1>4, LenProperties
<1>. QED  BY <1>4, <1>5, <1>6, <1>7

LEMMA OpeningKeeps ==
  ASSUME NavigationInv, NEW f \in DiskFiles, NEW i \in Int,
         Opened(f, i), disk' = disk, rows' = rows, loop' = <<>>, fault' = FALSE,
         Remembers(hist)'
  PROVE  NavigationInv'
<1>1. BrowsingType
  BY DEF NavigationInv
<1>2. /\ list' \in Seq(DiskFiles) /\ index' \in Int /\ name' \in DiskFiles
      /\ vanished' \in BOOLEAN /\ failed' \in BOOLEAN
      /\ ~failed' => Listed'
  BY <1>1, OpenedLists
<1>. QED  BY <1>1, <1>2 DEF NavigationInv, BrowsingType, Searching

LEMMA OpenKeepsList ==
  ASSUME NavigationInv,
         NEW d \in {-1, 1}, NEW f \in DiskFiles, OpenFile(f) \/ KeyPress(d)
  PROVE  NavigationInv'
<1>1. BrowsingType /\ Remembers(hist)
  BY DEF NavigationInv
<1>2. CASE OpenFile(f)
  <2>1. /\ Opened(f, index) /\ disk' = disk /\ rows' = rows /\ loop' = <<>> /\ fault' = FALSE
        /\ hist' = hist
    BY <1>1, <1>2 DEF OpenFile, Idle, tree, BrowsingType
  <2>. QED  BY <1>1, <2>1, OpeningKeeps DEF BrowsingType
<1>3. CASE KeyPress(d)
  <2>. DEFINE r == Beside(d)
  <2>1. r \in DOMAIN View /\ View[r] \notin Dirs
    BY <1>3 DEF KeyPress, TreeFollows, Stays
  <2>2. /\ Opened(View[r], index) /\ disk' = disk /\ rows' = rows /\ loop' = <<>>
        /\ fault' = FALSE /\ hist' = hist
    BY <1>1, <1>3 DEF KeyPress, TreeFollows, Idle, BrowsingType
  <2>. HIDE DEF r
  <2>3. View[r] \in DiskFiles
    BY <1>1, <2>1, FileInView
  <2>. QED  BY <1>1, <2>2, <2>3, OpeningKeeps DEF BrowsingType
<1>. QED  BY <1>2, <1>3

\* What the moves between directories leave alone.
LEMMA MovingKeeps ==
  ASSUME NavigationInv, Remembers(hist)',
         UNCHANGED <<disk, rows, list, index, name, loop, fault, vanished, failed>>
  PROVE  NavigationInv'
BY DEF NavigationInv, BrowsingType, Searching, Listed

LEMMA DoubleClickKeeps ==
  ASSUME NavigationInv, NEW r \in DOMAIN View, DoubleClick(r)
  PROVE  NavigationInv'
<1>1. BrowsingType /\ Remembers(hist) /\ hist \in HistType
  BY DEF NavigationInv, Remembers
<1>2. CASE View[r] \in Dirs
  <2>1. hist' = Visited(hist, View[r])
        /\ UNCHANGED <<disk, rows, list, index, name, loop, fault, vanished, failed>>
    BY <1>2 DEF DoubleClick, Shows, browser
  <2>2. Remembers(hist)'
    BY <1>1, <1>2, <2>1, VisitedRemembers
  <2>. QED  BY <2>1, <2>2, MovingKeeps
<1>3. CASE View[r] \notin Dirs
  <2>1. /\ Opened(View[r], index) /\ disk' = disk /\ rows' = rows /\ loop' = <<>>
        /\ fault' = FALSE /\ hist' = hist
    BY <1>1, <1>3 DEF DoubleClick, Idle, BrowsingType
  <2>2. View[r] \in DiskFiles
    BY <1>1, <1>3, FileInView
  <2>. QED  BY <1>1, <2>1, <2>2, OpeningKeeps DEF BrowsingType
<1>. QED  BY <1>2, <1>3

LEMMA DirectoriesKeep ==
  ASSUME NavigationInv,
         OnBackClicked \/ OnGoClicked \/ OnUpClicked \/ \E dir \in Dirs : OnEnterClicked(dir)
  PROVE  NavigationInv'
<1>1. Remembers(hist) /\ hist \in HistType /\ hist.back \in Seq(Dirs) /\ hist.back # <<>>
  BY DEF NavigationInv, Remembers, HistType
<1>2. Last(hist.back) \in Dirs
  <2>1. Len(hist.back) \in 1 .. Len(hist.back)
    BY <1>1, LenProperties, EmptySeq
  <2>. QED  BY <1>1, <2>1, ElementOfSeq DEF Last
<1>3. ASSUME NEW h, Remembers(h), Moves(h)  PROVE NavigationInv'
  <2>1. hist' = h /\ UNCHANGED <<disk, rows, list, index, name, loop, fault, vanished, failed>>
    BY <1>3 DEF Moves, Shows, browser
  <2>. QED  BY <1>3, <2>1, MovingKeeps
<1>4. CASE OnBackClicked
  BY <1>1, <1>3, <1>4, BackedRemembers DEF OnBackClicked
<1>5. CASE OnGoClicked
  BY <1>1, <1>3, <1>5, ForthedRemembers DEF OnGoClicked
<1>6. CASE OnUpClicked
  <2>1. Parent[Last(hist.back)] \in Dirs
    BY <1>2, NavigationAssumption
  <2>. QED  BY <1>1, <1>3, <1>6, <2>1, VisitedRemembers DEF OnUpClicked
<1>7. CASE \E dir \in Dirs : OnEnterClicked(dir)
  BY <1>1, <1>3, <1>7, VisitedRemembers DEF OnEnterClicked
<1>. QED  BY <1>4, <1>5, <1>6, <1>7

LEMMA StepKeeps ==
  ASSUME NavigationInv, NEW d \in {-1, 1}, Step(d)
  PROVE  NavigationInv'
<1>1. BrowsingType /\ Len(list) \in Nat /\ list \in Seq(DiskFiles)
  BY LenProperties DEF NavigationInv, BrowsingType
<1>2. UNCHANGED <<disk, rows, list, index, name, fault, vanished, failed, hist>>
  BY DEF Step, tree
<1>3. \/ loop' = loop /\ loop = <<>>
      \/ loop' = <<d, Len(list)>> /\ Len(list) \in Nat \ {0}
  <2>1. CASE list = <<>>
    BY <2>1 DEF Step, Idle
  <2>2. CASE list # <<>>
    <3>1. Len(list) # 0
      BY <1>1, <2>2, EmptySeq
    <3>. QED  BY <1>1, <2>2, <3>1 DEF Step
  <2>. QED  BY <2>1, <2>2
<1>. QED  BY <1>1, <1>2, <1>3 DEF NavigationInv, BrowsingType, Searching, Listed

LEMMA AroundInRange ==
  ASSUME NEW i \in Int, NEW n \in Nat \ {0}
  PROVE  /\ Around(i, n) \in 0 .. n - 1
         /\ i \in 0 .. n - 1 => Around(i, n) = i
BY DEF Around

LEMMA TurnKeeps ==
  ASSUME NavigationInv, Turn
  PROVE  NavigationInv'
<1>1. BrowsingType /\ Remembers(hist) /\ list \in Seq(DiskFiles) /\ Len(list) \in Nat
      /\ DOMAIN list = 1 .. Len(list)
  BY LenProperties DEF NavigationInv, BrowsingType
<1>2. PICK d \in {-1, 1}, n \in Nat \ {0} :
        loop = <<d, n>> /\ (n = Len(list) \/ name \notin disk)
  BY DEF NavigationInv, Searching, Turn
<1>. DEFINE i == Around(index + d, n)
<1>3. i \in 0 .. n - 1
  <2>1. index + d \in Int
    BY <1>1 DEF BrowsingType
  <2>. QED  BY <2>1, AroundInRange
<1>4. loop[1] = d /\ loop[2] = n
  BY <1>2
<1>5. ~vanished /\ ~failed => Listed /\ n = Len(list)
  BY <1>2, <1>4 DEF NavigationInv, Listed
<1>6. /\ ~fault /\ disk' = disk /\ rows' = rows
      /\ \/ /\ i >= Len(list)
            /\ fault' = TRUE /\ UNCHANGED <<list, index, name, loop, hist, vanished, failed>>
         \/ /\ i < Len(list) /\ list[i + 1] \notin disk
            /\ index' = i /\ name' = list[i + 1] /\ list' = RemoveAt(list, i + 1)
            /\ UNCHANGED <<loop, fault, hist, vanished, failed>>
         \/ /\ i < Len(list) /\ list[i + 1] \in disk /\ loop' = <<>> /\ fault' = fault
            /\ TreeFollows(d, i)
         \/ /\ i < Len(list) /\ list[i + 1] \in disk /\ loop' = <<>> /\ fault' = fault
            /\ index' = i /\ name' = list[i + 1]
            /\ UNCHANGED <<list, hist, vanished, failed>>
  <2>1. i < Len(list) <=> ~(i >= Len(list))
    BY <1>1, <1>3
  <2>. HIDE DEF i
  <2>. QED  BY <1>4, <2>1 DEF Turn, browser, tree, i
<1>. HIDE DEF i
<1>7. i < Len(list) => i + 1 \in 1 .. Len(list)
  BY <1>1, <1>3
<1>8. CASE i >= Len(list) /\ fault' = TRUE
           /\ UNCHANGED <<list, index, name, loop, hist, vanished, failed>>
  <2>1. vanished \/ failed
    <3>1. i >= Len(list) /\ Len(list) \in Nat
      BY <1>1, <1>8
    <3>2. n # Len(list)
      BY <1>2, <1>3, <3>1
    <3>. QED  BY <1>5, <3>2
  <2>. QED
    BY <1>1, <1>6, <1>8, <2>1 DEF NavigationInv, BrowsingType, Searching
<1>9. CASE /\ i < Len(list) /\ list[i + 1] \notin disk
           /\ index' = i /\ name' = list[i + 1] /\ list' = RemoveAt(list, i + 1)
           /\ UNCHANGED <<loop, fault, hist, vanished, failed>>
  <2>1. vanished \/ failed
    BY <1>1, <1>5, <1>7, <1>9 DEF Listed
  <2>2. RemoveAt(list, i + 1) \in Seq(DiskFiles) /\ list[i + 1] \in DiskFiles /\ i \in Int
    BY <1>1, <1>3, <1>7, <1>9, RemoveAtLeaves, ElementOfSeq
  <2>3. Searching'
    BY <1>2, <1>6, <1>9 DEF Searching
  <2>. QED
    BY <1>1, <1>6, <1>9, <2>1, <2>2, <2>3 DEF NavigationInv, BrowsingType
<1>10. CASE loop' = <<>> /\ fault' = fault /\ TreeFollows(d, i)
  <2>. DEFINE r == Beside(d)
  <2>1. r \in DOMAIN View /\ View[r] \notin Dirs /\ Opened(View[r], i) /\ hist' = hist
    BY <1>10 DEF TreeFollows, Stays
  <2>. HIDE DEF r
  <2>2. View[r] \in DiskFiles /\ i \in Int /\ fault' = FALSE
    BY <1>1, <1>3, <1>6, <1>10, <2>1, FileInView DEF BrowsingType
  <2>. QED  BY <1>1, <1>6, <1>10, <2>1, <2>2, OpeningKeeps
<1>11. CASE /\ i < Len(list) /\ list[i + 1] \in disk /\ loop' = <<>> /\ fault' = fault
            /\ index' = i /\ name' = list[i + 1]
            /\ UNCHANGED <<list, hist, vanished, failed>>
  <2>1. list[i + 1] \in DiskFiles /\ i \in Int /\ (i + 1) - 1 = i
    BY <1>1, <1>3, <1>7, <1>11, ElementOfSeq
  <2>2. ASSUME Listed  PROVE Listed'
    BY <1>1, <1>6, <1>7, <1>11, <2>1, <2>2 DEF Listed
  <2>. QED
    BY <1>1, <1>6, <1>11, <2>1, <2>2 DEF NavigationInv, BrowsingType, Searching
<1>. QED  BY <1>6, <1>8, <1>9, <1>10, <1>11

LEMMA DeleteKeeps ==
  ASSUME NavigationInv, DeleteFile
  PROVE  NavigationInv'
<1>1. BrowsingType /\ Remembers(hist) /\ list \in Seq(DiskFiles) /\ Len(list) \in Nat
      /\ DOMAIN list = 1 .. Len(list) /\ index \in Int
  BY LenProperties DEF NavigationInv, BrowsingType
<1>2. /\ loop = <<>> /\ ~fault /\ name \in disk /\ disk' = disk \ {name}
      /\ list' = Dropped(list, index)
      /\ UNCHANGED <<rows, index, name, failed, loop, fault, hist, vanished>>
  BY DEF DeleteFile, Idle, tree
<1>3. CASE index + 1 \in DOMAIN list
  <2>1. /\ list' \in Seq(DiskFiles) /\ DOMAIN list' = 1 .. Len(list) - 1
        /\ \A k \in 1 .. Len(list) - 1 :
             list'[k] = IF k < index + 1 THEN list[k] ELSE list[k + 1]
    BY <1>1, <1>2, <1>3, RemoveAtLeaves DEF Dropped
  <2>2. ASSUME Listed  PROVE Listed'
    <3>. DEFINE From(k) == IF k < index + 1 THEN k ELSE k + 1
    <3>1. \A k \in DOMAIN list' : From(k) \in DOMAIN list /\ list'[k] = list[From(k)]
                                  /\ From(k) # index + 1
      BY <1>1, <2>1
    <3>2. \A k \in DOMAIN list' : list'[k] \in disk /\ list'[k] # name
      BY <1>1, <2>2, <3>1 DEF Listed
    <3>3. ASSUME NEW k \in DOMAIN list', NEW l \in DOMAIN list', list'[k] = list'[l]
          PROVE  k = l
      <4>1. From(k) = From(l)
        BY <2>2, <3>1, <3>3 DEF Listed
      <4>. QED  BY <1>1, <2>1, <4>1
    <3>. QED  BY <1>2, <3>2, <3>3 DEF Listed
  <2>. QED  BY <1>1, <1>2, <2>1, <2>2 DEF NavigationInv, BrowsingType, Searching
<1>4. CASE index + 1 \notin DOMAIN list
  <2>1. list' = list
    BY <1>2, <1>4 DEF Dropped
  <2>2. ASSUME Listed  PROVE Listed'
    <3>1. \A k \in DOMAIN list : list[k] # name
      <4>1. \A k \in DOMAIN list : k # index + 1
        BY <1>4
      <4>. QED  BY <1>1, <2>2, <4>1 DEF Listed
    <3>. QED  BY <1>2, <2>1, <2>2, <3>1 DEF Listed
  <2>. QED  BY <1>1, <1>2, <2>1, <2>2 DEF NavigationInv, BrowsingType, Searching
<1>. QED  BY <1>3, <1>4

LEMMA CloseKeepsList ==
  ASSUME NavigationInv, CloseFile
  PROVE  NavigationInv'
<1>1. BrowsingType /\ Remembers(hist)
  BY DEF NavigationInv
<1>2. /\ loop = <<>> /\ ~fault /\ list' = <<>> /\ index' = -1 /\ name' = None
      /\ vanished' = FALSE /\ UNCHANGED <<disk, rows, failed, loop, fault, hist>>
  BY DEF CloseFile, Idle, tree
<1>3. list' \in Seq(DiskFiles) /\ DOMAIN list' = {} /\ index' \in Int
  BY <1>2
<1>4. Listed'
  BY <1>2, <1>3 DEF Listed
<1>. QED  BY <1>1, <1>2, <1>3, <1>4 DEF NavigationInv, BrowsingType, Searching

LEMMA CancelKeeps ==
  ASSUME NavigationInv, CancelOpen
  PROVE  NavigationInv'
<1>1. /\ loop = <<>> /\ name' = None
      /\ UNCHANGED <<disk, rows, list, index, failed, loop, fault, hist, vanished>>
  BY DEF CancelOpen, Idle, tree
<1>2. BrowsingType /\ Remembers(hist) /\ list \in [DOMAIN list -> DiskFiles]
  BY DEF NavigationInv, BrowsingType
<1>3. \A i \in DOMAIN list : list[i] # None
  BY <1>2, NavigationAssumption
<1>4. ASSUME Listed  PROVE Listed'
  BY <1>1, <1>3, <1>4 DEF Listed
<1>. QED  BY <1>1, <1>2, <1>4 DEF NavigationInv, BrowsingType, Searching

LEMMA ReloadKeeps ==
  ASSUME NavigationInv, Reload
  PROVE  NavigationInv'
<1>. DEFINE good == name \in disk \ Bad
            p == Position(list, name)
<1>1. BrowsingType /\ Remembers(hist) /\ list \in Seq(DiskFiles) /\ Len(list) \in Nat
      /\ DOMAIN list = 1 .. Len(list)
  BY LenProperties DEF NavigationInv, BrowsingType
<1>2. /\ loop = <<>> /\ ~fault /\ index' = IF good THEN p ELSE index
      /\ failed' = (failed \/ ~good)
      /\ UNCHANGED <<disk, rows, list, name, loop, fault, hist, vanished>>
  BY DEF Reload, Idle, tree
<1>3. p \in Int
  BY <1>1 DEF Position
<1>. HIDE DEF p
<1>4. ASSUME Listed, good  PROVE Listed'
  <2>1. list \in [1 .. Len(list) -> Int]
    <3>1. list \in [1 .. Len(list) -> DiskFiles] /\ DiskFiles \subseteq Int
      BY <1>1, LenProperties, NavigationAssumption
    <3>. QED  BY <3>1
  <2>2. \A i \in DOMAIN list : list[i] = name => p = i - 1
    BY <1>1, <1>4, <2>1, Placed DEF Listed, p
  <2>. QED  BY <1>2, <1>4, <2>2 DEF Listed
<1>. QED  BY <1>1, <1>2, <1>3, <1>4 DEF NavigationInv, BrowsingType, Searching

LEMMA DiskKeeps ==
  ASSUME NavigationInv, Refresh \/ \E f \in DiskFiles : Vanish(f)
  PROVE  NavigationInv'
<1>1. BrowsingType /\ Remembers(hist)
  BY DEF NavigationInv
<1>2. CASE Refresh
  <2>1. rows' = disk \ Hidden
        /\ UNCHANGED <<disk, list, index, name, loop, fault, hist, vanished, failed>>
    BY <1>2 DEF Refresh, browser, tree
  <2>. QED  BY <1>1, <2>1 DEF NavigationInv, BrowsingType, Searching, Listed
<1>3. ASSUME NEW f \in DiskFiles, Vanish(f)  PROVE NavigationInv'
  <2>1. disk' = disk \ {f} /\ vanished' = TRUE
        /\ UNCHANGED <<rows, list, index, name, loop, fault, hist, failed>>
    BY <1>3 DEF Vanish, browser, tree
  <2>. QED  BY <1>1, <2>1 DEF NavigationInv, BrowsingType, Searching
<1>. QED  BY <1>2, <1>3

LEMMA NavigationStepInv ==
  ASSUME NavigationInv, [NavigationNext]_navigationVars
  PROVE  NavigationInv'
<1>1. CASE \E f \in DiskFiles : OpenFile(f)
  BY <1>1, OpenKeepsList
<1>2. CASE \E d \in {-1, 1} : KeyPress(d)
  <2>1. PICK d \in {-1, 1} : KeyPress(d)
    BY <1>2
  <2>2. \E f \in DiskFiles : TRUE
    <3>1. Beside(d) \in DOMAIN View /\ View[Beside(d)] \notin Dirs
      BY <2>1 DEF KeyPress, TreeFollows, Stays
    <3>. QED  BY <3>1, FileInView DEF NavigationInv
  <2>. QED  BY <2>1, <2>2, OpenKeepsList
<1>3. CASE \E r \in DOMAIN View : DoubleClick(r)
  BY <1>3, DoubleClickKeeps
<1>4. CASE Turn \/ \E d \in {-1, 1} : Step(d)
  BY <1>4, TurnKeeps, StepKeeps
<1>5. CASE CancelOpen \/ DeleteFile \/ CloseFile \/ Reload
  BY <1>5, CancelKeeps, DeleteKeeps, CloseKeepsList, ReloadKeeps
<1>6. CASE OnBackClicked \/ OnGoClicked \/ OnUpClicked
           \/ \E dir \in Dirs : OnEnterClicked(dir)
  BY <1>6, DirectoriesKeep
<1>7. CASE Refresh \/ \E f \in DiskFiles : Vanish(f)
  BY <1>7, DiskKeeps
<1>8. CASE UNCHANGED navigationVars
  BY <1>8 DEF navigationVars, browser, tree, NavigationInv, BrowsingType, Searching, Listed
<1>. QED  BY <1>1, <1>2, <1>3, <1>4, <1>5, <1>6, <1>7, <1>8 DEF NavigationNext

LEMMA NavigationInitInv ==
  ASSUME NavigationInit
  PROVE  NavigationInv
<1>1. hist = [back |-> <<Home>>, forth |-> <<>>] /\ Home \in Dirs
  BY NavigationAssumption DEF NavigationInit
<1>2. Remembers(hist)
  BY <1>1 DEF Remembers, HistType
<1>3. list = <<>> /\ list \in Seq(DiskFiles) /\ DOMAIN list = {}
  BY DEF NavigationInit
<1>4. BrowsingType /\ Searching
  <2>1. disk = DiskFiles /\ rows = DiskFiles \ Hidden /\ index = -1 /\ name = None /\ loop = <<>>
    BY DEF NavigationInit
  <2>2. fault \in BOOLEAN /\ vanished \in BOOLEAN /\ failed \in BOOLEAN
    BY DEF NavigationInit
  <2>3. index \in Int
    BY <2>1
  <2>. QED  BY <1>3, <2>1, <2>2, <2>3 DEF BrowsingType, Searching
<1>5. Listed
  BY <1>3 DEF NavigationInit, Listed
<1>. QED  BY <1>2, <1>4, <1>5 DEF NavigationInv

LEMMA NavigationInvariance == NavigationSpec => []NavigationInv
<1>1. NavigationInit => NavigationInv
  BY NavigationInitInv
<1>2. NavigationInv /\ [NavigationNext]_navigationVars => NavigationInv'
  BY NavigationStepInv
<1>. QED  BY <1>1, <1>2, PTL DEF NavigationSpec

\* Wherever the tree went, back moves and forward undoes it, since no directory is
\* kept twice in a row (myFileTree.cpp:181-214, 348-350).
THEOREM BackUndoneByForward == NavigationSpec => []BackAndForth
<1>1. NavigationInv => BackAndForth
  BY BackedRemembers DEF NavigationInv, BackAndForth
<1>. QED  BY <1>1, NavigationInvariance, PTL

\* Until another program deletes a file or a load fails, the list has files that
\* exist only and the search never reads beyond it (myQImageviewer.cpp:128-205).
THEOREM ListedFilesExist == NavigationSpec => []BrowsingIsSafe
<1>1. NavigationInv => BrowsingIsSafe
  BY DEF NavigationInv, Listed, BrowsingIsSafe, ToSet
<1>. QED  BY <1>1, NavigationInvariance, PTL

\* Where viewer and tree are when they are together: list and rows are one sequence,
\* the rows with some directories before it.
LEMMA TogetherPlaces ==
  ASSUME BrowsingType, Together
  PROVE  \E m \in Nat, k \in 1 .. Len(list) :
           /\ Len(list) \in Nat /\ DOMAIN list = 1 .. Len(list)
           /\ DOMAIN View = 1 .. m + Len(list)
           /\ \A i \in 1 .. m : View[i] \in Dirs
           /\ \A i \in 1 .. Len(list) :
                View[m + i] = list[i] /\ list[i] \in disk /\ list[i] \notin Dirs
           /\ Row = m + k /\ list[k] = name /\ index = k - 1
<1>1. /\ root = Home /\ rows = disk \ Hidden /\ list = Sorted(rows) /\ name # None
      /\ index = Position(list, name) /\ Row # 0 /\ View[Row] = name
  BY DEF Together
<1>2. PICK m \in Nat :
        /\ Len(list) \in Nat /\ DOMAIN list = 1 .. Len(list)
        /\ DOMAIN View = 1 .. m + Len(list)
        /\ \A i \in 1 .. m : View[i] \in Dirs
        /\ \A i \in 1 .. Len(list) : View[m + i] = list[i]
  BY <1>1, ViewHolds DEF BrowsingType
<1>3. /\ list \in [1 .. Len(list) -> rows]
      /\ \A i \in DOMAIN list : list[i] = name => Position(list, name) = i - 1
  BY <1>1, SortedFiles DEF BrowsingType
<1>4. \A i \in 1 .. Len(list) : list[i] \in disk /\ list[i] \notin Dirs
  <2>1. rows \subseteq disk /\ rows \cap Dirs = {}
    BY <1>1, NavigationAssumption DEF BrowsingType
  <2>. QED  BY <1>3, <2>1
<1>5. Row \in DOMAIN View
  BY <1>1 DEF Row
<1>6. name \in DiskFiles /\ name \notin Dirs
  BY <1>1, NavigationAssumption DEF BrowsingType
<1>. DEFINE k == Row - m
<1>7. k \in 1 .. Len(list) /\ Row = m + k
  <2>1. Row \in 1 .. m + Len(list) /\ Row \notin 1 .. m
    BY <1>1, <1>2, <1>5, <1>6
  <2>. QED  BY <1>2, <2>1
<1>. HIDE DEF k
<1>8. list[k] = name /\ index = k - 1
  BY <1>1, <1>2, <1>3, <1>7
<1>. QED  BY <1>2, <1>4, <1>7, <1>8

\* Only the last turn of the search ends it.
LEMMA TurnEndsSearch ==
  ASSUME NavigationNext, loop # <<>>, loop' = <<>>
  PROVE  Turn
<1>1. Idle => loop = <<>>
  BY DEF Idle
<1>2. ~(\E f \in DiskFiles : OpenFile(f) \/ Vanish(f))
  BY <1>1 DEF OpenFile, Vanish
<1>3. ~(\E r \in DOMAIN View : DoubleClick(r))
  BY <1>1 DEF DoubleClick
<1>4. ~(\E d \in {-1, 1} : KeyPress(d) \/ Step(d))
  BY <1>1 DEF KeyPress, Step
<1>5. ~CancelOpen /\ ~DeleteFile /\ ~CloseFile /\ ~Reload /\ ~Refresh
  BY <1>1 DEF CancelOpen, DeleteFile, CloseFile, Reload, Refresh
<1>6. \A h : ~Moves(h)
  BY <1>1 DEF Moves
<1>7. /\ ~OnBackClicked /\ ~OnGoClicked /\ ~OnUpClicked
      /\ ~(\E dir \in Dirs : OnEnterClicked(dir))
  BY <1>6 DEF OnBackClicked, OnGoClicked, OnUpClicked, OnEnterClicked
<1>. QED  BY <1>2, <1>3, <1>4, <1>5, <1>7 DEF NavigationNext

LEMMA NeighbourIsShown ==
  ASSUME NavigationInv, Turn, loop' = <<>>, Together
  PROVE  LET i == index + 1 + loop[1]
         IN  IF i \in DOMAIN list
             THEN /\ name' = list[i] /\ cursor'[2] = list[i]
                  /\ shown' = IF list[i] \in Bad THEN None ELSE list[i]
             ELSE UNCHANGED <<shown, cursor>>
<1>1. BrowsingType /\ loop # <<>>
  BY DEF NavigationInv, Turn
<1>2. PICK m \in Nat, k \in 1 .. Len(list) :
        /\ Len(list) \in Nat /\ DOMAIN list = 1 .. Len(list)
        /\ DOMAIN View = 1 .. m + Len(list)
        /\ \A i \in 1 .. m : View[i] \in Dirs
        /\ \A i \in 1 .. Len(list) :
             View[m + i] = list[i] /\ list[i] \in disk /\ list[i] \notin Dirs
        /\ Row = m + k /\ list[k] = name /\ index = k - 1
  BY <1>1, TogetherPlaces
<1>3. PICK d \in {-1, 1} : loop = <<d, Len(list)>>
  BY <1>1, <1>2 DEF NavigationInv, Searching
<1>. DEFINE j == k + d
            i == Around(index + d, Len(list))
            r == Beside(d)
<1>4. loop[1] = d /\ loop[2] = Len(list) /\ index + 1 + loop[1] = j
  BY <1>2, <1>3
<1>5. r = m + j
  <2>1. Row # 0 /\ cursor # <<>>
    BY <1>2 DEF Row
  <2>. QED  BY <1>2, <2>1 DEF Beside, BesideBy
<1>6. i \in 0 .. Len(list) - 1 /\ (j \in 1 .. Len(list) => i + 1 = j)
  <2>1. Len(list) \in Nat \ {0} /\ index + d \in Int /\ index + d = j - 1
    BY <1>2
  <2>. HIDE DEF j
  <2>2. i \in 0 .. Len(list) - 1 /\ (j - 1 \in 0 .. Len(list) - 1 => i = j - 1)
    BY <2>1, AroundInRange
  <2>. QED  BY <1>2, <2>1, <2>2
<1>7. TreeFollows(d, i) \/ (Stays(d) /\ UNCHANGED <<shown, cursor>>)
  <2>1. ~(i >= Len(list)) /\ list[i + 1] \in disk
    BY <1>2, <1>6
  <2>2. Around(index + loop[1], loop[2]) = i
    BY <1>4
  <2>. HIDE DEF i
  <2>3. \/ TreeFollows(loop[1], i)
        \/ Stays(loop[1]) /\ UNCHANGED <<list, shown, failed, vanished, tree>>
    BY <2>1, <2>2 DEF Turn
  <2>. QED  BY <1>4, <2>3 DEF tree
<1>. HIDE DEF i, r, j
<1>8. CASE j \in 1 .. Len(list)
  <2>1. r \in DOMAIN View /\ View[r] = list[j] /\ list[j] \in disk /\ list[j] \notin Dirs
    BY <1>2, <1>5, <1>8
  <2>2. /\ cursor' = <<r, list[j]>> /\ name' = list[j]
        /\ shown' = IF list[j] \in disk \ Bad THEN list[j] ELSE None
    BY <1>7, <2>1 DEF TreeFollows, Stays, Opened, r
  <2>. QED  BY <1>2, <1>4, <1>8, <2>1, <2>2
<1>9. CASE j \notin 1 .. Len(list)
  <2>1. j = 0 \/ j = Len(list) + 1
    BY <1>2, <1>9 DEF j
  <2>2. r \in DOMAIN View => View[r] \in Dirs
    BY <1>2, <1>5, <2>1
  <2>3. UNCHANGED <<shown, cursor>>
    BY <1>7, <2>2 DEF TreeFollows, Stays, r
  <2>. QED  BY <1>2, <1>4, <1>9, <2>3
<1>. QED  BY <1>8, <1>9

\* Last and next show the neighbour that viewer and tree agree on, and nothing else
\* at either end (mainwindow.cpp:241-271, myFileTree.cpp:376-394).
THEOREM NeighbourComesNext == NavigationSpec => StepsToNeighbour
<1>. DEFINE Comes ==
       loop # <<>> /\ loop' = <<>> /\ Together =>
         LET i == index + 1 + loop[1]
         IN  IF i \in DOMAIN list
             THEN /\ name' = list[i] /\ cursor'[2] = list[i]
                  /\ shown' = IF list[i] \in Bad THEN None ELSE list[i]
             ELSE UNCHANGED <<shown, cursor>>
<1>1. ASSUME NavigationInv, [NavigationNext]_navigationVars  PROVE [Comes]_navigationVars
  <2>. SUFFICES ASSUME NavigationNext, loop # <<>>, loop' = <<>>, Together  PROVE Comes
    BY <1>1
  <2>1. Turn
    BY TurnEndsSearch
  <2>. QED  BY <1>1, <2>1, NeighbourIsShown
<1>. HIDE DEF Comes
<1>2. NavigationSpec => [][NavigationNext]_navigationVars
  BY DEF NavigationSpec
<1>3. NavigationSpec => [][Comes]_navigationVars
  BY <1>1, <1>2, NavigationInvariance, PTL
<1>. QED  BY <1>3 DEF StepsToNeighbour, Comes
=============================================================================
