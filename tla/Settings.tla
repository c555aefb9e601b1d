------------------------------ MODULE Settings ------------------------------
(***************************************************************************)
(* The configuration file of nyuv and what is kept in it: class Config     *)
(* (src/gui/autocomplete/autocomplete_config.cpp), the known formats       *)
(* (autocomplete_format.cpp), the update check (mywidgets/update.cpp), and *)
(* the order in which main.cpp and the main window call them.              *)
(*                                                                         *)
(* The file has four sections.  It is read once, before main(), and written*)
(* once, after it: by then every section must have been dumped, for one    *)
(* that was not belongs to another document and cannot be inserted.  Two   *)
(* programs may run on one file, and a program may be killed at any point. *)
(***************************************************************************)
EXTENDS Guess

CONSTANTS Programs,   \* running instances of nyuv
          Shipped,    \* the contents of the file as it is installed
          Dirs,       \* directories the user goes to
          Files,      \* files the user opens, see Guess; `raw` is FALSE for a .png
          Edits,      \* formats the user types into the information bar
          Latest,     \* the version the server names
          MaxStarts, MaxUses, MaxPending   \* bounds of the exploration: programs
                      \* started, formats used, replies a program waits for

Sections == {"PATH", "FORMAT", "FILTER", "VERSION"}

\* Contents with a value in every section, as the installed file has
\* (autocomplete/.nyuv.config).
Whole(c) ==
  c = [PATH    |-> <<c["PATH"][1]>>,
       FORMAT  |-> <<c["FORMAT"][1]>>,
       FILTER  |-> <<c["FILTER"][1]>>,
       VERSION |-> <<[current |-> c["VERSION"][1].current, ignore |-> c["VERSION"][1].ignore]>>]

\* A format with how often it was used.
Formats == [height : Nat, width : Nat, stride : Nat, weight : Nat]

ASSUME SettingsAssumption ==
  /\ Whole(Shipped)
  /\ Shipped["FORMAT"][1] \in Seq(Formats)

VARIABLES file,    \* <<contents>>, or <<>> while it is not a whole document;
                   \* contents map a section to <<value>>, or <<>> if it is missing
          prog,    \* what each program holds, see Off
          starts,  \* how many programs were started
          spent    \* how many formats were used in all of them

vars == <<file, prog, starts, spent>>

Nothing == [s \in Sections |-> <<>>]

Off ==
  [phase   |-> "off",     \* "args", "window", "saving", "writing", "crashed"
   doc     |-> <<>>,      \* m_doc: the file as it was read
   dump    |-> Nothing,   \* m_doc_xxx_dump: <<>> while it still points into m_doc
   list    |-> <<>>,      \* m_originlist
   bar     |-> <<>>,      \* <<the format in the information bar>>
   shown   |-> <<>>,      \* <<m_dir of the file tree>>
   ignored |-> 0,         \* m_ignoreversion
   silent  |-> TRUE,      \* m_ignore of the last check
   pending |-> 0,         \* replies the server owes
   opened  |-> <<>>,      \* <<the file opened last>>
   uses    |-> 0]         \* how often a format was used

Init ==
  /\ file = <<Shipped>>
  /\ prog = [p \in Programs |-> Off]
  /\ starts = 0 /\ spent = 0

-----------------------------------------------------------------------------
(* Config *)

\* Config::load(type): what was read is dumped again.
Load(s, section) == [s EXCEPT !.dump[section] = s.doc[1][section]]

Dump(s, section, value) == [s EXCEPT !.dump[section] = <<value>>]

\* Mutant: a version alone is worth saving too.
DirtyByVersion(s) == \E x \in {"PATH", "FORMAT", "VERSION"} : s.dump[x] # <<>>

\* Config::dump() writes when PATH or FORMAT is not what it was at the start.
Dirty(s) == s.dump["PATH"] # <<>> \/ s.dump["FORMAT"] # <<>>

Crash(s) == [s EXCEPT !.phase = "crashed"]
Exit(s) == [s EXCEPT !.phase = "saving"]

-----------------------------------------------------------------------------
(* AutoCompleteFormat *)

\* The decimal string of h is a prefix of that of g.
Begins(h, g) == \E k \in 0 .. 5 : g \div 10 ^ k = h

Candidates(list, h) == {i \in DOMAIN list : Begins(h, list[i].height)}
Entry(f) == [height |-> f.height, width |-> f.width, stride |-> f.stride, weight |-> 1]

\* Mutant: every candidate is counted.
AddToAll(list, f) ==
  IF Candidates(list, f.height) = {} THEN Append(list, Entry(f))
  ELSE [i \in DOMAIN list |-> IF i \in Candidates(list, f.height)
                              THEN [list[i] EXCEPT !.weight = @ + 1] ELSE list[i]]

\* add(): parse() collects the candidates of HEIGHT, WIDTH and STRIDE in one
\* list and fails while that is empty, so the first of HEIGHT decides.
Add(list, f) ==
  LET found == Candidates(list, f.height)
      first == CHOOSE i \in found : \A j \in found : i <= j
  IN  IF found = {} THEN Append(list, Entry(f))
      ELSE [list EXCEPT ![first].weight = @ + 1]

\* ImageInformationBar::value() on the format in the bar.
Used(s) ==
  LET list == Add(s.list, s.bar[1])
  IN  Dump([s EXCEPT !.list = list, !.uses = @ + 1], "FORMAT", list)

\* initInfo(): the first entry of the greatest weight.
Favourite(list) ==
  list[CHOOSE i \in DOMAIN list :
         /\ \A j \in DOMAIN list : list[j].weight <= list[i].weight
         /\ \A j \in 1 .. i - 1 : list[j].weight < list[i].weight]

\* A new information bar shows it, with the first type of the box; an empty list
\* leaves the bar at the least its fields can hold.
InitialFormat(list) ==
  LET e == IF list = <<>> THEN [height |-> 1, width |-> 1, stride |-> 0, weight |-> 0]
           ELSE Favourite(list)
  IN  [height |-> e.height, width |-> e.width, stride |-> e.stride, type |-> Types[1].name]

-----------------------------------------------------------------------------
(* main() and the constructors of the main window *)

\* The file is read, and main() asks for the version before anything else.
Started ==
  LET s == [Off EXCEPT !.phase = "args", !.doc = file]
  IN  IF file = <<>> \/ file[1]["VERSION"] = <<>> THEN Crash(s) ELSE Load(s, "VERSION")

Start(p) ==
  /\ prog[p].phase = "off" /\ starts < MaxStarts
  /\ starts' = starts + 1
  /\ prog' = [prog EXCEPT ![p] = Started]
  /\ UNCHANGED <<file, spent>>

Becomes(p, s) ==
  /\ prog' = [prog EXCEPT ![p] = s]
  /\ spent' = spent + (s.uses - prog[p].uses)
  /\ UNCHANGED <<file, starts>>

\* --help, --version, or a path that does not exist.
NoWindow(p) == prog[p].phase = "args" /\ Becomes(p, Exit(prog[p]))

\* LocalFileSystemViewer::changeRootPath, with MainWindow::filetreeShowAction.
ChangeRootPath(s, dir) == Dump([s EXCEPT !.shown = <<dir>>], "PATH", dir)

ReadFormats(s) ==
  LET list == s.doc[1]["FORMAT"][1]
  IN  [Load(s, "FORMAT") EXCEPT !.list = list, !.bar = <<InitialFormat(list)>>]

\* MainWindow::MainWindow(): PATH, the Update object, the information bar, the
\* file tree, and a first check for a new version.
Windowed(s) ==
  LET t == Load(ReadFormats(Load(Load(s, "PATH"), "VERSION")), "FILTER")
  IN  [ChangeRootPath(t, s.doc[1]["PATH"][1])
         EXCEPT !.phase = "window", !.ignored = s.doc[1]["VERSION"][1].ignore,
                !.silent = TRUE, !.pending = 1]

\* With a path as argument its directory is shown at once.
OpenWindow(p) ==
  LET s == prog[p]
  IN  /\ s.phase = "args"
      /\ IF s.doc[1]["PATH"] = <<>> \/ s.doc[1]["FORMAT"] = <<>>
         THEN Becomes(p, Crash(s))
         ELSE \/ Becomes(p, Windowed(s))
              \/ \E dir \in Dirs : Becomes(p, ChangeRootPath(Windowed(s), dir))

-----------------------------------------------------------------------------
(* The window *)

InWindow(p) == prog[p].phase = "window"
MayUse == spent < MaxUses

ChangeDir(p, dir) == InWindow(p) /\ Becomes(p, ChangeRootPath(prog[p], dir))

Edit(p, format) == InWindow(p) /\ Becomes(p, [prog[p] EXCEPT !.bar = <<format>>])

\* getFileInfoList() reads the filter; parse() guesses, unless the file is a
\* picture, the bar is locked or another tab has the same format; the format in
\* the bar is used in any case.
Open(p, f) ==
  LET s == [Load(prog[p], "FILTER") EXCEPT !.opened = <<f>>]
  IN  /\ InWindow(p) /\ MayUse
      /\ \/ Becomes(p, Used(s))
         \/ /\ f.raw
            /\ Becomes(p, Used([s EXCEPT !.bar = <<Guessed(s.list, f, s.bar[1])>>]))

Submit(p) == InWindow(p) /\ MayUse /\ Becomes(p, Used(prog[p]))

\* Mutant: the check reads the configuration again.
AskReading(s) == [Load(s, "VERSION") EXCEPT !.silent = FALSE, !.pending = @ + 1]

\* Update::check(), from the menu.
Ask(s) == [s EXCEPT !.silent = FALSE, !.pending = @ + 1]

CheckUpdate(p) == InWindow(p) /\ prog[p].pending < MaxPending /\ Becomes(p, Ask(prog[p]))

Current(s) == s.doc[1]["VERSION"][1].current

\* An answer, or none: the user downloads and leaves, ignores the version for
\* good if nobody asked, or does neither.
Reply(p) ==
  LET s == [prog[p] EXCEPT !.pending = @ - 1]
      offered(v) == v > Current(s) /\ ~(s.silent /\ v <= s.ignored)
  IN  /\ InWindow(p) /\ prog[p].pending > 0
      /\ \/ Becomes(p, s)
         \/ \E v \in Latest :
              /\ offered(v)
              /\ \/ Becomes(p, Exit(s))
                 \/ /\ s.silent
                    /\ Becomes(p, Dump([s EXCEPT !.ignored = v], "VERSION",
                                       [current |-> Current(s), ignore |-> v]))

Quit(p) == InWindow(p) /\ Becomes(p, Exit(prog[p]))

-----------------------------------------------------------------------------
(* ~Config() and the ways a program ends *)

Gone(p) == prog' = [prog EXCEPT ![p] = Off] /\ UNCHANGED <<starts, spent>>

NothingToSave(p) ==
  /\ prog[p].phase = "saving" /\ ~Dirty(prog[p])
  /\ Gone(p) /\ UNCHANGED file

\* SaveFile() opens the file, which empties it, ...
Truncate(p) ==
  /\ prog[p].phase = "saving" /\ Dirty(prog[p])
  /\ file' = <<>>
  /\ prog' = [prog EXCEPT ![p].phase = "writing"]
  /\ UNCHANGED <<starts, spent>>

\* ... and writes it.  Whoever wrote since then leaves its end behind the new
\* one if its text was longer.
WriteOut(p) ==
  /\ prog[p].phase = "writing"
  /\ \/ file' = <<prog[p].dump>>
     \/ file # <<>> /\ file' = <<>>
  /\ Gone(p)

Kill(p) ==
  /\ prog[p].phase # "off"
  /\ Gone(p) /\ UNCHANGED file

Step(p) ==
  \/ Start(p) \/ NoWindow(p) \/ OpenWindow(p)
  \/ \E dir \in Dirs : ChangeDir(p, dir)
  \/ \E format \in Edits : Edit(p, format)
  \/ \E f \in Files : Open(p, f)
  \/ Submit(p) \/ CheckUpdate(p) \/ Reply(p) \/ Quit(p)
  \/ NothingToSave(p) \/ Truncate(p) \/ WriteOut(p) \/ Kill(p)

Next == \E p \in Programs : Step(p)

Spec == Init /\ [][Next]_vars

-----------------------------------------------------------------------------
\* nyuv starts on whatever file another run of it left, however short that run
\* was: a section is never lost, and only a program killed while it wrote, or two
\* that wrote at once, leave a file it crashes on (autocomplete_config.cpp:36,
\* 76, 98, 115, 125-143).
NoSectionLost ==
  \A p \in Programs : prog[p].phase = "crashed" => prog[p].doc = <<>>

\* What a program that had a window writes is what its parts held last: the
\* directory of the tree, the formats with their weights, the version the user
\* ignored.  Loading a section dumps it as it was at the start, so a part that
\* loads it after another has dumped it undoes that
\* (autocomplete_config.cpp:73-123).
LastWordIsSaved ==
  \A p \in Programs :
    LET s == prog[p]
    IN  s.phase \in {"saving", "writing"} /\ s.shown # <<>> =>
          s.dump = [PATH    |-> s.shown,
                    FORMAT  |-> <<s.list>>,
                    FILTER  |-> s.doc[1]["FILTER"],
                    VERSION |-> <<[current |-> Current(s), ignore |-> s.ignored]>>]

\* The sum of the weights, as the number of uses that make them up.
Total(list) == Cardinality(UNION {{i} \X (1 .. list[i].weight) : i \in DOMAIN list})

\* Every use of a format makes one weight greater by one, and no known format is
\* forgotten or loses weight, from the file that was read to the one that will be
\* written (autocomplete_format.cpp:182-206).
UsesAreKept ==
  \A p \in Programs :
    LET s == prog[p]
        read == s.doc[1]["FORMAT"][1]
    IN  s.phase \in {"window", "saving", "writing"} /\ s.shown # <<>> =>
          /\ Total(s.dump["FORMAT"][1]) = Total(read) + s.uses
          /\ \A i \in DOMAIN read :
               /\ Entry(s.dump["FORMAT"][1][i]) = Entry(read[i])
               /\ s.dump["FORMAT"][1][i].weight >= read[i].weight

\* The pairs of neighbours in a name, either of which may be the height.
Neighbours(f) ==
  LET n == Numbers(f)
      at == {i \in 1 .. Len(n) - 1 : n[i] # 0 /\ n[i + 1] # 0}
  IN  {<<n[i], n[i + 1]>> : i \in at}

BothWays(pairs) == pairs \cup {<<q[2], q[1]>> : q \in pairs}

SizeIsBest(f, list, old, new) ==
  LET known == {q \in BothWays(Neighbours(f)) : Known(list, q[1], q[2])}
      even == {q \in BothWays(Neighbours(f)) :
                 /\ Plausible(q) /\ q[1] <= q[2] /\ q[1] * q[2] \in 1 .. 2 * f.size - 1}
      best == {q \in even : \A r \in even : Apart(q[1] * q[2], f.size) <= Apart(r[1] * r[2], f.size)}
      found == IF known # {} THEN known ELSE best
  IN  IF found = {}
      THEN [new EXCEPT !.type = old.type] = old
      ELSE <<new.height, new.width>> \in found /\ new.stride = f.size \div new.height

\* The size in bytes of no type is relatively closer to that of the file.
TypeIsBest(f, new) ==
  LET distance(t) == <<Apart(Target(t, new), f.size), Target(t, new) + f.size>>
      all == {Types[i] : i \in DOMAIN Types}
      closer(a, b) == distance(a)[1] * distance(b)[2] < distance(b)[1] * distance(a)[2]
  IN  IF f.suffix # "none" THEN new.type = f.suffix
      ELSE \E t \in all : t.name = new.type /\ ~\E u \in all : closer(u, t)

\* A guess that changes the bar takes a size from the name, a known one if there
\* is any and otherwise the one nearest to the file, and the type of the suffix or
\* the one that fits the file best; a name without a usable pair leaves the size
\* as it was (autocomplete_utils.cpp:94-277).
GuessIsBest ==
  [][\A p \in Programs :
       LET s == prog[p]
           t == prog'[p]
       IN  t.uses > s.uses /\ t.bar # s.bar =>
             /\ SizeIsBest(t.opened[1], s.list, s.bar[1], t.bar[1])
             /\ TypeIsBest(t.opened[1], t.bar[1])]_vars

\* The comment at autocomplete_format.cpp:192: if everything matches, the weight
\* of that format grows by one; otherwise the format is a new one.
AddCounts ==
  [][\A p \in Programs :
       LET s == prog[p]
           t == prog'[p]
           same == {i \in DOMAIN s.list : Entry(s.list[i]) = Entry(t.bar[1])}
       IN  t.uses > s.uses =>
             IF same = {} THEN t.list = Append(s.list, Entry(t.bar[1]))
             ELSE \E i \in same : t.list = [s.list EXCEPT ![i].weight = @ + 1]]_vars
=============================================================================
