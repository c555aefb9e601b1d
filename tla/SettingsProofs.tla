--------------------------- MODULE SettingsProofs ---------------------------
(***************************************************************************)
(* Theorems about Settings, for any number of programs on one file.  Two   *)
(* facts carry them: a document that was read is whole or was not a        *)
(* document at all, and what a program is going to write is either what it *)
(* read of one section (then it writes nothing) or all that its parts hold.*)
(* The uses of formats are counted as elements of a set, to which each use *)
(* adds one.                                                               *)
(***************************************************************************)
EXTENDS Settings, SequenceTheorems, FiniteSetTheorems, WellFoundedInduction, TLAPS

(* Lists of formats.                                                       *)

\* Height, width and stride of a guessed format are whatever the name says.
IsFormat(e) ==
  /\ e = [height |-> e.height, width |-> e.width, stride |-> e.stride, weight |-> e.weight]
  /\ e.weight \in Nat

Elements(list) == {list[i] : i \in DOMAIN list}

IsList(list) == list \in Seq(Elements(list)) /\ \A i \in DOMAIN list : IsFormat(list[i])

\* The uses that Total counts.
Uses(list) == UNION {{i} \X (1 .. list[i].weight) : i \in DOMAIN list}

\* None is forgotten or loses weight.
Remembers(list, read) ==
  \A i \in DOMAIN read :
    i \in DOMAIN list /\ Entry(list[i]) = Entry(read[i]) /\ list[i].weight >= read[i].weight

LEMMA LeastIndex ==
  ASSUME NEW T \in SUBSET Nat, T # {}
  PROVE  \E i \in T : \A j \in T : i <= j
<1>1. PICK i \in T : \A j \in T : <<j, i>> \notin OpToRel(<, Nat)
  BY NatLessThanWellFounded, WFMin
<1>2. \A j \in T : ~(j < i)
  BY <1>1 DEF OpToRel
<1>. QED  BY <1>2

LEMMA UsesAreFinite ==
  ASSUME NEW list, IsList(list)
  PROVE  IsFiniteSet(Uses(list))
<1>. DEFINE n == Len(list)
            f == [i \in 1 .. n |-> {i} \X (1 .. list[i].weight)]
            F == {{i} \X (1 .. list[i].weight) : i \in DOMAIN list}
<1>1. n \in Nat /\ DOMAIN list = 1 .. n
  BY LenProperties DEF IsList
<1>. HIDE DEF n
<1>2. f \in Surjection(1 .. n, F)
  BY <1>1 DEF Surjection
<1>. HIDE DEF f
<1>3. IsFiniteSet(1 .. n)
  BY <1>1, FS_Interval
<1>4. IsFiniteSet(F)
  BY <1>2, <1>3, FS_Surjection
<1>5. ASSUME NEW T \in F  PROVE IsFiniteSet(T)
  <2>1. PICK i \in DOMAIN list : T = {i} \X (1 .. list[i].weight)
    OBVIOUS
  <2>2. list[i].weight \in Nat
    BY DEF IsList, IsFormat
  <2>3. IsFiniteSet({i}) /\ IsFiniteSet(1 .. list[i].weight)
    <3>. DEFINE w == list[i].weight
    <3>1. 1 \in Int /\ w \in Int
      BY <2>2
    <3>. HIDE DEF w
    <3>2. IsFiniteSet(1 .. w)
      BY <3>1, FS_Interval
    <3>. QED  BY <3>2, FS_Singleton DEF w
  <2>. QED  BY <2>1, <2>3, FS_Product
<1>6. IsFiniteSet(UNION F)
  BY <1>4, <1>5, FS_UNION
<1>. QED  BY <1>6 DEF Uses

\* One use more makes the total one greater.
LEMMA OneUseMore ==
  ASSUME NEW list, IsList(list), NEW longer, NEW x, x \notin Uses(list),
         Uses(longer) = Uses(list) \cup {x}
  PROVE  Total(list) \in Nat /\ Total(longer) = Total(list) + 1
<1>1. IsFiniteSet(Uses(list))
  BY UsesAreFinite
<1>2. Total(list) = Cardinality(Uses(list)) /\ Total(longer) = Cardinality(Uses(longer))
  BY DEF Total, Uses
<1>3. Cardinality(Uses(list)) \in Nat
  BY <1>1, FS_CardinalityType
<1>4. Cardinality(Uses(list) \cup {x}) = Cardinality(Uses(list)) + 1
  BY <1>1, FS_AddElement
<1>. QED  BY <1>2, <1>3, <1>4

LEMMA LearningAddsOne ==
  ASSUME NEW list, IsList(list), NEW f
  PROVE  LET longer == Append(list, Entry(f))
         IN  /\ IsList(longer) /\ Remembers(longer, list)
             /\ Total(list) \in Nat /\ Total(longer) = Total(list) + 1
<1>. DEFINE n == Len(list)
            e == Entry(f)
            t == Append(list, e)
            S == Elements(list) \cup {e}
<1>1. n \in Nat /\ DOMAIN list = 1 .. n /\ list \in [1 .. n -> Elements(list)]
  BY LenProperties DEF IsList
<1>2. IsFormat(e) /\ e.weight = 1
  BY DEF Entry, IsFormat
<1>. HIDE DEF e
<1>3. list \in Seq(S)
  BY <1>1, SeqDef
<1>4. /\ t \in Seq(S) /\ Len(t) = n + 1 /\ DOMAIN t = 1 .. n + 1
      /\ \A i \in 1 .. n : t[i] = list[i]
      /\ t[n + 1] = e
  <2>1. e \in S
    OBVIOUS
  <2>. HIDE DEF S
  <2>. QED  BY <1>3, <2>1, AppendProperties, LenProperties
<1>. HIDE DEF t, n
<1>5. IsList(t)
  <2>1. t \in [1 .. n + 1 -> Elements(t)]
    BY <1>4, LenProperties DEF Elements
  <2>2. t \in Seq(Elements(t))
    BY <1>1, <2>1, SeqDef
  <2>3. ASSUME NEW i \in DOMAIN t  PROVE IsFormat(t[i])
    <3>1. i \in 1 .. n \/ i = n + 1
      BY <1>1, <1>4
    <3>. QED  BY <1>1, <1>2, <1>4, <3>1 DEF IsList
  <2>. QED  BY <2>2, <2>3 DEF IsList
<1>6. Remembers(t, list)
  <2>1. ASSUME NEW i \in DOMAIN list  PROVE i \in DOMAIN t /\ t[i] = list[i] /\ list[i].weight \in Nat
    BY <1>1, <1>4 DEF IsList, IsFormat
  <2>. QED  BY <2>1 DEF Remembers
<1>7. <<n + 1, 1>> \notin Uses(list)
  BY <1>1 DEF Uses
<1>8. Uses(t) = Uses(list) \cup {<<n + 1, 1>>}
  <2>1. \A x : x \in Uses(t) <=> \E i \in 1 .. n + 1 : x \in {i} \X (1 .. t[i].weight)
    BY <1>4 DEF Uses
  <2>2. \A x : x \in Uses(list) <=> \E i \in 1 .. n : x \in {i} \X (1 .. list[i].weight)
    BY <1>1 DEF Uses
  <2>3. {n + 1} \X (1 .. t[n + 1].weight) = {<<n + 1, 1>>}
    BY <1>2, <1>4
  <2>4. \A i \in 1 .. n + 1 : i \in 1 .. n \/ i = n + 1
    BY <1>1
  <2>5. \A i \in 1 .. n : i \in 1 .. n + 1
    BY <1>1
  <2>6. n + 1 \in 1 .. n + 1
    BY <1>1
  <2>. QED  BY <1>4, <2>1, <2>2, <2>3, <2>4, <2>5, <2>6
<1>. QED  BY <1>5, <1>6, <1>7, <1>8, OneUseMore DEF t, e

LEMMA CountingAddsOne ==
  ASSUME NEW list, IsList(list), NEW k \in DOMAIN list
  PROVE  LET more == [list EXCEPT ![k].weight = @ + 1]
         IN  /\ IsList(more) /\ Remembers(more, list)
             /\ Total(list) \in Nat /\ Total(more) = Total(list) + 1
<1>. DEFINE n == Len(list)
            w == list[k].weight
            e == [list[k] EXCEPT !.weight = @ + 1]
            t == [list EXCEPT ![k].weight = @ + 1]
<1>1. n \in Nat /\ DOMAIN list = 1 .. n /\ list \in [1 .. n -> Elements(list)]
  BY LenProperties DEF IsList
<1>2. w \in Nat /\ IsFormat(list[k])
  BY DEF IsList, IsFormat
<1>3. IsFormat(e) /\ e.weight = w + 1 /\ Entry(e) = Entry(list[k])
  BY <1>2 DEF IsFormat, Entry
<1>4. t = [list EXCEPT ![k] = e]
  OBVIOUS
<1>. HIDE DEF e, t
<1>5. /\ t = [i \in 1 .. n |-> IF i = k THEN e ELSE list[i]]
      /\ DOMAIN t = 1 .. n
  BY <1>1, <1>4
<1>6. t[k] = e /\ \A i \in 1 .. n : i # k => t[i] = list[i]
  BY <1>1, <1>5
<1>. HIDE DEF n
<1>7. IsList(t)
  <2>1. t \in [1 .. n -> Elements(t)]
    BY <1>5 DEF Elements
  <2>2. t \in Seq(Elements(t))
    BY <1>1, <2>1, SeqDef
  <2>. QED  BY <1>1, <1>3, <1>5, <1>6, <2>2 DEF IsList
<1>8. Remembers(t, list)
  <2>1. ASSUME NEW i \in DOMAIN list, i # k
        PROVE  i \in DOMAIN t /\ t[i] = list[i] /\ list[i].weight \in Nat
    BY <1>1, <1>5, <1>6, <2>1 DEF IsList, IsFormat
  <2>2. t[k].weight >= list[k].weight
    BY <1>2, <1>3, <1>6
  <2>. QED  BY <1>1, <1>3, <1>5, <1>6, <2>1, <2>2 DEF Remembers
<1>9. <<k, w + 1>> \notin Uses(list)
  BY <1>2 DEF Uses
<1>10. Uses(t) = Uses(list) \cup {<<k, w + 1>>}
  <2>1. \A x : x \in Uses(t) <=> \E i \in 1 .. n : x \in {i} \X (1 .. t[i].weight)
    BY <1>5 DEF Uses
  <2>2. \A x : x \in Uses(list) <=> \E i \in 1 .. n : x \in {i} \X (1 .. list[i].weight)
    BY <1>1 DEF Uses
  <2>3. {k} \X (1 .. t[k].weight) = ({k} \X (1 .. w)) \cup {<<k, w + 1>>}
    <3>1. 1 .. w + 1 = (1 .. w) \cup {w + 1}
      BY <1>2
    <3>. QED  BY <1>3, <1>6, <3>1
  <2>4. k \in 1 .. n
    BY <1>1
  <2>. HIDE DEF w
  <2>5. ASSUME NEW x \in Uses(t)  PROVE x \in Uses(list) \cup {<<k, w + 1>>}
    <3>1. PICK i \in 1 .. n : x \in {i} \X (1 .. t[i].weight)
      BY <2>1
    <3>. QED  BY <3>1, <1>6, <2>2, <2>3, <2>4 DEF w
  <2>6. ASSUME NEW x \in Uses(list)  PROVE x \in Uses(t)
    <3>1. PICK i \in 1 .. n : x \in {i} \X (1 .. list[i].weight)
      BY <2>2
    <3>. QED  BY <3>1, <1>6, <2>1, <2>3, <2>4 DEF w
  <2>7. <<k, w + 1>> \in Uses(t)
    BY <2>1, <2>3, <2>4
  <2>. QED  BY <2>5, <2>6, <2>7
<1>. QED  BY <1>7, <1>8, <1>9, <1>10, OneUseMore DEF t

\* add() makes the list one use heavier, and only heavier.
LEMMA AddCountsOne ==
  ASSUME NEW list, IsList(list), NEW f
  PROVE  /\ IsList(Add(list, f)) /\ Remembers(Add(list, f), list)
         /\ Total(list) \in Nat /\ Total(Add(list, f)) = Total(list) + 1
<1>. DEFINE found == Candidates(list, f.height)
            first == CHOOSE i \in found : \A j \in found : i <= j
<1>1. Add(list, f) = IF found = {} THEN Append(list, Entry(f))
                     ELSE [list EXCEPT ![first].weight = @ + 1]
  BY DEF Add
<1>2. found \subseteq DOMAIN list /\ DOMAIN list \subseteq Nat
  BY LenProperties DEF Candidates, IsList
<1>. HIDE DEF found
<1>3. found # {} => first \in DOMAIN list
  BY <1>2, LeastIndex
<1>. HIDE DEF first
<1>. QED  BY <1>1, <1>3, LearningAddsOne, CountingAddsOne

LEMMA TotalIsNumber ==
  ASSUME NEW list, IsList(list)
  PROVE  Total(list) \in Nat /\ Remembers(list, list)
<1>1. Total(list) \in Nat
  BY UsesAreFinite, FS_CardinalityType DEF Total, Uses
<1>2. \A i \in DOMAIN list : list[i].weight \in Nat
  BY DEF IsList, IsFormat
<1>. QED  BY <1>1, <1>2 DEF Remembers

LEMMA StillRemembers ==
  ASSUME NEW a, NEW b, NEW c, IsList(a), IsList(b), IsList(c), Remembers(b, a), Remembers(c, b)
  PROVE  Remembers(c, a)
<1>1. \A i : /\ i \in DOMAIN a => a[i].weight \in Nat
             /\ i \in DOMAIN b => b[i].weight \in Nat
             /\ i \in DOMAIN c => c[i].weight \in Nat
  BY DEF IsList, IsFormat
<1>. QED  BY <1>1 DEF Remembers

LEMMA ShippedIsList == IsList(Shipped["FORMAT"][1])
<1>. DEFINE list == Shipped["FORMAT"][1]
<1>1. list \in Seq(Formats)
  BY SettingsAssumption
<1>. HIDE DEF list
<1>2. Len(list) \in Nat /\ list \in [1 .. Len(list) -> Formats] /\ DOMAIN list = 1 .. Len(list)
  BY <1>1, LenProperties
<1>3. list \in [1 .. Len(list) -> Elements(list)]
  BY <1>2 DEF Elements
<1>4. list \in Seq(Elements(list))
  BY <1>2, <1>3, SeqDef
<1>5. \A i \in DOMAIN list : IsFormat(list[i])
  BY <1>2 DEF Formats, IsFormat
<1>. QED  BY <1>4, <1>5 DEF IsList, list

-----------------------------------------------------------------------------
(* What a program holds.                                                   *)

\* What the parts of a program with a window hold.
HeldLast(s) ==
  [PATH    |-> s.shown,
   FORMAT  |-> <<s.list>>,
   FILTER  |-> s.doc[1]["FILTER"],
   VERSION |-> <<[current |-> Current(s), ignore |-> s.ignored]>>]

Members == {"phase", "doc", "dump", "list", "bar", "shown", "ignored", "silent",
            "pending", "opened", "uses"}

IsProgram(s) == s = [x \in Members |-> s[x]]

Read(s) == s.doc[1]["FORMAT"][1]

\* A document with all sections and a list of formats in its place.
IsDocument(c) == Whole(c) /\ IsList(c["FORMAT"][1])

\* What was read and what was used since are what is known.
Counts(s) ==
  /\ IsList(s.list) /\ s.uses \in Nat
  /\ Total(s.list) = Total(Read(s)) + s.uses
  /\ Remembers(s.list, Read(s))

\* After main() has asked for the version, the only section there is.
Barely(s) ==
  /\ s.doc = <<s.doc[1]>> /\ IsDocument(s.doc[1]) /\ s.uses = 0
  /\ s.dump = [Nothing EXCEPT !["VERSION"] = s.doc[1]["VERSION"]]
  /\ s.shown = <<>>

\* With a window, and since it was closed.
Fully(s) ==
  /\ s.doc = <<s.doc[1]>> /\ IsDocument(s.doc[1])
  /\ s.shown = <<s.shown[1]>>
  /\ s.dump = HeldLast(s)
  /\ Counts(s)

Holds(s) ==
  /\ IsProgram(s)
  /\ CASE s.phase = "off" -> s = Off
       [] s.phase = "crashed" -> s.doc = <<>>
       [] s.phase = "args" -> Barely(s)
       [] s.phase = "window" -> Fully(s)
       [] s.phase = "saving" -> Barely(s) \/ Fully(s)
       [] s.phase = "writing" -> Fully(s)
       [] OTHER -> FALSE

\* The inductive invariant.
Inv ==
  /\ file # <<>> => file = <<file[1]>> /\ IsDocument(file[1])
  /\ DOMAIN prog = Programs /\ prog = [p \in Programs |-> prog[p]]
  /\ \A p \in Programs : Holds(prog[p])

-----------------------------------------------------------------------------
(* What the calls of a window keep.                                        *)

InAWindow(s) == IsProgram(s) /\ s.phase = "window" /\ Fully(s)

LEMMA WindowHolds ==
  ASSUME NEW s, InAWindow(s)
  PROVE  Holds(s)
BY DEF InAWindow, Holds

LEMMA SameCounts ==
  ASSUME NEW s, NEW t, Counts(s), t.doc = s.doc, t.list = s.list, t.uses = s.uses
  PROVE  Counts(t)
BY DEF Counts, Read

LEMMA DirKeeps ==
  ASSUME NEW s, InAWindow(s), NEW dir
  PROVE  InAWindow(ChangeRootPath(s, dir))
<1>. DEFINE t == ChangeRootPath(s, dir)
<1>1. /\ t = [s EXCEPT !.shown = <<dir>>, !.dump = [s.dump EXCEPT !["PATH"] = <<dir>>]]
      /\ s.dump = HeldLast(s)
  BY DEF InAWindow, Fully, IsProgram, Members, ChangeRootPath, Dump
<1>2. /\ IsProgram(t) /\ t.phase = "window" /\ t.doc = s.doc /\ t.list = s.list
      /\ t.uses = s.uses /\ t.ignored = s.ignored /\ t.shown = <<dir>>
      /\ t.dump = [s.dump EXCEPT !["PATH"] = <<dir>>]
  BY <1>1 DEF InAWindow, IsProgram, Members
<1>. HIDE DEF t
<1>3. t.dump = HeldLast(t)
  BY <1>1, <1>2 DEF HeldLast, Current
<1>. QED  BY <1>2, <1>3, SameCounts DEF InAWindow, Fully, t

\* The format in the bar is counted and the list is dumped with it.
LEMMA UsedKeeps ==
  ASSUME NEW s, InAWindow(s)
  PROVE  InAWindow(Used(s))
<1>. DEFINE list == Add(s.list, s.bar[1])
            t == Used(s)
<1>0. t = Dump([s EXCEPT !.list = list, !.uses = @ + 1], "FORMAT", list)
  BY DEF Used
<1>. HIDE DEF list
<1>1. /\ t = [s EXCEPT !.list = list, !.uses = @ + 1,
                       !.dump = [s.dump EXCEPT !["FORMAT"] = <<list>>]]
      /\ s.dump = HeldLast(s)
  BY <1>0 DEF InAWindow, Fully, IsProgram, Members, Dump
<1>2. /\ IsProgram(t) /\ t.phase = "window" /\ t.doc = s.doc /\ t.list = list
      /\ t.uses = s.uses + 1 /\ t.ignored = s.ignored /\ t.shown = s.shown
      /\ t.dump = [s.dump EXCEPT !["FORMAT"] = <<list>>]
  BY <1>1 DEF InAWindow, IsProgram, Members
<1>. HIDE DEF t
<1>3. t.dump = HeldLast(t)
  BY <1>1, <1>2 DEF HeldLast, Current
<1>4. Counts(t)
  <2>1. Counts(s) /\ IsList(Read(s)) /\ Read(t) = Read(s)
    BY <1>2 DEF InAWindow, Fully, IsDocument, Read
  <2>2. /\ IsList(list) /\ Remembers(list, s.list)
        /\ Total(s.list) \in Nat /\ Total(list) = Total(s.list) + 1
    BY <2>1, AddCountsOne DEF Counts, list
  <2>3. Total(Read(s)) \in Nat
    BY <2>1, TotalIsNumber
  <2>4. Remembers(list, Read(s))
    BY <2>1, <2>2, StillRemembers DEF Counts
  <2>5. Total(list) = Total(Read(t)) + t.uses
    BY <1>2, <2>1, <2>2, <2>3 DEF Counts
  <2>6. t.uses \in Nat
    BY <1>2, <2>1 DEF Counts
  <2>. QED  BY <1>2, <2>1, <2>2, <2>4, <2>5, <2>6 DEF Counts
<1>. QED  BY <1>2, <1>3, <1>4 DEF InAWindow, Fully, t

\* Reading the filter again leaves it as it was.
LEMMA FilterKeeps ==
  ASSUME NEW s, InAWindow(s), NEW f
  PROVE  InAWindow([Load(s, "FILTER") EXCEPT !.opened = <<f>>])
<1>. DEFINE t == [Load(s, "FILTER") EXCEPT !.opened = <<f>>]
<1>1. /\ t = [s EXCEPT !.dump = [s.dump EXCEPT !["FILTER"] = s.doc[1]["FILTER"]],
                       !.opened = <<f>>]
      /\ s.dump = HeldLast(s)
  BY DEF InAWindow, Fully, IsProgram, Members, Load
<1>2. /\ IsProgram(t) /\ t.phase = "window" /\ t.doc = s.doc /\ t.list = s.list
      /\ t.uses = s.uses /\ t.ignored = s.ignored /\ t.shown = s.shown
      /\ t.dump = [s.dump EXCEPT !["FILTER"] = s.doc[1]["FILTER"]]
  BY <1>1 DEF InAWindow, IsProgram, Members
<1>. HIDE DEF t
<1>3. t.dump = HeldLast(t)
  BY <1>1, <1>2 DEF HeldLast, Current
<1>. QED  BY <1>2, <1>3, SameCounts DEF InAWindow, Fully, t

\* The version the user ignores is dumped with the one that runs.
LEMMA IgnoreKeeps ==
  ASSUME NEW s, InAWindow(s), NEW v
  PROVE  InAWindow(Dump([s EXCEPT !.ignored = v], "VERSION", [current |-> Current(s), ignore |-> v]))
<1>. DEFINE value == [current |-> Current(s), ignore |-> v]
            t == Dump([s EXCEPT !.ignored = v], "VERSION", value)
<1>. HIDE DEF value
<1>1. /\ t = [s EXCEPT !.ignored = v, !.dump = [s.dump EXCEPT !["VERSION"] = <<value>>]]
      /\ s.dump = HeldLast(s)
  BY DEF InAWindow, Fully, IsProgram, Members, Dump
<1>2. /\ IsProgram(t) /\ t.phase = "window" /\ t.doc = s.doc /\ t.list = s.list
      /\ t.uses = s.uses /\ t.ignored = v /\ t.shown = s.shown
      /\ t.dump = [s.dump EXCEPT !["VERSION"] = <<value>>]
  BY <1>1 DEF InAWindow, IsProgram, Members
<1>. HIDE DEF t
<1>3. t.dump = HeldLast(t)
  BY <1>1, <1>2 DEF HeldLast, Current, value
<1>. QED  BY <1>2, <1>3, SameCounts DEF InAWindow, Fully, t, value

\* What the parts hold does not depend on these members.
LEMMA OtherMembersKeep ==
  ASSUME NEW s, InAWindow(s), NEW x, NEW y
  PROVE  /\ InAWindow([s EXCEPT !.bar = x])
         /\ InAWindow([s EXCEPT !.pending = x])
         /\ InAWindow([s EXCEPT !.silent = y, !.pending = x])
         /\ Holds(Exit(s))
<1>1. \A t : /\ IsProgram(t) /\ t.doc = s.doc /\ t.list = s.list /\ t.ignored = s.ignored
             /\ t.shown = s.shown /\ t.dump = s.dump /\ t.uses = s.uses
             => Fully(t)
  BY SameCounts DEF InAWindow, Fully, HeldLast, Current
<1>2. InAWindow([s EXCEPT !.bar = x])
  BY <1>1 DEF InAWindow, IsProgram, Members
<1>3. InAWindow([s EXCEPT !.pending = x])
  BY <1>1 DEF InAWindow, IsProgram, Members
<1>4. InAWindow([s EXCEPT !.silent = y, !.pending = x])
  BY <1>1 DEF InAWindow, IsProgram, Members
<1>5. IsProgram(Exit(s)) /\ Fully(Exit(s)) /\ Exit(s).phase = "saving"
  BY <1>1 DEF InAWindow, IsProgram, Members, Exit
<1>. QED  BY <1>2, <1>3, <1>4, <1>5 DEF Holds

-----------------------------------------------------------------------------
(* Starting.                                                               *)

LEMMA StartedHolds ==
  ASSUME Inv
  PROVE  Holds(Started)
<1>. DEFINE s == [Off EXCEPT !.phase = "args", !.doc = file]
<1>1. /\ IsProgram(s) /\ s.phase = "args" /\ s.doc = file /\ s.dump = Nothing
      /\ s.shown = <<>> /\ s.uses = 0
  BY DEF IsProgram, Members, Off
<1>2. Started = IF file = <<>> \/ file[1]["VERSION"] = <<>> THEN Crash(s) ELSE Load(s, "VERSION")
  BY DEF Started
<1>. HIDE DEF s
<1>3. CASE file = <<>>
  <2>1. IsProgram(Crash(s)) /\ Crash(s).phase = "crashed" /\ Crash(s).doc = <<>>
    BY <1>1, <1>3 DEF IsProgram, Members, Crash
  <2>. QED  BY <1>2, <1>3, <2>1 DEF Holds
<1>4. CASE file # <<>>
  <2>1. file = <<file[1]>> /\ IsDocument(file[1])
    BY <1>4 DEF Inv
  <2>2. file[1]["VERSION"] # <<>>
    BY <2>1 DEF IsDocument, Whole
  <2>3. Started = [s EXCEPT !.dump = [Nothing EXCEPT !["VERSION"] = file[1]["VERSION"]]]
    BY <1>1, <1>2, <1>4, <2>2 DEF Load, IsProgram, Members
  <2>4. /\ IsProgram(Started) /\ Started.phase = "args" /\ Started.doc = file
        /\ Started.shown = <<>> /\ Started.uses = 0
        /\ Started.dump = [Nothing EXCEPT !["VERSION"] = file[1]["VERSION"]]
    BY <1>1, <2>3 DEF IsProgram, Members
  <2>. QED  BY <2>1, <2>4 DEF Holds, Barely
<1>. QED  BY <1>3, <1>4

\* The constructors load every section, and the tree dumps the one it shows.
LEMMA WindowedHolds ==
  ASSUME NEW s, IsProgram(s), s.phase = "args", Barely(s)
  PROVE  InAWindow(Windowed(s))
<1>. DEFINE doc == s.doc[1]
            list == doc["FORMAT"][1]
            bar1 == <<InitialFormat(list)>>
            v == Load(Load(s, "PATH"), "VERSION")
            f == ReadFormats(v)
            t == Load(f, "FILTER")
            d == ChangeRootPath(t, doc["PATH"][1])
            w == Windowed(s)
<1>1. /\ IsDocument(doc) /\ Whole(doc) /\ s.doc = <<doc>> /\ s.uses = 0
      /\ s.dump = [Nothing EXCEPT !["VERSION"] = doc["VERSION"]]
  BY DEF Barely, IsDocument
<1>2. /\ doc["PATH"] = <<doc["PATH"][1]>> /\ doc["FORMAT"] = <<list>>
      /\ doc["VERSION"] = <<[current |-> doc["VERSION"][1].current,
                             ignore |-> doc["VERSION"][1].ignore]>>
  BY <1>1 DEF Whole
<1>3. /\ IsProgram(v) /\ v.doc = s.doc /\ v.uses = s.uses
      /\ v.dump = [[s.dump EXCEPT !["PATH"] = doc["PATH"]] EXCEPT !["VERSION"] = doc["VERSION"]]
  BY DEF Load, IsProgram, Members
<1>4. w = [d EXCEPT !.phase = "window", !.ignored = doc["VERSION"][1].ignore,
                    !.silent = TRUE, !.pending = 1]
  BY DEF Windowed
<1>. HIDE DEF v, bar1
<1>5. /\ IsProgram(f) /\ f.doc = s.doc /\ f.list = list /\ f.uses = s.uses
      /\ f.dump = [v.dump EXCEPT !["FORMAT"] = doc["FORMAT"]]
  <2>. DEFINE l == Load(v, "FORMAT")
  <2>1. f = [l EXCEPT !.list = list, !.bar = bar1]
    BY <1>3 DEF ReadFormats, bar1
  <2>2. /\ IsProgram(l) /\ l.doc = s.doc /\ l.uses = s.uses
        /\ l.dump = [v.dump EXCEPT !["FORMAT"] = doc["FORMAT"]]
    BY <1>3 DEF Load, IsProgram, Members
  <2>. HIDE DEF l, f, list
  <2>. QED  BY <2>1, <2>2 DEF IsProgram, Members
<1>. HIDE DEF f
<1>6. /\ IsProgram(t) /\ t.doc = s.doc /\ t.list = list /\ t.uses = s.uses
      /\ t.dump = [f.dump EXCEPT !["FILTER"] = doc["FILTER"]]
  BY <1>5 DEF Load, IsProgram, Members
<1>. HIDE DEF t
<1>7. /\ IsProgram(d) /\ d.doc = s.doc /\ d.list = list /\ d.shown = <<doc["PATH"][1]>>
      /\ d.uses = s.uses
      /\ d.dump = [t.dump EXCEPT !["PATH"] = <<doc["PATH"][1]>>]
  BY <1>6 DEF ChangeRootPath, Dump, IsProgram, Members
<1>. HIDE DEF d
<1>8. /\ IsProgram(w) /\ w.phase = "window" /\ w.doc = s.doc /\ w.list = list
      /\ w.shown = <<doc["PATH"][1]>> /\ w.dump = d.dump
      /\ w.ignored = doc["VERSION"][1].ignore /\ w.uses = s.uses
  BY <1>4, <1>7 DEF IsProgram, Members
<1>. HIDE DEF w
<1>9. d.dump = [PATH |-> <<doc["PATH"][1]>>, FORMAT |-> <<list>>, FILTER |-> doc["FILTER"],
                VERSION |-> doc["VERSION"]]
  <2>. HIDE DEF doc, list
  <2>1. s.dump = [PATH |-> <<>>, FORMAT |-> <<>>, FILTER |-> <<>>, VERSION |-> doc["VERSION"]]
    BY <1>1 DEF Nothing, Sections
  <2>2. v.dump = [PATH |-> doc["PATH"], FORMAT |-> <<>>, FILTER |-> <<>>,
                  VERSION |-> doc["VERSION"]]
    BY <1>3, <2>1
  <2>3. f.dump = [PATH |-> doc["PATH"], FORMAT |-> <<list>>, FILTER |-> <<>>,
                  VERSION |-> doc["VERSION"]]
    BY <1>2, <1>5, <2>2
  <2>4. t.dump = [PATH |-> doc["PATH"], FORMAT |-> <<list>>, FILTER |-> doc["FILTER"],
                  VERSION |-> doc["VERSION"]]
    BY <1>6, <2>3
  <2>. QED  BY <1>7, <2>4
<1>10. w.dump = HeldLast(w)
  BY <1>1, <1>2, <1>8, <1>9 DEF HeldLast, Current
<1>11. Counts(w)
  <2>1. IsList(list) /\ Read(w) = list
    BY <1>1, <1>8 DEF IsDocument, Read
  <2>. HIDE DEF list
  <2>2. Total(list) \in Nat /\ Remembers(list, list)
    BY <2>1, TotalIsNumber
  <2>. QED  BY <1>1, <1>8, <2>1, <2>2 DEF Counts
<1>. QED  BY <1>1, <1>8, <1>10, <1>11 DEF InAWindow, Fully, w

-----------------------------------------------------------------------------
(* Steps.                                                                  *)

LEMMA OffHolds == Holds(Off)
<1>1. IsProgram(Off) /\ Off.phase = "off"
  BY DEF Off, IsProgram, Members
<1>. QED  BY <1>1 DEF Holds

LEMMA InitInv == Init => Inv
<1>. SUFFICES ASSUME Init  PROVE Inv
  OBVIOUS
<1>1. file = <<file[1]>> /\ IsDocument(file[1])
  BY SettingsAssumption, ShippedIsList DEF Init, IsDocument
<1>. QED  BY <1>1, OffHolds DEF Init, Inv

LEMMA ReplaceKeeps ==
  ASSUME Inv, NEW p \in Programs, NEW s, Holds(s),
         prog' = [prog EXCEPT ![p] = s],
         file' # <<>> => file' = <<file'[1]>> /\ IsDocument(file'[1])
  PROVE  Inv'
<1>1. prog' = [q \in Programs |-> IF q = p THEN s ELSE prog[q]]
  BY DEF Inv
<1>2. \A q \in Programs : Holds(prog'[q])
  BY <1>1 DEF Inv
<1>. QED  BY <1>1, <1>2 DEF Inv

LEMMA BecomesKeeps ==
  ASSUME Inv, NEW p \in Programs, NEW s, Holds(s), Becomes(p, s)
  PROVE  Inv'
<1>1. prog' = [prog EXCEPT ![p] = s] /\ file' = file
  BY DEF Becomes
<1>. QED  BY <1>1, ReplaceKeeps DEF Inv

LEMMA GoneKeeps ==
  ASSUME Inv, NEW p \in Programs, Gone(p),
         file' # <<>> => file' = <<file'[1]>> /\ IsDocument(file'[1])
  PROVE  Inv'
BY OffHolds, ReplaceKeeps DEF Gone

\* What a program with a window writes is whole again.
LEMMA FullIsWhole ==
  ASSUME NEW s, Fully(s)
  PROVE  IsDocument(s.dump) /\ Dirty(s)
<1>1. s.dump = HeldLast(s) /\ Whole(s.doc[1]) /\ s.shown = <<s.shown[1]>> /\ IsList(s.list)
  BY DEF Fully, IsDocument, Counts
<1>2. s.doc[1]["FILTER"] = <<s.doc[1]["FILTER"][1]>>
  BY <1>1 DEF Whole
<1>3. /\ s.dump["PATH"] = s.shown /\ s.dump["FORMAT"] = <<s.list>>
      /\ s.dump["FILTER"] = s.doc[1]["FILTER"]
      /\ s.dump["VERSION"] = <<[current |-> Current(s), ignore |-> s.ignored]>>
      /\ s.dump = [PATH |-> s.dump["PATH"], FORMAT |-> s.dump["FORMAT"],
                   FILTER |-> s.dump["FILTER"], VERSION |-> s.dump["VERSION"]]
  BY <1>1 DEF HeldLast
<1>4. Whole(s.dump)
  <2>1. s.dump["PATH"] = <<s.dump["PATH"][1]>> /\ s.dump["FORMAT"] = <<s.dump["FORMAT"][1]>>
    BY <1>1, <1>3
  <2>2. s.dump["FILTER"] = <<s.dump["FILTER"][1]>>
    BY <1>2, <1>3
  <2>3. s.dump["VERSION"] = <<[current |-> s.dump["VERSION"][1].current,
                               ignore |-> s.dump["VERSION"][1].ignore]>>
    BY <1>3
  <2>. QED  BY <1>3, <2>1, <2>2, <2>3 DEF Whole
<1>5. s.dump["FORMAT"] # <<>>
  BY <1>3
<1>6. IsDocument(s.dump)
  BY <1>1, <1>3, <1>4 DEF IsDocument
<1>. QED  BY <1>5, <1>6 DEF Dirty

LEMMA BareIsClean ==
  ASSUME NEW s, Barely(s)
  PROVE  ~Dirty(s)
BY DEF Barely, Dirty, Nothing, Sections

LEMMA StartingKeeps ==
  ASSUME Inv, NEW p \in Programs
  PROVE  Start(p) \/ NoWindow(p) \/ OpenWindow(p) => Inv'
<1>. DEFINE s == prog[p]
<1>0. Holds(s)
  BY DEF Inv
<1>1. ASSUME Start(p)  PROVE Inv'
  BY <1>1, StartedHolds, ReplaceKeeps DEF Start, Inv
<1>2. ASSUME s.phase = "args"  PROVE IsProgram(s) /\ Barely(s)
  BY <1>0, <1>2 DEF Holds
<1>3. ASSUME NoWindow(p)  PROVE Inv'
  <2>1. Becomes(p, Exit(s)) /\ s.phase = "args"
    BY <1>3 DEF NoWindow
  <2>. HIDE DEF s
  <2>2. IsProgram(s) /\ Barely(s)
    BY <1>2, <2>1
  <2>3. IsProgram(Exit(s)) /\ Exit(s).phase = "saving" /\ Barely(Exit(s))
    BY <2>2 DEF IsProgram, Members, Exit, Barely
  <2>4. Holds(Exit(s))
    BY <2>3 DEF Holds
  <2>. QED  BY <2>1, <2>4, BecomesKeeps
<1>4. ASSUME OpenWindow(p)  PROVE Inv'
  <2>1. IsProgram(s) /\ s.phase = "args" /\ Barely(s)
    BY <1>2, <1>4 DEF OpenWindow
  <2>2. s.doc[1]["PATH"] # <<>> /\ s.doc[1]["FORMAT"] # <<>>
    BY <2>1 DEF Barely, IsDocument, Whole
  <2>3. Becomes(p, Windowed(s)) \/ \E dir \in Dirs : Becomes(p, ChangeRootPath(Windowed(s), dir))
    BY <1>4, <2>2 DEF OpenWindow
  <2>. HIDE DEF s
  <2>4. InAWindow(Windowed(s))
    BY <2>1, WindowedHolds
  <2>. QED  BY <2>3, <2>4, DirKeeps, WindowHolds, BecomesKeeps
<1>. QED  BY <1>1, <1>3, <1>4

LEMMA WindowKeeps ==
  ASSUME Inv, NEW p \in Programs, InWindow(p)
  PROVE  (\/ \E dir \in Dirs : ChangeDir(p, dir)
          \/ \E format \in Edits : Edit(p, format)
          \/ \E f \in Files : Open(p, f)
          \/ Submit(p) \/ CheckUpdate(p) \/ Reply(p) \/ Quit(p)) => Inv'
<1>. DEFINE s == prog[p]
<1>1. InAWindow(s)
  BY DEF Inv, InWindow, Holds, InAWindow
<1>2. \A t : InAWindow(t) /\ Becomes(p, t) => Inv'
  BY WindowHolds, BecomesKeeps
<1>3. ASSUME NEW dir \in Dirs, ChangeDir(p, dir)  PROVE Inv'
  BY <1>1, <1>2, <1>3, DirKeeps DEF ChangeDir
<1>4. ASSUME NEW format \in Edits, Edit(p, format)  PROVE Inv'
  BY <1>1, <1>2, <1>4, OtherMembersKeep DEF Edit
<1>5. ASSUME NEW f \in Files, Open(p, f)  PROVE Inv'
  <2>. DEFINE t == [Load(prog[p], "FILTER") EXCEPT !.opened = <<f>>]
  <2>1. InAWindow(t)
    BY <1>1, FilterKeeps
  <2>2. \/ Becomes(p, Used(t))
        \/ Becomes(p, Used([t EXCEPT !.bar = <<Guessed(t.list, f, t.bar[1])>>]))
    BY <1>5 DEF Open
  <2>. HIDE DEF t
  <2>3. InAWindow([t EXCEPT !.bar = <<Guessed(t.list, f, t.bar[1])>>])
    BY <2>1, OtherMembersKeep
  <2>. QED  BY <1>2, <2>1, <2>2, <2>3, UsedKeeps
<1>6. ASSUME Submit(p)  PROVE Inv'
  BY <1>1, <1>2, <1>6, UsedKeeps DEF Submit
<1>7. ASSUME CheckUpdate(p)  PROVE Inv'
  <2>1. InAWindow(Ask(s))
    BY <1>1, OtherMembersKeep DEF Ask
  <2>. QED  BY <1>2, <1>7, <2>1 DEF CheckUpdate
<1>8. ASSUME Reply(p)  PROVE Inv'
  <2>. DEFINE t == [prog[p] EXCEPT !.pending = @ - 1]
  <2>1. InAWindow(t)
    BY <1>1, OtherMembersKeep
  <2>2. \/ Becomes(p, t) \/ Becomes(p, Exit(t))
        \/ \E v \in Latest : Becomes(p, Dump([t EXCEPT !.ignored = v], "VERSION",
                                             [current |-> Current(t), ignore |-> v]))
    BY <1>8 DEF Reply
  <2>. HIDE DEF t
  <2>. QED  BY <1>2, <2>1, <2>2, IgnoreKeeps, OtherMembersKeep, BecomesKeeps
<1>9. ASSUME Quit(p)  PROVE Inv'
  BY <1>1, <1>9, OtherMembersKeep, BecomesKeeps DEF Quit
<1>. QED  BY <1>3, <1>4, <1>5, <1>6, <1>7, <1>8, <1>9

LEMMA EndingKeeps ==
  ASSUME Inv, NEW p \in Programs
  PROVE  NothingToSave(p) \/ Truncate(p) \/ WriteOut(p) \/ Kill(p) => Inv'
<1>. DEFINE s == prog[p]
<1>0. Holds(s)
  BY DEF Inv
<1>1. ASSUME NothingToSave(p) \/ Kill(p)  PROVE Inv'
  BY <1>1, GoneKeeps DEF NothingToSave, Kill, Inv
<1>2. ASSUME Truncate(p)  PROVE Inv'
  <2>. DEFINE t == [s EXCEPT !.phase = "writing"]
  <2>1. s.phase = "saving" /\ Dirty(s) /\ file' = <<>>
    BY <1>2 DEF Truncate
  <2>2. prog' = [prog EXCEPT ![p] = t]
    BY <1>2 DEF Truncate, Inv
  <2>. HIDE DEF s
  <2>3. IsProgram(s) /\ Fully(s)
    BY <1>0, <2>1, BareIsClean DEF Holds
  <2>4. IsProgram(t) /\ t.phase = "writing" /\ Fully(t)
    BY <2>3, SameCounts DEF IsProgram, Members, Fully, HeldLast, Current
  <2>5. Holds(t)
    BY <2>4 DEF Holds
  <2>. HIDE DEF t
  <2>. QED  BY <2>1, <2>2, <2>5, ReplaceKeeps
<1>3. ASSUME WriteOut(p)  PROVE Inv'
  <2>1. IsDocument(s.dump)
    BY <1>0, <1>3, FullIsWhole DEF Holds, WriteOut
  <2>2. file' = <<s.dump>> \/ file' = <<>>
    BY <1>3 DEF WriteOut
  <2>. QED  BY <1>3, <2>1, <2>2, GoneKeeps DEF WriteOut
<1>. QED  BY <1>1, <1>2, <1>3

LEMMA StepInv == Inv /\ [Next]_vars => Inv'
<1>. SUFFICES ASSUME Inv, [Next]_vars  PROVE Inv'
  OBVIOUS
<1>1. ASSUME NEW p \in Programs, Step(p)  PROVE Inv'
  <2>1. CASE Start(p) \/ NoWindow(p) \/ OpenWindow(p)
    BY <2>1, StartingKeeps
  <2>2. CASE NothingToSave(p) \/ Truncate(p) \/ WriteOut(p) \/ Kill(p)
    BY <2>2, EndingKeeps
  <2>3. CASE \/ \E dir \in Dirs : ChangeDir(p, dir)
             \/ \E format \in Edits : Edit(p, format)
             \/ \E f \in Files : Open(p, f)
             \/ Submit(p) \/ CheckUpdate(p) \/ Reply(p) \/ Quit(p)
    <3>1. InWindow(p)
      BY <2>3 DEF ChangeDir, Edit, Open, Submit, CheckUpdate, Reply, Quit
    <3>. QED  BY <2>3, <3>1, WindowKeeps
  <2>. QED  BY <1>1, <2>1, <2>2, <2>3 DEF Step
<1>2. CASE UNCHANGED vars
  BY <1>2 DEF vars, Inv
<1>. QED  BY <1>1, <1>2 DEF Next

LEMMA Invariance == Spec => []Inv
BY InitInv, StepInv, PTL DEF Spec

-----------------------------------------------------------------------------
\* Every file a program leaves behind, whole or cut short, has all four sections
\* or is no document: only the latter makes a start crash.
THEOREM SectionsSurvive == Spec => []NoSectionLost
<1>1. Inv => NoSectionLost
  BY DEF Inv, Holds, NoSectionLost
<1>. QED  BY <1>1, Invariance, PTL

\* The directory, the formats and the ignored version that are written are those
\* the parts of the program held last, however starts, edits and late answers of
\* the server were interleaved.
THEOREM LastWordSurvives == Spec => []LastWordIsSaved
<1>1. Inv => LastWordIsSaved
  <2>. SUFFICES ASSUME Inv, NEW p \in Programs, prog[p].phase \in {"saving", "writing"},
                       prog[p].shown # <<>>
                PROVE  prog[p].dump = HeldLast(prog[p])
    BY DEF LastWordIsSaved, HeldLast
  <2>. QED  BY DEF Inv, Holds, Barely, Fully
<1>. QED  BY <1>1, Invariance, PTL

\* Between the file a program read and the one it writes every use of a format is
\* one more weight of one known format, and none is forgotten or loses weight.
THEOREM UsesAreCounted == Spec => []UsesAreKept
<1>1. Inv => UsesAreKept
  <2>. SUFFICES ASSUME Inv, NEW p \in Programs,
                       prog[p].phase \in {"window", "saving", "writing"},
                       prog[p].shown # <<>>
                PROVE  LET s == prog[p]
                           list == s.dump["FORMAT"][1]
                       IN  /\ Total(list) = Total(Read(s)) + s.uses
                           /\ Remembers(list, Read(s))
    BY DEF UsesAreKept, Read, Remembers
  <2>1. Fully(prog[p])
    BY DEF Inv, Holds, Barely
  <2>. QED  BY <2>1 DEF Fully, Counts, HeldLast
<1>. QED  BY <1>1, Invariance, PTL
=============================================================================
