--------------------------- MODULE ScheduleProofs ---------------------------
(***************************************************************************)
(* The scheduler never asks for a converter that is not there, never runs  *)
(* code of a library that is closed, and delivers what it was asked for,   *)
(* whatever the list, the libraries that fail and the sequence of calls.   *)
(* None of this is inductive alone: Construction says what each step of    *)
(* the constructor leaves behind, and Conversion what each step of a call  *)
(* keeps of the request.                                                   *)
(*                                                                         *)
(* At the end, theorems about Buffer, the memory of a request's buffers.   *)
(***************************************************************************)
EXTENDS Schedule, Buffer, WellFoundedInduction, FiniteSetTheorems, TLAPS

Worlds == [list : Lists, bad : SUBSET BadLibs, mute : SUBSET MuteLibs]

Construction ==
  /\ instance = "none" => libs = <<>>
  /\ instance \in {"none", "linkTest", "loadLibs", "gone"} => handles = {}
  /\ instance # "up" => cvts = {}
  /\ instance \in {"loadLibs", "initLibs", "up"} /\ init = "SUCCESS" => LinksMatch
  /\ instance \in {"initLibs", "up"} /\ init = "SUCCESS" => handles = Used
  /\ instance = "up" => cvts = IF init = "SUCCESS" THEN DOMAIN libs ELSE {}

Conversion ==
  /\ job.pc # "idle" =>
       /\ instance = "up" /\ init = "SUCCESS"
       /\ job.type \in DOMAIN libs /\ job.file \in Files /\ job.format \in Formats
       /\ request.iformat = job.format
  /\ job.pc = "load" => source = job.type
  /\ job.pc = "convert" => [file |-> job.file, type |-> job.type] \in request.ibuffer.data

Inv == TypeOK /\ world \in Worlds /\ Construction /\ Conversion /\ Delivered

Marks == [file : Files \cup {Null}, type : Types \cup {Null}]

Requests == [ibuffer : Buffers, obuffer : Buffers,
             iformat : Formats \cup {0}, oformat : Formats \cup {0}]

-----------------------------------------------------------------------------
\* The list names some entry first.
LEMMA LeastIndex ==
  ASSUME NEW T \in SUBSET Nat, T # {}
  PROVE  \E i \in T : \A j \in T : i <= j
<1>1. PICK i \in T : \A j \in T : <<j, i>> \notin OpToRel(<, Nat)
  BY NatLessThanWellFounded, WFMin
<1>2. \A j \in T : ~(j < i)
  BY <1>1 DEF OpToRel
<1> QED
  BY <1>2

LEMMA Element ==
  ASSUME NEW R, NEW seq \in Seq(R), NEW i \in DOMAIN seq
  PROVE  seq[i] \in R
OBVIOUS

LEMMA FirstEntryIsAnEntry ==
  ASSUME NEW list \in Lists \ {Null}, NEW s \in {e.source : e \in Entries(list)}
  PROVE  FirstEntry(list, s) \in [lib : STRING, source : Types, target : Types]
<1>1. list \in Seq([lib : STRING, source : Types, target : Types])
  BY ScheduleAssumption
<1> DEFINE T == {i \in DOMAIN list : list[i].source = s}
           n == CHOOSE i \in DOMAIN list :
                  list[i].source = s /\ \A j \in DOMAIN list : list[j].source = s => i <= j
<1>2. T # {} /\ T \in SUBSET Nat
  BY <1>1 DEF Entries
<1>3. PICK i \in T : \A j \in T : i <= j
  BY <1>2, LeastIndex
<1>4. n \in DOMAIN list
  BY <1>3
<1>5. list[n] \in [lib : STRING, source : Types, target : Types]
  BY <1>1, <1>4, Element
<1>6. FirstEntry(list, s) = list[n]
  BY DEF FirstEntry
<1> QED
  BY <1>5, <1>6

LEMMA LibsHaveTypes ==
  ASSUME world \in Worlds, GetLibList
  PROVE  DOMAIN libs' \subseteq Types /\ \A s \in DOMAIN libs' : libs'[s] \in [lib : STRING, target : Types]
<1> DEFINE list == world.list
<1>1. list \in Lists \ {Null}
  BY DEF Worlds, GetLibList
<1>2. /\ DOMAIN libs' = {e.source : e \in Entries(list)}
      /\ \A s \in DOMAIN libs' : libs'[s] = [lib    |-> FirstEntry(list, s).lib,
                                             target |-> FirstEntry(list, s).target]
  BY DEF GetLibList
<1>3. list \in Seq([lib : STRING, source : Types, target : Types])
  BY <1>1, ScheduleAssumption
<1>4. DOMAIN libs' \subseteq Types
  <2> SUFFICES ASSUME NEW i \in DOMAIN list PROVE list[i].source \in Types
    BY <1>2 DEF Entries
  <2>1. list[i] \in [lib : STRING, source : Types, target : Types]
    BY <1>3, Element
  <2> QED
    BY <2>1
<1> HIDE DEF list
<1>5. \A s \in DOMAIN libs' : FirstEntry(list, s) \in [lib : STRING, source : Types, target : Types]
  BY <1>1, <1>2, FirstEntryIsAnEntry
<1>6. ASSUME NEW s \in DOMAIN libs' PROVE libs'[s] \in [lib : STRING, target : Types]
  <2>1. FirstEntry(list, s) \in [lib : STRING, source : Types, target : Types]
    BY <1>5, <1>6
  <2> DEFINE e == FirstEntry(list, s)
  <2>2. libs'[s] = [lib |-> e.lib, target |-> e.target]
    BY <1>2, <1>6
  <2>3. e.lib \in STRING /\ e.target \in Types
    BY <2>1
  <2> QED
    BY <2>2, <2>3
<1> QED
  BY <1>4, <1>6

\* A resized buffer is a buffer of that size.
LEMMA Resized ==
  ASSUME NEW b \in Buffers, NEW n \in Nat
  PROVE  Resize(b, n) \in Buffers /\ Resize(b, n).size = n
BY DEF Resize, Buffers, Undefined

\* A request before the converter of a link runs, and after it did.
LEMMA Prepares ==
  ASSUME TypeOK, NEW t \in Types
  PROVE  /\ Prepared(t) \in Requests
         /\ Prepared(t).ibuffer = request.ibuffer
         /\ Prepared(t).iformat = request.iformat /\ Prepared(t).oformat = request.iformat
         /\ Prepared(t).obuffer.size = Out[t] * request.iformat
<1>1. request \in Requests
  BY DEF TypeOK, Requests
<1>2. Out[t] \in Nat /\ request.iformat \in Nat
  <2>1. request.iformat \in Formats \cup {0}
    BY <1>1 DEF Requests
  <2>2. \A p \in Formats \cup {0} : p \in Nat
    BY ScheduleAssumption
  <2>3. request.iformat \in Nat
    BY <2>1, <2>2
  <2>4. Out[t] \in Nat
    BY ScheduleAssumption
  <2> QED
    BY <2>3, <2>4
<1>3. Out[t] * request.iformat \in Nat
  BY <1>2
<1>4. /\ Resize(request.obuffer, Out[t] * request.iformat) \in Buffers
      /\ Resize(request.obuffer, Out[t] * request.iformat).size = Out[t] * request.iformat
  BY <1>1, <1>3, Resized DEF Requests
<1> QED
  BY <1>1, <1>4 DEF Prepared, Requests

LEMMA Fills ==
  ASSUME TypeOK, NEW t \in DOMAIN libs
  PROVE  /\ Filled(t) \in Requests
         /\ Filled(t).ibuffer = request.ibuffer
         /\ Filled(t).iformat = request.iformat /\ Filled(t).oformat = request.iformat
         /\ Filled(t).obuffer.size = Out[t] * request.iformat
         /\ Filled(t).obuffer.data = Converted(request.ibuffer.data, t)
<1>1. t \in Types /\ libs[t].target \in Types
  BY DEF TypeOK
<1>2. Converted(request.ibuffer.data, t) \in SUBSET Marks
  BY <1>1 DEF TypeOK, Converted, Buffers, Marks
<1>3. Prepared(t).obuffer \in Buffers
  BY <1>1, Prepares DEF Requests
<1>4. [Prepared(t).obuffer EXCEPT !.data = Converted(request.ibuffer.data, t)] \in Buffers
  BY <1>2, <1>3 DEF Buffers, Marks
<1> QED
  BY <1>1, <1>3, <1>4, Prepares DEF Filled, Requests, Buffers

\* The bytes of a file that were of the type of the converter are of its target.
LEMMA Converts ==
  ASSUME NEW t, NEW f, NEW data, [file |-> f, type |-> t] \in data
  PROVE  [file |-> f, type |-> libs[t].target] \in Converted(data, t)
BY DEF Converted

-----------------------------------------------------------------------------
LEMMA InitInv == Init => Inv
<1> SUFFICES ASSUME Init PROVE Inv
  OBVIOUS
<1>1. DOMAIN libs = {}
  BY DEF Init
<1>2. NoBuffer \in Buffers
  BY DEF NoBuffer, Buffers
<1>3. TypeOK
  BY <1>1, <1>2 DEF Init, TypeOK, Results, Idle
<1>4. Construction
  BY DEF Init, Construction
<1>5. Conversion /\ Delivered
  BY ScheduleAssumption DEF Init, Conversion, Delivered, Idle
<1> QED
  BY <1>3, <1>4, <1>5 DEF Inv, Init, Worlds

\* While the constructor and the destructor run no call is in progress, and
\* what the last one left is not touched.
LEMMA NoCallInStep ==
  ASSUME Inv, NEW from \in {"none", "linkTest", "loadLibs", "initLibs", "closing"}, NEW to,
         Step(from, to)
  PROVE  /\ job.pc = "idle" /\ Conversion' /\ Delivered' /\ world' \in Worlds
         /\ world' = world /\ source' = source /\ request' = request /\ job' = job
         /\ result' = result
BY DEF Inv, Step, Conversion, Delivered

LEMMA ConstructKeeps ==
  ASSUME Inv, Construct
  PROVE  Inv'
<1> USE DEF Inv
<1>1. CASE NoLibList
  <2>1. Step("none", "crashed")
    BY <1>1 DEF NoLibList
  <2>2. UNCHANGED <<init, libs, handles, cvts>> /\ instance' = "crashed" /\ instance = "none"
    BY <1>1 DEF NoLibList, Step
  <2>3. TypeOK'
    BY <2>1, <2>2, NoCallInStep DEF TypeOK, Used
  <2>4. Construction'
    BY <2>2 DEF Construction
  <2> QED
    BY <2>1, <2>3, <2>4, NoCallInStep
<1>2. CASE GetLibList
  <2>1. Step("none", "linkTest")
    BY <1>2 DEF GetLibList
  <2>2. /\ UNCHANGED <<init, handles, cvts>> /\ instance' = "linkTest" /\ instance = "none"
        /\ handles = {} /\ cvts = {}
    BY <1>2 DEF GetLibList, Step, Construction
  <2>3. TypeOK'
    BY <1>2, <2>1, <2>2, NoCallInStep, LibsHaveTypes DEF TypeOK, Used
  <2>4. Construction'
    BY <2>2 DEF Construction
  <2> QED
    BY <2>1, <2>3, <2>4, NoCallInStep
<1>3. CASE LinkTest
  <2>1. Step("linkTest", "loadLibs")
    BY <1>3 DEF LinkTest
  <2>2. /\ UNCHANGED <<libs, handles, cvts>> /\ instance' = "loadLibs" /\ instance = "linkTest"
        /\ init' = IF init # "SUCCESS" THEN init ELSE IF LinksMatch THEN "SUCCESS" ELSE "INVALID_TYPE"
    BY <1>3 DEF LinkTest, Step, Verdict
  <2>3. TypeOK'
    BY <2>1, <2>2, NoCallInStep DEF TypeOK, Used, Results
  <2>4. Construction'
    BY <2>2 DEF Construction, LinksMatch
  <2> QED
    BY <2>1, <2>3, <2>4, NoCallInStep
<1>4. CASE LoadLibs
  <2>1. Step("loadLibs", "initLibs")
    BY <1>4 DEF LoadLibs
  <2>2. /\ UNCHANGED <<libs, cvts>> /\ instance' = "initLibs" /\ instance = "loadLibs"
        /\ init' = IF init # "SUCCESS" THEN init
                   ELSE IF Used \cap (world.bad \cup world.mute) = {} THEN "SUCCESS" ELSE "INVALID_LIB"
    BY <1>4 DEF LoadLibs, Step, Verdict
  <2>3. handles' \subseteq Used /\ (init' = "SUCCESS" => handles' = Used)
    BY <1>4, <2>2 DEF LoadLibs, TypeOK
  <2>4. TypeOK'
    BY <2>1, <2>2, <2>3, NoCallInStep DEF TypeOK, Used, Results
  <2>5. Construction'
    BY <2>2, <2>3 DEF Construction, LinksMatch, Used
  <2> QED
    BY <2>1, <2>4, <2>5, NoCallInStep
<1>5. CASE InitLibs
  <2>1. Step("initLibs", "up")
    BY <1>5 DEF InitLibs, InitLibsIf
  <2>2. /\ UNCHANGED <<init, libs, handles>> /\ instance' = "up" /\ instance = "initLibs"
        /\ cvts' = IF init = "SUCCESS" THEN DOMAIN libs ELSE {}
    BY <1>5 DEF InitLibs, InitLibsIf, Step
  <2>3. TypeOK'
    BY <2>1, <2>2, NoCallInStep DEF TypeOK, Used
  <2>4. Construction'
    BY <2>2 DEF Construction, LinksMatch, Used
  <2> QED
    BY <2>1, <2>3, <2>4, NoCallInStep
<1> QED
  BY <1>1, <1>2, <1>3, <1>4, <1>5 DEF Construct

LEMMA DestructorKeeps ==
  ASSUME Inv, UninitLibs \/ CloseLibs
  PROVE  Inv'
<1> USE DEF Inv
<1>1. CASE UninitLibs
  <2>1. /\ job.pc = "idle" /\ instance' = "closing" /\ cvts' = {}
        /\ UNCHANGED <<init, libs, handles, world, source, request, job, result>>
    BY <1>1 DEF UninitLibs, Step
  <2>2. TypeOK'
    BY <2>1 DEF TypeOK, Used
  <2>3. Construction' /\ Conversion' /\ Delivered'
    BY <2>1 DEF Construction, Conversion, Delivered
  <2> QED
    BY <2>1, <2>2, <2>3
<1>2. CASE CloseLibs
  <2>1. Step("closing", "gone")
    BY <1>2 DEF CloseLibs
  <2>2. /\ UNCHANGED <<init, libs, cvts>> /\ handles' = {} /\ instance' = "gone" /\ instance = "closing"
    BY <1>2 DEF CloseLibs, Step
  <2>3. TypeOK'
    BY <2>1, <2>2, NoCallInStep DEF TypeOK, Used
  <2>4. Construction'
    BY <2>2 DEF Construction
  <2> QED
    BY <2>1, <2>3, <2>4, NoCallInStep
<1> QED
  BY <1>1, <1>2

-----------------------------------------------------------------------------
\* A step that leaves the installation alone leaves Construction alone.
LEMMA SetupStays ==
  ASSUME Inv, UNCHANGED setup
  PROVE  Construction' /\ world' \in Worlds /\ Used' = Used /\ LinksMatch' = LinksMatch
BY DEF Inv, setup, Construction, Used, LinksMatch

LEMMA CallerKeeps ==
  ASSUME Inv, NEW t \in Types, Reject(t) \/ ParseFormat(t)
  PROVE  Inv'
<1> USE DEF Inv
<1>1. UNCHANGED setup /\ UNCHANGED <<request, job>> /\ job.pc = "idle"
  BY DEF Reject, ParseFormat
<1>2. source' \in Types \cup {Null}
  BY DEF Reject, ParseFormat, TypeOK
<1>3. result' \in Results \cup {Null} /\ (result' = "SUCCESS" => result = "SUCCESS")
  BY DEF Reject, ParseFormat, TypeOK, Results
<1>4. TypeOK'
  BY <1>1, <1>2, <1>3, SetupStays DEF TypeOK, setup
<1>5. Conversion' /\ Delivered'
  BY <1>1, <1>3 DEF Conversion, Delivered
<1> QED
  BY <1>1, <1>4, <1>5, SetupStays

LEMMA ProcessKeeps ==
  ASSUME Inv, NEW t \in Types, NEW f \in Files, NEW p \in Formats, Process(t, f, p)
  PROVE  Inv'
<1> USE DEF Inv
<1>1. /\ UNCHANGED setup /\ instance = "up" /\ init = "SUCCESS" /\ t \in DOMAIN libs
      /\ source' = t /\ result' = Null
      /\ job' = [pc |-> "load", type |-> t, file |-> f, format |-> p]
      /\ request' = [request EXCEPT !.iformat = p, !.oformat = p]
  BY DEF Process
<1>2. request' \in Requests /\ request'.iformat = p
  BY <1>1 DEF TypeOK, Requests
<1>3. TypeOK'
  BY <1>1, <1>2, SetupStays DEF TypeOK, setup, Requests
<1>4. Conversion' /\ Delivered'
  BY <1>1, <1>2 DEF Conversion, Delivered, setup
<1> QED
  BY <1>1, <1>3, <1>4, SetupStays

\* The two ways a call fails, in loadInputFile and in a converter.
LEMMA FailureKeeps ==
  ASSUME Inv, LoadFails \/ ConvertFails
  PROVE  Inv'
<1> USE DEF Inv
<1>1. /\ UNCHANGED setup /\ source' = source
      /\ job' = [job EXCEPT !.pc = "idle"]
      /\ result' \in Results \ {"SUCCESS"}
  BY DEF LoadFails, ConvertFails, Return, Results
<1>2. job.pc # "idle" /\ job.type \in DOMAIN libs /\ job.type \in Types
  BY DEF LoadFails, ConvertFails, Conversion, TypeOK
<1>3. request' \in Requests
  BY <1>2, Prepares DEF LoadFails, ConvertFails, TypeOK, Requests
<1>4. /\ job' \in [pc : {"idle", "load", "convert"}, type : Types \cup {Null},
                   file : Files \cup {Null}, format : Formats \cup {0}]
      /\ job'.pc = "idle"
  BY <1>1 DEF TypeOK
<1>5. TypeOK'
  BY <1>1, <1>3, <1>4, SetupStays DEF TypeOK, setup, Requests
<1>6. Conversion' /\ Delivered'
  BY <1>1, <1>4 DEF Conversion, Delivered
<1> QED
  BY <1>1, <1>5, <1>6, SetupStays

LEMMA LoadKeeps ==
  ASSUME Inv, LoadInputFile
  PROVE  Inv'
<1> USE DEF Inv
<1>1. /\ UNCHANGED setup /\ source' = source /\ result' = result /\ job.pc = "load"
      /\ job' = [job EXCEPT !.pc = "convert"]
      /\ request' = [request EXCEPT !.ibuffer = Loaded]
  BY DEF LoadInputFile
<1>2. /\ source = job.type /\ source \in Types /\ job.file \in Files
      /\ request \in Requests /\ request.iformat \in Nat
  BY <1>1, ScheduleAssumption DEF Conversion, TypeOK, Requests
<1> DEFINE size == Bigger(FileSize[job.file], In[source] * request.iformat)
           mark == [file |-> job.file, type |-> source]
<1>3. size \in Nat
  <2>1. FileSize[job.file] \in Nat /\ In[source] \in Nat
    BY <1>2, ScheduleAssumption
  <2>2. In[source] * request.iformat \in Nat
    BY <1>2, <2>1
  <2> QED
    BY <2>1, <2>2 DEF Bigger
<1>4. Resize(request.ibuffer, size) \in Buffers
  BY <1>2, <1>3, Resized DEF Requests
<1>5. Loaded \in Buffers /\ mark \in Loaded.data
  <2>1. Loaded = ReadInto(Resize(request.ibuffer, size), job.file, source)
    BY DEF Loaded
  <2>2. mark \in Marks
    BY <1>2 DEF Marks
  <2> QED
    BY <1>4, <2>1, <2>2 DEF ReadInto, Buffers, Marks
<1>6. request' \in Requests /\ request'.ibuffer = Loaded /\ request'.iformat = request.iformat
  BY <1>1, <1>2, <1>5 DEF Requests
<1>7. /\ job' \in [pc : {"idle", "load", "convert"}, type : Types \cup {Null},
                   file : Files \cup {Null}, format : Formats \cup {0}]
      /\ job'.pc = "convert" /\ job'.type = job.type /\ job'.file = job.file /\ job'.format = job.format
  BY <1>1 DEF TypeOK
<1>8. TypeOK'
  BY <1>1, <1>6, <1>7, SetupStays DEF TypeOK, setup, Requests
<1>9. Conversion' /\ Delivered'
  BY <1>1, <1>2, <1>5, <1>6, <1>7 DEF Conversion, Delivered, setup
<1> QED
  BY <1>1, <1>8, <1>9, SetupStays

\* One link of the chain: the pixels of the file are of the target's type, and
\* the links of the list lead to a converter.
LEMMA ForwardKeeps ==
  ASSUME Inv, Forward
  PROVE  Inv'
<1> USE DEF Inv
<1> DEFINE t == job.type
           next == libs[t].target
<1>1. /\ UNCHANGED setup /\ source' = source /\ result' = result /\ job.pc = "convert"
      /\ next # Sink
      /\ job' = [job EXCEPT !.type = next]
      /\ request' = Swapped(Filled(t))
  BY DEF Forward, ForwardAs
<1>2. /\ instance = "up" /\ init = "SUCCESS" /\ t \in DOMAIN libs /\ next \in Types
      /\ job.file \in Files /\ job.format \in Formats /\ request.iformat = job.format
      /\ [file |-> job.file, type |-> t] \in request.ibuffer.data
  BY <1>1 DEF Conversion, TypeOK
<1>3. next \in DOMAIN libs
  BY <1>1, <1>2 DEF Construction, LinksMatch
<1>4. /\ request' \in Requests /\ request'.iformat = request.iformat
      /\ request'.ibuffer.data = Converted(request.ibuffer.data, t)
  BY <1>1, <1>2, Fills DEF Swapped, Requests
<1>5. [file |-> job.file, type |-> next] \in request'.ibuffer.data
  BY <1>2, <1>4, Converts
<1>6. /\ job' \in [pc : {"idle", "load", "convert"}, type : Types \cup {Null},
                   file : Files \cup {Null}, format : Formats \cup {0}]
      /\ job'.pc = "convert" /\ job'.type = next /\ job'.file = job.file /\ job'.format = job.format
  BY <1>1, <1>2 DEF TypeOK
<1>7. TypeOK'
  BY <1>1, <1>4, <1>6, SetupStays DEF TypeOK, setup, Requests
<1>8. Conversion' /\ Delivered'
  BY <1>1, <1>2, <1>3, <1>4, <1>5, <1>6 DEF Conversion, Delivered, setup
<1> QED
  BY <1>1, <1>7, <1>8, SetupStays

LEMMA DeliverKeeps ==
  ASSUME Inv, Deliver
  PROVE  Inv'
<1> USE DEF Inv
<1> DEFINE t == job.type
<1>1. /\ UNCHANGED setup /\ source' = source /\ job.pc = "convert"
      /\ libs[t].target = Sink
      /\ job' = [job EXCEPT !.pc = "idle"] /\ result' = "SUCCESS"
      /\ request' = Filled(t)
  BY DEF Deliver, Return
<1>2. /\ t \in DOMAIN libs /\ request.iformat = job.format
      /\ [file |-> job.file, type |-> t] \in request.ibuffer.data
  BY <1>1 DEF Conversion
<1>3. /\ request' \in Requests /\ request'.oformat = job.format
      /\ request'.obuffer.size = Out[t] * job.format
      /\ request'.obuffer.data = Converted(request.ibuffer.data, t)
  BY <1>1, <1>2, Fills
<1>4. [file |-> job.file, type |-> Sink] \in request'.obuffer.data
  BY <1>1, <1>2, <1>3, Converts
<1>5. /\ job' \in [pc : {"idle", "load", "convert"}, type : Types \cup {Null},
                   file : Files \cup {Null}, format : Formats \cup {0}]
      /\ job'.pc = "idle" /\ job'.type = t /\ job'.file = job.file /\ job'.format = job.format
  BY <1>1 DEF TypeOK
<1>6. TypeOK'
  BY <1>1, <1>3, <1>5, SetupStays DEF TypeOK, setup, Requests, Results
<1>7. Conversion' /\ Delivered'
  BY <1>3, <1>4, <1>5 DEF Conversion, Delivered
<1> QED
  BY <1>1, <1>6, <1>7, SetupStays

LEMMA NextInv == Inv /\ [Next]_vars => Inv'
<1> SUFFICES ASSUME Inv, [Next]_vars PROVE Inv'
  OBVIOUS
<1>1. CASE Construct
  BY <1>1, ConstructKeeps
<1>2. CASE UninitLibs \/ CloseLibs
  BY <1>2, DestructorKeeps
<1>3. CASE Convert
  BY <1>3, FailureKeeps, LoadKeeps, ForwardKeeps, DeliverKeeps DEF Convert
<1>4. ASSUME NEW t \in Types, Reject(t) \/ ParseFormat(t) PROVE Inv'
  BY <1>4, CallerKeeps
<1>5. ASSUME NEW t \in Types, NEW f \in Files, NEW p \in Formats, Process(t, f, p) PROVE Inv'
  BY <1>5, ProcessKeeps
<1>6. CASE UNCHANGED vars
  BY <1>6 DEF vars, Inv, TypeOK, Used, Construction, LinksMatch, Conversion, Delivered
<1> QED
  BY <1>1, <1>2, <1>3, <1>4, <1>5, <1>6 DEF Next, Gone

LEMMA InvHolds == Spec => []Inv
<1>1. Init => Inv
  BY InitInv
<1>2. Inv /\ [Next]_vars => Inv'
  BY NextInv
<1> QED
  BY <1>1, <1>2, PTL DEF Spec

-----------------------------------------------------------------------------
\* The maps of the scheduler, the request and the call keep their types.
THEOREM TypeCorrect == Spec => []TypeOK
BY InvHolds, PTL DEF Inv

\* The converter that is looked up exists, for the type of the request and for
\* m_source, whatever was asked before (schedule.cpp:374, 417).
THEOREM ConvertersExist == Spec => []NoMissingConverter
<1>1. Inv => NoMissingConverter
  BY DEF Inv, Construction, Conversion, NoMissingConverter
<1> QED
  BY <1>1, InvHolds, PTL

\* No converter outlives the library with its code, and none is left open
\* (schedule.cpp:28-44, 145-197).
THEOREM CodeStaysLoaded == Spec => []CodeIsLoaded
<1>1. Inv => CodeIsLoaded
  <2> SUFFICES ASSUME Inv PROVE CodeIsLoaded
    OBVIOUS
  <2>1. ASSUME NEW s \in cvts PROVE libs[s].lib \in handles
    BY <2>1 DEF Inv, Construction, Used
  <2> QED
    BY <2>1 DEF CodeIsLoaded, Inv, Construction
<1> QED
  BY <1>1, InvHolds, PTL

\* After SUCCESS the request holds the picture that was asked for, however long
\* the chain and whatever the buffers held before (schedule.cpp:376-399).
THEOREM PicturesAreDelivered == Spec => []Delivered
BY InvHolds, PTL DEF Inv

-----------------------------------------------------------------------------
(* The buffers a request carries (Buffer), for any number of objects,      *)
(* addresses and sizes.  Ownership counts the owners of a block, which no  *)
(* single step preserves; the inductive form, Owned, says instead that two *)
(* objects never share an address, that every allocated address is held by *)
(* one, and that every reference count is one.                             *)

Holds(o) ==
  /\ obj[o].buffer = NoAddress <=> obj[o].cell = NoAddress
  /\ obj[o].buffer # NoAddress => obj[o].buffer \in DOMAIN memory
  /\ obj[o].cell # NoAddress => obj[o].cell \in DOMAIN control

Apart(o, p) ==
  /\ obj[o].buffer # NoAddress => obj[o].buffer # obj[p].buffer
  /\ obj[o].cell # NoAddress => obj[o].cell # obj[p].cell

Owned ==
  /\ \A o \in alive : Holds(o)
  /\ \A o, p \in alive : o # p => Apart(o, p)
  /\ \A b \in DOMAIN memory : \E o \in alive : obj[o].buffer = b
  /\ \A c \in DOMAIN control : control[c].refs = 1 /\ \E o \in alive : obj[o].cell = c
  /\ faults = {}

Kept == BufferTypeOK /\ Owned /\ SizeFits

-----------------------------------------------------------------------------
LEMMA BuffersInitInv ==
  ASSUME BufferInit
  PROVE  Kept
<1>1. DOMAIN memory = {} /\ DOMAIN control = {}
  BY DEF BufferInit
<1>2. \A o \in Objects : obj[o] = Empty
  BY DEF BufferInit
<1>3. BufferTypeOK
  BY <1>1 DEF BufferInit, BufferTypeOK, Members, Empty
<1>4. Owned
  BY <1>1, <1>2 DEF BufferInit, Owned, Holds, Apart, Empty
<1>5. SizeFits
  BY <1>1 DEF SizeFits
<1> QED
  BY <1>3, <1>4, <1>5 DEF Kept

-----------------------------------------------------------------------------
\* resize() with a new block: the old one had this owner only, so nobody else
\* is left with a pointer to it.
LEMMA ResizeNewKeeps ==
  ASSUME Kept, NEW o \in Objects, NEW n \in Sizes, ResizeNew(o, n)
  PROVE  Kept'
<1> USE DEF Kept
<1>1. PICK b \in Blocks \ (DOMAIN memory \cup {obj[o].buffer}), c \in Cells :
        /\ c = obj[o].cell \/ (obj[o].cell = NoAddress /\ c \notin DOMAIN control)
        /\ memory' = With(Without(memory, obj[o].buffer), b, [capacity |-> n, data |-> Unwritten])
        /\ control' = With(control, c, [size |-> n, refs |-> 1])
        /\ obj' = [obj EXCEPT ![o] = [buffer |-> b, cell |-> c]]
  BY DEF ResizeNew, Allocate, Delete
<1>2. o \in alive /\ alive' = alive /\ alive \subseteq Objects
  BY DEF ResizeNew, Allocate, BufferTypeOK
<1>3. faults' = {}
  BY <1>2 DEF ResizeNew, Allocate, DeleteFault, Owned, Holds
<1>4. /\ obj'[o] = [buffer |-> b, cell |-> c]
      /\ \A p \in alive : p # o => obj'[p] = obj[p]
      /\ obj' \in [Objects -> Members]
  BY <1>1, <1>2 DEF BufferTypeOK, Members
<1>5. /\ DOMAIN memory' = (DOMAIN memory \ {obj[o].buffer}) \cup {b}
      /\ memory'[b] = [capacity |-> n, data |-> Unwritten]
      /\ \A a \in DOMAIN memory : a # obj[o].buffer => memory'[a] = memory[a]
  BY <1>1 DEF With, Without
<1>6. /\ DOMAIN control' = DOMAIN control \cup {c}
      /\ control'[c] = [size |-> n, refs |-> 1]
      /\ \A d \in DOMAIN control : d # c => control'[d] = control[d]
  BY <1>1 DEF With, Without
<1>7. b # NoAddress /\ c # NoAddress
  BY <1>1, BufferAssumption
<1>8. \A p \in alive : p # o => obj[p].buffer # b /\ obj[p].cell # c
  BY <1>1, <1>2, <1>7 DEF Owned, Holds, Apart
<1>9. BufferTypeOK'
  <2>1. DOMAIN memory' \subseteq Blocks /\ DOMAIN control' \subseteq Cells
    BY <1>1, <1>5, <1>6 DEF BufferTypeOK
  <2>2. \A a \in DOMAIN memory' : memory'[a] \in [capacity : Sizes, data : Contents \cup {Unwritten}]
    <3> SUFFICES ASSUME NEW a \in DOMAIN memory'
                 PROVE  memory'[a] \in [capacity : Sizes, data : Contents \cup {Unwritten}]
      OBVIOUS
    <3>1. CASE a = b
      BY <3>1, <1>5
    <3>2. CASE a # b
      <4>1. a \in DOMAIN memory /\ memory'[a] = memory[a]
        BY <3>2, <1>5
      <4> QED
        BY <4>1 DEF BufferTypeOK
    <3> QED
      BY <3>1, <3>2
  <2>3. \A d \in DOMAIN control' : control'[d] \in [size : Sizes, refs : Nat]
    <3> SUFFICES ASSUME NEW d \in DOMAIN control' PROVE control'[d] \in [size : Sizes, refs : Nat]
      OBVIOUS
    <3>1. CASE d = c
      BY <3>1, <1>6
    <3>2. CASE d # c
      <4>1. d \in DOMAIN control /\ control'[d] = control[d]
        BY <3>2, <1>6
      <4> QED
        BY <4>1 DEF BufferTypeOK
    <3> QED
      BY <3>1, <3>2
  <2> QED
    BY <1>2, <1>3, <1>4, <2>1, <2>2, <2>3 DEF BufferTypeOK
<1>10. Owned'
  <2>1. \A p \in alive : Holds(p)'
    <3>1. ASSUME NEW p \in alive, p # o PROVE Holds(p)'
      <4>1. Holds(p) /\ Apart(o, p)
        BY <3>1, <1>2 DEF Owned
      <4>2. obj[p].buffer # NoAddress => obj[p].buffer # obj[o].buffer
        BY <4>1 DEF Apart
      <4> QED
        BY <1>4, <1>5, <1>6, <3>1, <4>1, <4>2 DEF Holds
    <3>2. Holds(o)'
      BY <1>4, <1>5, <1>6, <1>7 DEF Holds
    <3> QED
      BY <3>1, <3>2
  <2>2. \A p, q \in alive : p # q => Apart(p, q)'
    BY <1>2, <1>4, <1>8 DEF Owned, Apart
  <2>3. \A a \in DOMAIN memory' : \E p \in alive : obj'[p].buffer = a
    BY <1>2, <1>4, <1>5 DEF Owned
  <2>4. \A d \in DOMAIN control' : control'[d].refs = 1 /\ \E p \in alive : obj'[p].cell = d
    <3> SUFFICES ASSUME NEW d \in DOMAIN control'
                 PROVE  control'[d].refs = 1 /\ \E p \in alive : obj'[p].cell = d
      OBVIOUS
    <3>1. CASE d = c
      BY <3>1, <1>2, <1>4, <1>6
    <3>2. CASE d # c
      BY <3>2, <1>1, <1>4, <1>6, <1>7, BufferAssumption DEF Owned, BufferTypeOK
    <3> QED
      BY <3>1, <3>2
  <2> QED
    BY <1>2, <1>3, <2>1, <2>2, <2>3, <2>4 DEF Owned
<1>11. SizeFits'
  <2> SUFFICES ASSUME NEW p \in alive, obj'[p].buffer \in DOMAIN memory', obj'[p].cell \in DOMAIN control'
               PROVE  control'[obj'[p].cell].size <= memory'[obj'[p].buffer].capacity
    BY <1>2 DEF SizeFits
  <2>1. CASE p = o
    <3>1. n \in Nat
      BY BufferAssumption
    <3>2. control'[obj'[p].cell].size = n /\ memory'[obj'[p].buffer].capacity = n
      BY <2>1, <1>4, <1>5, <1>6
    <3> QED
      BY <3>1, <3>2
  <2>2. CASE p # o
    <3>1. Apart(o, p) /\ obj'[p] = obj[p]
      BY <2>2, <1>2, <1>4 DEF Owned
    <3>2. obj[p].buffer \in DOMAIN memory /\ obj[p].cell \in DOMAIN control
      BY <2>2, <1>5, <1>6, <1>8, <3>1
    <3>3. obj[p].buffer # obj[o].buffer
      BY <3>1, <3>2, BufferAssumption DEF Apart, BufferTypeOK
    <3> QED
      BY <2>2, <1>5, <1>6, <1>8, <3>1, <3>2, <3>3 DEF SizeFits
  <2> QED
    BY <2>1, <2>2
<1> QED
  BY <1>9, <1>10, <1>11

\* resize() that keeps the block: only its size changes, and downwards.
LEMMA ResizeKeptKeeps ==
  ASSUME Kept, NEW o \in Objects, NEW n \in Sizes, ResizeKept(o, n)
  PROVE  Kept'
<1> USE DEF Kept
<1> DEFINE c == obj[o].cell
<1>1. /\ o \in alive /\ obj[o].buffer # NoAddress
      /\ ~(control[c].size < n)
      /\ control' = With(control, c, [size |-> n, refs |-> 1])
      /\ obj' = obj /\ alive' = alive /\ memory' = memory /\ faults' = faults
  BY DEF ResizeKept, KeepBlock, NeedsNew
<1>2. Holds(o) /\ c \in DOMAIN control /\ obj[o].buffer \in DOMAIN memory
  BY <1>1 DEF Owned, Holds
<1>3. /\ DOMAIN control' = DOMAIN control
      /\ control'[c] = [size |-> n, refs |-> 1]
      /\ \A d \in DOMAIN control : d # c => control'[d] = control[d]
  BY <1>1, <1>2 DEF With
<1>4. BufferTypeOK'
  <2>1. \A d \in DOMAIN control' : control'[d] \in [size : Sizes, refs : Nat]
    <3> SUFFICES ASSUME NEW d \in DOMAIN control' PROVE control'[d] \in [size : Sizes, refs : Nat]
      OBVIOUS
    <3>1. CASE d = c
      BY <3>1, <1>3
    <3>2. CASE d # c
      <4>1. d \in DOMAIN control /\ control'[d] = control[d]
        BY <3>2, <1>3
      <4> QED
        BY <4>1 DEF BufferTypeOK
    <3> QED
      BY <3>1, <3>2
  <2> QED
    BY <1>1, <1>3, <2>1 DEF BufferTypeOK
<1>5. Owned'
  BY <1>1, <1>2, <1>3 DEF Owned, Holds, Apart
<1>6. SizeFits'
  <2> SUFFICES ASSUME NEW p \in alive, obj[p].buffer \in DOMAIN memory, obj[p].cell \in DOMAIN control
               PROVE  control'[obj[p].cell].size <= memory[obj[p].buffer].capacity
    BY <1>1, <1>3 DEF SizeFits
  <2>1. CASE p = o
    <3>1. control[c].size <= memory[obj[o].buffer].capacity
      BY <1>1, <1>2 DEF SizeFits
    <3>2. control[c].size \in Nat /\ memory[obj[o].buffer].capacity \in Nat /\ n \in Nat
      BY <1>2, BufferAssumption DEF BufferTypeOK
    <3> QED
      BY <2>1, <1>1, <1>3, <3>1, <3>2
  <2>2. CASE p # o
    <3>1. obj[p].cell # c
      BY <2>2, <1>1, <1>2, BufferAssumption DEF Owned, Apart, BufferTypeOK
    <3> QED
      BY <1>3, <3>1 DEF SizeFits
  <2> QED
    BY <2>1, <2>2
<1> QED
  BY <1>4, <1>5, <1>6

\* swap() exchanges both pointers at once.
LEMMA SwapKeeps ==
  ASSUME Kept, NEW o \in Objects, NEW p \in Objects, Swap(o, p)
  PROVE  Kept'
<1> USE DEF Kept
<1>1. /\ o \in alive /\ p \in alive /\ o # p /\ alive \subseteq Objects
      /\ obj' = [obj EXCEPT ![o] = obj[p], ![p] = obj[o]]
      /\ alive' = alive /\ memory' = memory /\ control' = control /\ faults' = faults
  BY DEF Swap, BufferTypeOK
<1>2. /\ obj'[o] = obj[p] /\ obj'[p] = obj[o]
      /\ \A q \in alive : q # o /\ q # p => obj'[q] = obj[q]
      /\ obj' \in [Objects -> Members]
  BY <1>1 DEF BufferTypeOK
<1>3. BufferTypeOK'
  BY <1>1, <1>2 DEF BufferTypeOK
<1>4. Owned'
  <2>1. \A q \in alive : Holds(q)'
    BY <1>1, <1>2 DEF Owned, Holds
  <2>2. \A q, r \in alive : q # r => Apart(q, r)'
    BY <1>1, <1>2 DEF Owned, Apart
  <2>3. \A b \in DOMAIN memory : \E q \in alive : obj'[q].buffer = b
    BY <1>1, <1>2 DEF Owned
  <2>4. \A c \in DOMAIN control : \E q \in alive : obj'[q].cell = c
    BY <1>1, <1>2 DEF Owned
  <2> QED
    BY <1>1, <2>1, <2>2, <2>3, <2>4 DEF Owned
<1>5. SizeFits'
  BY <1>1, <1>2 DEF SizeFits
<1> QED
  BY <1>3, <1>4, <1>5

\* begin() of an object that is alive never dangles.
LEMMA WriteKeeps ==
  ASSUME Kept, NEW o \in Objects, NEW data \in Contents, Write(o, data)
  PROVE  Kept'
<1> USE DEF Kept
<1> DEFINE b == obj[o].buffer
<1>1. b \in DOMAIN memory
  BY DEF Write, Owned, Holds
<1>2. /\ memory' = [memory EXCEPT ![b].data = data]
      /\ obj' = obj /\ alive' = alive /\ control' = control /\ faults' = faults
  BY <1>1 DEF Write
<1>3. /\ DOMAIN memory' = DOMAIN memory
      /\ memory'[b] = [memory[b] EXCEPT !.data = data]
      /\ \A a \in DOMAIN memory : a # b => memory'[a] = memory[a]
  BY <1>1, <1>2
<1>4. /\ \A a \in DOMAIN memory : memory'[a] \in [capacity : Sizes, data : Contents \cup {Unwritten}]
      /\ \A a \in DOMAIN memory : memory'[a].capacity = memory[a].capacity
  <2>1. \A a \in DOMAIN memory : memory[a] \in [capacity : Sizes, data : Contents \cup {Unwritten}]
    BY DEF BufferTypeOK
  <2>2. /\ memory'[b] \in [capacity : Sizes, data : Contents \cup {Unwritten}]
        /\ memory'[b].capacity = memory[b].capacity
    BY <1>1, <1>3, <2>1
  <2> QED
    BY <1>3, <2>1, <2>2
<1>5. BufferTypeOK'
  BY <1>2, <1>3, <1>4 DEF BufferTypeOK
<1>6. Owned'
  BY <1>2, <1>3 DEF Owned, Holds, Apart
<1>7. SizeFits'
  BY <1>2, <1>3, <1>4 DEF SizeFits
<1> QED
  BY <1>5, <1>6, <1>7

\* The destructor: the count is one, so it deletes what it points to, and
\* nobody else points there.
LEMMA DestroyKeeps ==
  ASSUME Kept, NEW o \in Objects, Destroy(o)
  PROVE  Kept'
<1> USE DEF Kept
<1>1. o \in alive /\ alive' = alive \ {o} /\ alive \subseteq Objects /\ Holds(o)
  BY DEF Destroy, BufferTypeOK, Owned
<1>2. CASE obj[o].cell = NoAddress
  <2>1. obj' = obj /\ memory' = memory /\ control' = control /\ faults' = faults
    BY <1>2 DEF Destroy
  <2>2. obj[o].buffer = NoAddress
    BY <1>1, <1>2 DEF Holds
  <2>3. BufferTypeOK'
    BY <1>1, <2>1 DEF BufferTypeOK
  <2>4. Owned'
    <3>1. \A b \in DOMAIN memory : b # NoAddress
      BY BufferAssumption DEF BufferTypeOK
    <3>2. \A c \in DOMAIN control : c # NoAddress
      BY BufferAssumption DEF BufferTypeOK
    <3> QED
      BY <1>1, <1>2, <2>1, <2>2, <3>1, <3>2 DEF Owned, Holds, Apart
  <2>5. SizeFits'
    BY <1>1, <2>1 DEF SizeFits
  <2> QED
    BY <2>3, <2>4, <2>5
<1>3. CASE obj[o].cell # NoAddress
  <2>1. /\ obj[o].cell \in DOMAIN control /\ control[obj[o].cell].refs = 1
        /\ obj[o].buffer \in DOMAIN memory
    BY <1>1, <1>3 DEF Holds, Owned
  <2>2. DeleteAll(o)
    BY <1>3, <2>1 DEF Destroy
  <2>3. /\ DOMAIN memory' = DOMAIN memory \ {obj[o].buffer}
        /\ \A b \in DOMAIN memory' : memory'[b] = memory[b]
    BY <2>2 DEF DeleteAll, Delete, Without
  <2>4. /\ DOMAIN control' = DOMAIN control \ {obj[o].cell}
        /\ \A c \in DOMAIN control' : control'[c] = control[c]
    BY <2>2 DEF DeleteAll, Delete, Without
  <2>5. /\ \A p \in alive' : obj'[p] = obj[p]
        /\ obj' \in [Objects -> Members]
    BY <1>1, <2>2 DEF DeleteAll, BufferTypeOK, Empty, Members
  <2>6. faults' = {}
    BY <2>1, <2>2 DEF DeleteAll, DeleteFault, Owned
  <2>7. BufferTypeOK'
    BY <1>1, <2>3, <2>4, <2>5, <2>6 DEF BufferTypeOK
  <2>8. \A p \in alive' : Apart(o, p) /\ Holds(p)
    BY <1>1 DEF Owned
  <2>9. Owned'
    <3>1. \A p \in alive' : Holds(p)'
      BY <1>3, <2>1, <2>3, <2>4, <2>5, <2>8 DEF Holds, Apart
    <3>2. \A p, q \in alive' : p # q => Apart(p, q)'
      BY <1>1, <2>5 DEF Owned, Apart
    <3>3. \A b \in DOMAIN memory' : \E p \in alive' : obj'[p].buffer = b
      BY <1>1, <2>3, <2>5 DEF Owned
    <3>4. \A c \in DOMAIN control' : control'[c].refs = 1 /\ \E p \in alive' : obj'[p].cell = c
      BY <1>1, <2>4, <2>5 DEF Owned
    <3> QED
      BY <2>6, <3>1, <3>2, <3>3, <3>4 DEF Owned
  <2>10. SizeFits'
    BY <1>1, <2>3, <2>4, <2>5 DEF SizeFits
  <2> QED
    BY <2>7, <2>9, <2>10
<1> QED
  BY <1>2, <1>3

LEMMA BuffersNextInv ==
  ASSUME Kept, [BufferNext]_bufferVars
  PROVE  Kept'
<1>1. CASE UNCHANGED bufferVars
  BY <1>1 DEF bufferVars, Kept, BufferTypeOK, Owned, Holds, Apart, SizeFits
<1>2. ASSUME NEW o \in Objects, NEW n \in Sizes, ResizeNew(o, n) \/ ResizeKept(o, n) PROVE Kept'
  BY <1>2, ResizeNewKeeps, ResizeKeptKeeps
<1>3. ASSUME NEW o \in Objects, NEW p \in Objects, Swap(o, p) PROVE Kept'
  BY <1>3, SwapKeeps
<1>4. ASSUME NEW o \in Objects, NEW data \in Contents, Write(o, data) PROVE Kept'
  BY <1>4, WriteKeeps
<1>5. ASSUME NEW o \in Objects, Destroy(o) PROVE Kept'
  BY <1>5, DestroyKeeps
<1> QED
  BY <1>1, <1>2, <1>3, <1>4, <1>5 DEF BufferNext, AllGone

LEMMA BuffersKept == BufferSpec => []Kept
<1>1. BufferInit => Kept
  BY BuffersInitInv
<1>2. Kept /\ [BufferNext]_bufferVars => Kept'
  BY BuffersNextInv
<1> QED
  BY <1>1, <1>2, PTL DEF BufferSpec

-----------------------------------------------------------------------------
\* The members of every buffer, the heap and its complaints keep their types.
THEOREM BuffersTypeCorrect == BufferSpec => []BufferTypeOK
BY BuffersKept, PTL DEF Kept

LEMMA OneOwner ==
  ASSUME NEW S, NEW o \in S, \A p \in S : p = o
  PROVE  Cardinality(S) = 1
<1>1. S = {o}
  OBVIOUS
<1> QED
  BY <1>1, FS_Singleton

\* Nothing leaks, is shared, dangles or is deleted twice, whatever the sequence
\* of resize, swap, write and destruction of however many buffers
\* (buffer.h:44-50, 72-125, 184-213).
THEOREM OwnershipHolds == BufferSpec => []Ownership
<1>1. Kept => Ownership
  <2> SUFFICES ASSUME Kept PROVE Ownership
    OBVIOUS
  <2> USE DEF Kept
  <2>1. ASSUME NEW b \in DOMAIN memory PROVE Cardinality(Owners(b)) = 1
    <3>1. PICK o \in alive : obj[o].buffer = b
      BY <2>1 DEF Owned
    <3>2. b # NoAddress
      BY <2>1, BufferAssumption DEF BufferTypeOK
    <3>3. o \in Owners(b) /\ \A p \in Owners(b) : p = o
      BY <3>1, <3>2 DEF Owners, Owned, Apart
    <3> QED
      BY <3>3, OneOwner
  <2>2. ASSUME NEW c \in DOMAIN control PROVE Cardinality(CellOwners(c)) = 1
    <3>1. PICK o \in alive : obj[o].cell = c
      BY <2>2 DEF Owned
    <3>2. c # NoAddress
      BY <2>2, BufferAssumption DEF BufferTypeOK
    <3>3. o \in CellOwners(c) /\ \A p \in CellOwners(c) : p = o
      BY <3>1, <3>2 DEF CellOwners, Owned, Apart
    <3> QED
      BY <3>3, OneOwner
  <2> QED
    BY <2>1, <2>2 DEF Ownership, Owned, Holds
<1> QED
  BY <1>1, BuffersKept, PTL

\* A size is never more than what its block was allocated with (buffer.h:84-100).
THEOREM SizesFit == BufferSpec => []SizeFits
BY BuffersKept, PTL DEF Kept

\* What another buffer shows is the same after a resize, a write or a destruction,
\* since the block that goes, comes or is written is not its own.
LEMMA OthersKeepTheirView ==
  ASSUME Kept, NEW o \in Objects, NEW p \in alive \ {o},
         ActsOn(o)
  PROVE  View(p)' = View(p)
<1> USE DEF Kept
<1>1. o \in alive
  BY DEF ActsOn, ResizeNew, Allocate, ResizeKept, KeepBlock, Write, Destroy
<1>2. Apart(o, p) /\ Holds(o)
  BY <1>1 DEF Owned
<1>3. p \in Objects
  BY DEF BufferTypeOK
<1>4. NoAddress \notin DOMAIN memory
  BY BufferAssumption DEF BufferTypeOK
<1>5. ASSUME NEW n \in Sizes, ResizeNew(o, n) PROVE View(p)' = View(p)
  <2>1. PICK b \in Blocks \ (DOMAIN memory \cup {obj[o].buffer}) :
          /\ memory' = With(Without(memory, obj[o].buffer), b, [capacity |-> n, data |-> Unwritten])
          /\ obj'[p] = obj[p]
    BY <1>3, <1>5 DEF ResizeNew, Allocate, Delete, BufferTypeOK
  <2>2. /\ DOMAIN memory' = (DOMAIN memory \ {obj[o].buffer}) \cup {b}
        /\ \A a \in DOMAIN memory : a # obj[o].buffer => memory'[a] = memory[a]
    BY <2>1 DEF With, Without
  <2>3. obj[p].buffer # b
    BY <2>1, BufferAssumption DEF Owned, Holds
  <2>4. obj[p].buffer \in DOMAIN memory => obj[p].buffer # obj[o].buffer
    BY <1>2, <1>4 DEF Apart
  <2> QED
    BY <2>1, <2>2, <2>3, <2>4 DEF View
<1>6. ASSUME NEW n \in Sizes, ResizeKept(o, n) PROVE View(p)' = View(p)
  BY <1>6 DEF ResizeKept, KeepBlock, View
<1>7. CASE Destroy(o)
  <2>1. CASE memory' = memory /\ obj'[p] = obj[p]
    BY <2>1 DEF View
  <2>2. CASE DeleteAll(o)
    <3>1. obj'[p] = obj[p]
      BY <2>2, <1>3 DEF DeleteAll, BufferTypeOK
    <3>2. /\ DOMAIN memory' = DOMAIN memory \ {obj[o].buffer}
          /\ \A a \in DOMAIN memory' : memory'[a] = memory[a]
      BY <2>2 DEF DeleteAll, Delete, Without
    <3>3. obj[p].buffer \in DOMAIN memory => obj[p].buffer # obj[o].buffer
      BY <1>2, <1>4 DEF Apart
    <3> QED
      BY <3>1, <3>2, <3>3 DEF View
  <2> QED
    BY <1>7, <2>1, <2>2 DEF Destroy
<1>8. ASSUME NEW data \in Contents, Write(o, data) PROVE View(p)' = View(p)
  <2>1. obj[o].buffer # NoAddress /\ obj' = obj
    BY <1>8 DEF Write
  <2>2. obj[p].buffer \in DOMAIN memory => obj[p].buffer # obj[o].buffer
    BY <1>2, <2>1 DEF Apart
  <2>3. /\ DOMAIN memory' = DOMAIN memory
        /\ \A a \in DOMAIN memory : a # obj[o].buffer => memory'[a] = memory[a]
    BY <1>8 DEF Write
  <2> QED
    BY <2>1, <2>2, <2>3 DEF View
<1> QED
  BY <1>5, <1>6, <1>7, <1>8 DEF ActsOn

\* A swap exchanges two pointers, and no third buffer has either.
LEMMA SwapDisturbsNoThird ==
  ASSUME Kept, NEW o \in Objects, NEW q \in Objects, Swap(o, q), NEW p \in alive \ {o, q}
  PROVE  View(p)' = View(p)
<1>1. p \in Objects
  BY DEF Kept, BufferTypeOK
<1>2. obj'[p] = obj[p] /\ memory' = memory
  BY <1>1 DEF Kept, BufferTypeOK, Swap
<1> QED
  BY <1>2 DEF View

\* No buffer changes what another one shows, other than by a swap with it
\* (buffer.h:72-143, 164-213).
THEOREM OthersAreUndisturbed == BufferSpec => OthersUndisturbed
<1> DEFINE Quiet ==
      /\ \A o \in Objects : ActsOn(o) => \A p \in alive \ {o} : View(p)' = View(p)
      /\ \A o, q \in Objects : Swap(o, q) => \A p \in alive \ {o, q} : View(p)' = View(p)
<1>1. Kept => Quiet
  BY OthersKeepTheirView, SwapDisturbsNoThird
<1> QED
  BY <1>1, BuffersKept, PTL DEF OthersUndisturbed
=============================================================================
