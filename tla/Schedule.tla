------------------------------ MODULE Schedule ------------------------------
(***************************************************************************)
(* class SCHEDULE (src/interface/schedule.cpp) behind the three functions  *)
(* of cvtinterface.cpp: the constructor that reads the list of converters  *)
(* and loads their libraries, the conversion of a request along the links  *)
(* of the list, and the destructor.                                        *)
(*                                                                         *)
(* A list entry is [lib, source, target].  A picture format is its number  *)
(* of pixels; In and Out give the bytes of input and output per pixel of   *)
(* each source (the arithmetic of the converters is in Conversion).  The   *)
(* content of a buffer is the set of what its bytes belong to: a file,     *)
(* encoded as a type.  A request is a [ibuffer, obuffer, iformat, oformat] *)
(* that lives as long as its viewer, so its buffers carry what the last    *)
(* request left in them.                                                   *)
(***************************************************************************)
EXTENDS Naturals, Sequences

CONSTANTS
  Lists,      \* the lists the xml file may hold, Null for one that cannot be read
  Sink,       \* SINKTARGET
  Types,      \* every type a list or a caller may name
  In, Out,    \* bytes per pixel a source reads and produces, by type
  Accepts,    \* Accepts[t]: the formats testIBuffer of source t accepts
  Files,      \* file names
  Missing,    \* those that cannot be opened
  FileSize,   \* size in bytes, by file name
  Formats,    \* the formats a user may enter
  BadLibs,    \* a choice of libraries that dlopen may refuse to load
  MuteLibs,   \* ... and of libraries without the symbol CVTEntry
  Null

ASSUME ScheduleAssumption ==
  /\ \A list \in Lists \ {Null} : list \in Seq([lib : STRING, source : Types, target : Types])
  /\ Sink \in Types
  /\ In \in [Types -> Nat] /\ Out \in [Types -> Nat] /\ Accepts \in [Types -> SUBSET Formats]
  /\ Formats \subseteq Nat /\ FileSize \in [Files -> Nat] /\ Missing \subseteq Files
  /\ Null \notin Files \cup Types /\ Null # "SUCCESS"

VARIABLES
  world,    \* the installation: the list, the libraries that load, those with an entry
  instance, \* p_cvt_instance: "none", a constructor step, "up", "closing",
            \* "gone", or "crashed"
  init,     \* m_init
  libs,     \* m_libs: source -> [lib, target]
  handles,  \* m_libinstance: the libraries that are loaded
  cvts,     \* m_cvts: the sources with a converter object
  source,   \* m_source
  request,  \* the request: buffers and formats
  job,      \* the call in progress
  result    \* what the last call returned

vars == <<world, instance, init, libs, handles, cvts, source, request, job, result>>

setup == <<world, instance, init, libs, handles, cvts>>

Results == {"SUCCESS", "INVALID_FILE", "INVALID_TYPE", "INVALID_LIB", "INVALID_FORMAT"}

Undefined == [file |-> Null, type |-> Null]

NoBuffer == [size |-> 0, data |-> {}]
Idle == [pc |-> "idle", type |-> Null, file |-> Null, format |-> 0]

Init ==
  /\ world \in [list : Lists, bad : SUBSET BadLibs, mute : SUBSET MuteLibs]
  /\ instance = "none"
  /\ init = "SUCCESS"
  /\ libs = <<>>
  /\ handles = {}
  /\ cvts = {}
  /\ source = Null
  /\ request = [ibuffer |-> NoBuffer, obuffer |-> NoBuffer, iformat |-> 0, oformat |-> 0]
  /\ job = Idle
  /\ result = Null

-----------------------------------------------------------------------------
(* The constructor: four steps, each skipped when the one before failed.   *)

Entries(list) == {list[i] : i \in DOMAIN list}

\* emplace keeps the first entry of a source
FirstEntry(list, s) ==
  list[CHOOSE i \in DOMAIN list :
         list[i].source = s /\ \A j \in DOMAIN list : list[j].source = s => i <= j]

Step(from, to) ==
  /\ instance = from
  /\ instance' = to
  /\ UNCHANGED <<world, source, request, job, result>>

GetLibList ==
  /\ world.list # Null
  /\ Step("none", "linkTest")
  /\ libs' = [s \in {e.source : e \in Entries(world.list)} |->
                LET e == FirstEntry(world.list, s) IN [lib |-> e.lib, target |-> e.target]]
  /\ UNCHANGED <<init, handles, cvts>>

\* RootElement() of a document that was not loaded is a null pointer, and
\* getLibList follows it.
NoLibList ==
  /\ world.list = Null
  /\ Step("none", "crashed")
  /\ UNCHANGED <<init, libs, handles, cvts>>

LinksMatch == \A s \in DOMAIN libs : libs[s].target = Sink \/ libs[s].target \in DOMAIN libs

Verdict(ok) == init' = IF init # "SUCCESS" THEN init ELSE ok

\* Mutant: every link is taken for good.
LinkTestBlind ==
  /\ Step("linkTest", "loadLibs")
  /\ UNCHANGED <<init, libs, handles, cvts>>

LinkTest ==
  /\ Step("linkTest", "loadLibs")
  /\ Verdict(IF LinksMatch THEN "SUCCESS" ELSE "INVALID_TYPE")
  /\ UNCHANGED <<libs, handles, cvts>>

Used == {libs[s].lib : s \in DOMAIN libs}

\* The loop stops at the first library that does not load: those before it, in
\* the order of the map's keys, stay loaded.
LoadLibs ==
  /\ Step("loadLibs", "initLibs")
  /\ IF init # "SUCCESS" THEN UNCHANGED handles
     ELSE IF Used \cap world.bad = {} THEN handles' = Used
     ELSE \E some \in SUBSET (Used \ world.bad) : handles' = some
  /\ Verdict(IF Used \cap (world.bad \cup world.mute) = {} THEN "SUCCESS" ELSE "INVALID_LIB")
  /\ UNCHANGED <<libs, cvts>>

InitLibsIf(ok) ==
  /\ Step("initLibs", "up")
  /\ cvts' = IF ok THEN DOMAIN libs ELSE {}
  /\ UNCHANGED <<init, libs, handles>>

InitLibsAlways == InitLibsIf(TRUE)     \* mutant: m_init is not tested
InitLibs == InitLibsIf(init = "SUCCESS")

\* Mutant: the libraries are closed first.
CloseFirst ==
  /\ job.pc = "idle"
  /\ Step("up", "closing")
  /\ handles' = {}
  /\ UNCHANGED <<init, libs, cvts>>

\* cvt_schedul_uninit: uninitLibs destroys the converters ...
UninitLibs ==
  /\ job.pc = "idle"
  /\ Step("up", "closing")
  /\ cvts' = {}
  /\ UNCHANGED <<init, libs, handles>>

\* ... and the destructor closes the libraries.
CloseLibs ==
  /\ Step("closing", "gone")
  /\ handles' = {}
  /\ UNCHANGED <<init, libs, cvts>>

-----------------------------------------------------------------------------
(* A conversion.                                                           *)

\* resize of buffer.h: a block that is large enough is kept with its content.
Resize(b, n) ==
  [size |-> n, data |-> IF b.size >= n /\ b.size > 0 THEN b.data ELSE {Undefined}]

Return(r) == job' = [job EXCEPT !.pc = "idle"] /\ result' = r

\* cvt_process after a failed construction, or of a type the list does not have.
Reject(t) ==
  /\ instance = "up" /\ job.pc = "idle"
  /\ init # "SUCCESS" \/ t \notin DOMAIN libs
  /\ result' = IF init # "SUCCESS" THEN init ELSE "INVALID_LIB"
  /\ source' = IF init = "SUCCESS" THEN t ELSE source
  /\ UNCHANGED <<setup, request, job>>

\* The caller fills iformat and oformat and the file name and calls cvt_process.
Process(t, f, p) ==
  /\ instance = "up" /\ job.pc = "idle"
  /\ init = "SUCCESS" /\ t \in DOMAIN libs
  /\ source' = t
  /\ job' = [pc |-> "load", type |-> t, file |-> f, format |-> p]
  /\ request' = [request EXCEPT !.iformat = p, !.oformat = p]
  /\ result' = Null
  /\ UNCHANGED setup

\* cvt_parseFormat, on a request of its own: only m_source is left behind.
ParseFormat(t) ==
  /\ instance = "up" /\ job.pc = "idle"
  /\ init = "SUCCESS"
  /\ source' = t
  /\ UNCHANGED <<setup, request, job, result>>

LoadFails ==
  /\ job.pc = "load"
  /\ \/ job.file \in Missing /\ Return("INVALID_FILE")
     \/ /\ job.file \notin Missing
        /\ request.iformat \notin Accepts[source]
        /\ Return("INVALID_FORMAT")
  /\ UNCHANGED <<setup, source, request>>

Bigger(m, n) == IF m >= n THEN m ELSE n

\* What the buffer holds after the file was read into it: when the file ends
\* before the buffer does, the rest of the buffer is what it was.
ReadInto(b, f, t) ==
  [b EXCEPT !.data = {[file |-> f, type |-> t]} \cup (IF FileSize[f] >= b.size THEN {} ELSE b.data)]

Loaded ==
  LET size == Bigger(FileSize[job.file], In[source] * request.iformat)
  IN  ReadInto(Resize(request.ibuffer, size), job.file, source)

\* loadInputFile.
LoadInputFile ==
  /\ job.pc = "load"
  /\ job.file \notin Missing
  /\ request.iformat \in Accepts[source]
  /\ request' = [request EXCEPT !.ibuffer = Loaded]
  /\ job' = [job EXCEPT !.pc = "convert"]
  /\ UNCHANGED <<setup, source, result>>

\* A converter of type t turns bytes of type t into pixels of its target, and
\* anything else into pixels that mean nothing.
Converted(data, t) ==
  {[file |-> d.file, type |-> IF d.type = t THEN libs[t].target ELSE Null] : d \in data}

\* setOBufferInfo and resize, before the converter is called.
Prepared(t) ==
  [request EXCEPT !.oformat = request.iformat,
                  !.obuffer = Resize(request.obuffer, Out[t] * request.iformat)]

Underfed(t) == In[t] * request.iformat > request.ibuffer.size

\* iterator(): the converter finds its input too small.
ConvertFails ==
  /\ job.pc = "convert"
  /\ Underfed(job.type)
  /\ request' = Prepared(job.type)
  /\ Return("INVALID_FORMAT")
  /\ UNCHANGED <<setup, source>>

Filled(t) == [Prepared(t) EXCEPT !.obuffer.data = Converted(request.ibuffer.data, t)]

Swapped(r) == [ibuffer |-> r.obuffer, obuffer |-> r.ibuffer,
               iformat |-> r.oformat, oformat |-> r.iformat]

ForwardAs(type, next) ==
  /\ job.pc = "convert"
  /\ ~Underfed(job.type)
  /\ libs[job.type].target # Sink
  /\ job' = [job EXCEPT !.type = type]
  /\ request' = next
  /\ UNCHANGED <<setup, source, result>>

\* Mutants: the request is not swapped; the same converter is called again.
ForwardUnswapped == ForwardAs(libs[job.type].target, Filled(job.type))
ForwardToItself  == ForwardAs(job.type, Filled(job.type))

\* iterator(): not the sink yet, the output becomes the input of the next one.
Forward == ForwardAs(libs[job.type].target, Swapped(Filled(job.type)))

\* iterator(): the sink is reached.
Deliver ==
  /\ job.pc = "convert"
  /\ ~Underfed(job.type)
  /\ libs[job.type].target = Sink
  /\ request' = Filled(job.type)
  /\ Return("SUCCESS")
  /\ UNCHANGED <<setup, source>>

Gone == instance \in {"gone", "crashed"} /\ UNCHANGED vars

Construct == NoLibList \/ GetLibList \/ LinkTest \/ LoadLibs \/ InitLibs
Convert == LoadFails \/ LoadInputFile \/ ConvertFails \/ Forward \/ Deliver

Next ==
  \/ Construct \/ UninitLibs \/ CloseLibs \/ Convert \/ Gone
  \/ \E t \in Types : Reject(t) \/ ParseFormat(t)
  \/ \E t \in Types, f \in Files, p \in Formats : Process(t, f, p)

\* A call that was made goes on: all of it runs on the calling thread.
Spec == Init /\ [][Next]_vars /\ WF_vars(Construct) /\ WF_vars(Convert)

-----------------------------------------------------------------------------
Buffers == [size : Nat, data : SUBSET [file : Files \cup {Null}, type : Types \cup {Null}]]

TypeOK ==
  /\ instance \in {"none", "linkTest", "loadLibs", "initLibs", "up", "closing", "gone", "crashed"}
  /\ init \in Results
  /\ DOMAIN libs \subseteq Types
  /\ \A s \in DOMAIN libs : libs[s] \in [lib : STRING, target : Types]
  /\ handles \subseteq Used /\ cvts \subseteq DOMAIN libs
  /\ source \in Types \cup {Null}
  /\ request \in [ibuffer : Buffers, obuffer : Buffers,
                  iformat : Formats \cup {0}, oformat : Formats \cup {0}]
  /\ job \in [pc : {"idle", "load", "convert"}, type : Types \cup {Null},
              file : Files \cup {Null}, format : Formats \cup {0}]
  /\ result \in Results \cup {Null}

\* The converter a step dereferences exists: m_cvts.find(...)->second is never
\* taken of end(), neither of the type of the request (schedule.cpp:374) nor of
\* m_source, which parseFormat changes between two conversions (:417).
NoMissingConverter ==
  /\ job.pc = "load" => source \in cvts /\ source = job.type
  /\ job.pc = "convert" => job.type \in cvts

\* A converter exists only while the library with its code is loaded, also when
\* the constructor failed half way and while the destructor runs, and nothing is
\* left open at the end (schedule.cpp:28-44, 145-197).
CodeIsLoaded ==
  /\ \A s \in cvts : libs[s].lib \in handles
  /\ instance = "gone" => handles = {}

\* What the caller finds in the request after SUCCESS: the pixels of the file it
\* named, in the sink type and with the format it gave, in an output buffer of
\* the size of that picture (schedule.cpp:376-399).
Delivered ==
  job.pc = "idle" /\ result = "SUCCESS" =>
    /\ [file |-> job.file, type |-> Sink] \in request.obuffer.data
    /\ request.oformat = job.format
    /\ request.obuffer.size = Out[job.type] * job.format

\* The links lead from t to the sink: t is in no set of sources whose targets are in
\* the set again.
LeadsToSink(t) ==
  ~ \E S \in SUBSET DOMAIN libs : t \in S /\ \A s \in S : libs[s].target \in S \ {Sink}

\* A conversion returns if the links of its type lead to the sink, whatever cycles
\* the list has elsewhere, whatever was converted or guessed before it and wherever
\* it fails (schedule.cpp:356, 374-404).
ProcessReturns == job.pc = "load" /\ LeadsToSink(job.type) ~> job.pc = "idle"
=============================================================================
