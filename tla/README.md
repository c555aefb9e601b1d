# A TLA+ model of nyuv

nyuv is a Qt viewer for raw camera pictures. A file is read into a buffer, sent through one or more converters (plugins,
shared libraries) until it is RGB888, and shown. This directory models the parts of it whose order of steps or whose
arithmetic decides whether the picture is right, checks the models with TLC on small instances, and proves the most
important facts for every instance with TLAPS.

## 1. The system

| Component | Code (under `src/`) | State it keeps | Operations |
|---|---|---|---|
| Thread pool | `common/utils/threadpool/ThreadPool.h`, `threadpool.cpp`, `extern.cpp` | queue of tasks, `stop`, the workers, the lock and the condition variable | lazy creation, `enqueue`, the worker loop, `get()` on a future, the destructor at program exit |
| Sample converters | `cvts/Bayer16`, `cvts/MIPI`, `cvts/RGB16`, `cvts/RGB8` | format, input and output buffer of one call | `testIBuffer`, `getIBufferInfo`, `setOBufferInfo`, `cvt`/`process`: four, three or one lanes (tasks of the pool) over one output buffer; `parseFormat`, `parseScoreBySize` |
| Demosaic converter | `cvts/Bayer8` | the same | `processV1`: four lanes and the border on the calling thread |
| Planar and gray converters | `cvts/YUV420SP`, `cvts/Gray8` | the same | one loop on the calling thread |
| Buffers | `common/utils/buffer.h` | address, size, reference count | `resize`, `swap`, `begin`, destruction (and an assignment nobody calls) |
| Scheduler | `interface/schedule.cpp`, `cvtinterface.cpp` | the libraries, the converters, the list of links, the current source | start (list, link test, libraries, converters), `process` (load, convert along the links), `parseFormat`, shutdown |
| Image viewer | `gui/mywidgets/myQImageviewer.cpp` | the picture, its original, the pixmap, angle, zoom, light, the file name and the list of files | load raw or normal file, light, black point, spin, flip, zoom, next/last, save, delete, close |
| Main window and tabs | `gui/mywidgets/mainwindow.cpp` | one viewer per tab, the current one, the one "add" was last called in | tab open/close/choose/move, menu and shortcut handlers |
| Information bar | `gui/mywidgets/myInfoBar.cpp` | the format fields, the lock, the file whose format was last guessed, the zoom controls | guess the format, exchange width and height, submit, zoom, statistics |
| File tree | `gui/mywidgets/myFileTree.cpp` | root path, directories gone back and forth, the row asked for last | go, back, up, enter, double click, last/next |
| Format completion | `gui/autocomplete` | the configuration file and its four sections, the known formats with their weights | read, guess from a name, learn, write at exit |
| Update check | `gui/mywidgets/update.cpp`, `main.cpp` | the version ignored for good, whether the user asked | ask, reply with every answer of the user |
| Statistics, brightness | `gui/mywidgets/algo/stats.cpp`, `alight.cpp` | totals of one call | loops over the columns, divided among pool tasks |
| The rest | `myPrefer.cpp`, small widgets, `table.cpp`, `npea.cpp`, vendored spdlog and tinyxml2 | | see "Not modelled" |

How they interact: a viewer owns a request (two buffers and the formats); the main window asks the viewer to load a
file; the viewer calls `cvt_process`, a C function in front of the one scheduler object; the scheduler reads the file
into the input buffer and calls the converters of the chain one after another, exchanging the two buffers of the request
between links; a converter splits its picture into lanes and `enqueue`s them in the one pool, then blocks in `get()`.
The viewer shows an image that is a view on the output buffer; the statistics and the brightness go over it with tasks of
the same pool. When a file is opened the main window has the information bar guess its format, from the formats the
configuration knows, and counts that format as used. Last and next ask the viewer's list of files and the file tree, each
of which finds the neighbour in its own way. Everything but the workers runs on the GUI thread; several programs may
share one configuration file and one disk.

Where it is hard: the pool (lock, condition variable, notification after the unlock, shutdown with work left, the join
at program exit); lanes that write one buffer without a lock and are kept apart by index arithmetic only; widths and
strides at the edge of that arithmetic; the order of destruction of converters and the code they are made of; start-up
that goes on after partial failures; a request and its buffers that live through many conversions; a viewer that keeps
three pictures (original, current, pixmap) consistent; a tab that is closed while its viewer is remembered, and the
signals of the tab bar that arrive before the window has caught up; one set of fields for all tabs; a list of files that
goes stale on a disk others write to; a configuration that is read once, written once, and must be whole by then.

What makes each correct, in a sentence: the pool runs every accepted task exactly once and always ends; a converter
writes each output cell exactly once, from the samples of that pixel, inside its buffers, before it returns; a buffer
has one owner; the scheduler calls only converters that exist, and a successful call leaves the picture of this file in
the destination; what the viewer shows is the picture it says it shows; a step comes to the neighbour of that file;
window and tab bar agree on the current viewer; the configuration keeps what the user did, and never keeps the program
from starting again.

## 2. Modules

| Module | Models | Composed with |
|---|---|---|
| `TaskService` | what callers rely on: a task is accepted, run once, answered | |
| `ThreadPool` | the pool: owner, callers, workers | implements `TaskService` |
| `Conversion` | Bayer16, MIPI, RGB16, RGB8: lanes as tasks | each lane is a task of the service |
| `Demosaic` | Bayer8, four lanes and the border | the same |
| `Planar` | Gray8, NV12, NV21 | |
| `Slices` | `calStats`, `adjustBrightness` | each lane is a task of the service |
| `Picture` | a converted picture and what is computed from it | `Planar` and `Slices` |
| `Buffer` | `__BUFFER__` | |
| `Schedule` | the scheduler with its C interface and one request | |
| `Viewer` | one viewer, the window's handlers and the bar's boxes and zoom controls that work on it | sees the scheduler as "refused, midway or well" and the buffers as places |
| `Window` | tabs, their viewers, the shared format fields | |
| `Navigation` | the viewer's list of files, the file tree, the disk | |
| `Guess` | the format guessed from a name and a size: operators | |
| `Settings` | configuration, known formats, update check, from start to exit | extends `Guess` |
| `ThreadPoolProofs`, `ConversionProofs`, `DemosaicProofs`, `PictureProofs`, `ScheduleProofs`, `ViewerProofs`, `WindowProofs`, `SettingsProofs` | theorems, see section 4 | each extends the module it is named after; `PictureProofs` is also about `Planar` and `Slices`, `ScheduleProofs` about `Buffer`, `ViewerProofs` about `Navigation` |

`MCx` instantiates module `x` for TLC. `Buffer` and `Navigation` prefix the names of their specification (`BufferSpec`,
`NavigationSpec`), since one module of proofs extends each together with `Schedule` and `Viewer`; they share no state with those.

### ThreadPool
State and code: `pool` is the instance pointer (none, live, deleted), `tasks` the queue, `stop` the flag, `worker[w]` where the
loop of worker `w` is (about to lock, asleep in `condition.wait`, running, exited) and `job[w]` its local `task`; `client[c]` is
where a thread that calls the pool is (between `enqueue` and its `notify_one`, blocked in `get`, in the destructor) and
`arg[c]` the task the call is about; `future[t]` is the state of a future and `runs[t]` counts executions. A region under
`queue_mutex` is one action (`Enqueue`, `Take`, `Wait`, `Exit`, `SetStop`), since no other thread can look at its
state between its first and last statement. What happens outside the lock is an action of its own: `NotifyOne` after the
unlock, `Run`, `ReturnGet`, `NotifyAll`, `Join`. `wait` with a predicate is `Wait` (release and sleep) and a later
`Take` or `Exit` of a woken worker; `SpuriousWakeup` is what the standard allows. Only the owner, the GUI thread, creates
and destroys the pool.

`TaskService` says only that tasks are accepted, started, finished once each, and that a closed service refuses.
`ImplementsService` is that specification under the mapping `serviceBar`, `statusBar`, computed from the queue, the
workers and the futures.

### Conversion, Demosaic, Planar
One call of `process()`. `dest` maps every output cell written so far to the input positions it was made of; values are
not computed. Every lane keeps the running indices of the code (`row`, `x`, `index`; in `Demosaic` `y`, `x`) and stores one
cell per step; lanes are tasks of `TaskService` (`status`), and `calls` counts the `enqueue` and `get` calls of the calling
thread that have returned. Sizes are those of `getIBufferInfo` and `setOBufferInfo`, not the size of the file.

Abstracted: shifts, masks and the tone table (a cell is the set of positions it is computed from), the averages of the
demosaic (the set of pixels averaged over), the YUV table. For Bayer8 only `processV1`, the variant the build selects.

### Slices, Picture
One call of either loop. A lane's columns are `Begin(l) .. Begin(l + 1) - 1`, by the code's product and division. The total is
represented by how often each column went into it, so that a lost lane is seen; `v_sum = v_sum + v_sum_i` is two actions,
`Load` and `Store`, since the atomic is read and written by separate operations. That race is in the code and the model
keeps it: `Averaged` says what is left when it happens, and that nothing else goes wrong. `Picture` makes the picture
with `Planar` first and hands its width to `Slices`.

### Buffer
`obj[o]` holds the block and the control cell of object `o`, `memory` and `control` what the heap has. `faults` records
what the heap would complain of. A new block gets an address different from the old one, so that pointers kept to
the old one would be seen to dangle. The assignment has no caller and is left out; the comment above the class
(`buffer.h:20-27`) describes it, and does not describe what `resize` would do to a shared block. `ActsOn(o)` are the
operations on one buffer; `OthersUndisturbed` says of each of them, and of a swap, what it must not show through others.

### Schedule
The constructor runs in the order of the code: `GetLibList`, `LinkTest`, `LoadLibs`, `InitLibs`, each skipped when an
earlier one failed. The order in which `LoadLibs` walks the libraries (a hash map) is left open. A conversion is
`Process` (look up and checks; `Reject` when they fail), `LoadInputFile` or `LoadFails`, then one `Forward`, `Deliver` or `ConvertFails` per link.
A buffer is described by the picture it holds, and the request lives on between calls with whatever the last one left.
The converters' own size check (`INVALID_FORMAT`) compares with a buffer that was just enlarged to that size; it
fails only where `Underfed` says a converter of the list asks for less than it requires. `LinksMatch` is all that
`linkTest` asks of a list: each target is the sink or a source. It does not exclude cycles, so `ProcessReturns` has the
hypothesis that the links lead from the type of the request to the sink (`LeadsToSink`); without it TLC finds a conversion that goes round for ever.

### Viewer
Everything runs on the GUI thread, so a handler with all the signals it raises is one step. The calls are operators that
take a scene (viewer, bar, label) to the next one, named after what the code's function does: `Show` is
`MainWindow::loadImageResource(false)`, `Reloaded` the one with `true`, `Submitted` is `settingTriggered`, `BarZoom`
is the information bar's `setZoom` with the `setZoomValue` it triggers, `ZoomAction` what that calls in turn. On the
viewer's side `Paint` is `setAngleAndScale` and keeps its shortcut: no painting when angle and zoom are those of the last
time, unless `is_init` is set. `image` is what the memory under the QImage holds and `at` whose memory that is: a raw
picture is a view on the output buffer of the request, which later loads refill, exchange or free. A picture
is its file, the bayer flag it was loaded with, and whether light and a flip were applied; a pixmap is a picture with
angle and zoom.

Left open (every outcome is allowed): how a load ends, the zoom that fits a window, whether the file tree follows last
and next, which name those come to, whether the chosen type has a bayer view. Saving writes a file and changes
nothing in the program; what it writes is `image`, which is why `ShownIsHeld` speaks of it.

### Window
`list`, `imageviewer`, `tmpviewer` are the window's members, `tabs` and `current` those of the QTabBar, `bar`, `filename` and
`locked` those of the information bar. As in `Viewer` a handler is one step over a scene; `SetCurrent`, `AddTab` and
`RemoveTab` are what QTabBar does, taken from how the window uses it (its selection after a removal is the tab to the
right, a bar with one tab is hidden), and they call `Chosen`, the slot, in the middle of the handler, as the signal does.
Positions count from 1. A viewer here is its name, its format and whether it has a list of files (`listed`: a cancelled
dialogue clears the name and keeps the list, from which last and next may then set a name again); its picture, turns and zoom are in `Viewer`. The viewer
"add" was called in may have been deleted: comparing with it then gives any answer. How a load ends, what is guessed and
whether HF finds a type are open; the guess itself is `Guess`.

### Navigation
`list` and `index` are the viewer's, `cursor`, `root` and `hist` the tree's, `disk` what exists and `rows` what the tree knows of it.
Files are numbers in the order of their names. `Vanish` (another program deletes a file) and `Refresh` (the tree's model
follows) are the environment; they may fall between the turns of `indexLoop`, which is `Step` followed by `Turn`s. Every other
handler is one step; `CancelOpen` is the dialogue without an answer. Reading beyond the list is `fault`, where the program ends. `Hidden` files are opened by
the dialogue and by a drop, which do not ask the filter, and are then in no list.

### Guess, Settings
`Guess` translates `parse_filename` and `parse_type`: the numbers in a name, the pairs they form, the known or the nearest
pair, the type that scores best. A name is its numbers with their count of digits; the score is compared by integer
products, which order the types as the code's quotient does; the likeness of a suffix and a type is given with the file.
`Settings` has one record per running program. `doc` is what was read, `dump` the four sections that will be written, each
missing until it was loaded or dumped. `Truncate` and `WriteOut` are the two halves of `SaveFile`; `Kill` may happen at any
point; with two programs the later writer may leave a broken document. Replies of the server come late and in any
order, with every answer of the user, and a program that reads a broken file crashes, as the code does.

## 3. Runs

| Run | Instance | Shows |
|---|---|---|
| `threadpool` | 3 workers, 2 callers, 3 tasks | safety and liveness of the pool, and that it implements the service |
| `conversion` | 4x4 Bayer and MIPI pictures with and without padding, 8x2 MIPI10 and MIPI12, colour pictures of width 2 and one or two rows with and without padding | lanes are disjoint, stay in the buffers, and the result is complete |
| `planar` | 1-3 rows and columns of gray, 1-3 by 1-2 chroma pairs; statistics or light on 3 threads | indices and sizes agree; the average loses a lane only to the race; every column is lit once |
| `demosaic` | 4 patterns, with and without interpolation, 4x4, 6x4, 4x6 | lanes and border disjoint, colours right |
| `buffer` | 3 objects, 3 sizes, every sequence | ownership, nothing freed twice, sizes, isolation |
| `schedule` | 6 lists, one with a cycle, 2 pictures and a file that cannot be read, every sequence of calls | no missing converter, code loaded while used, delivery, termination where the links lead to the sink |
| `viewer` | one raw file, one picture file, two zooms, all four angles | label, pixmap, image and original agree after every sequence of handlers |
| `window` | up to 3 tabs, a raw and a picture file, 2 types | window and tab bar agree, tabs keep their names, the fields follow |
| `window_guess` (violation) | the same with two raw files | back in the tab a second one was added from, no format is guessed |
| `navigation` | 3 visible files, one of them no picture, a hidden one, a directory below | list not overrun, both halves of a step agree, back and forward are inverse |
| `settings` | 2 programs on one file, 2 starts, 2 uses, 5 files | sections, last values and uses survive; guesses fit |
| `settings_learn` (violation) | 1 program, 2 uses | a known height with another width or stride is counted instead of learned |

Bounds. Three workers and three tasks are the least at which one worker may sleep, one be about to sleep and one run
while a task is queued and another caller notifies, the situation `NoWastedWakeup` is about; two callers interleave
`enqueue` with each other and with shutdown. Four lanes advance by four, so widths 4 and 8 are one and two iterations per row; several rows
make every lane carry its indices over a row end, with padding and without. For the demosaic 4x4 is the smallest
picture in which every lane has a pixel and 6x4/4x6 the smallest in which a lane has a second one in a row or column.
Three threads over one to six columns give lanes without a column, with one and with two. Three buffer objects let two
swap around a third that must not notice, and three sizes have one that is neither the
largest nor the smallest. The lists have chains of one and two links, and two is the
shortest in which the buffers are exchanged; the list with a cycle has a third converter beside it, whose conversions
must return. For the viewer two zooms suffice to tell a zoom that changed from one that did
not, and two files, one of each kind, to tell a stale picture from the right one; the zoom range is cut to 100..120.
Three tabs are the least at which a tab has neighbours on both sides and the closed, the current and the remembered one
differ. Three files in a circle have a neighbour on either side that differ, and both ends; `MaxDirs` limits the
directories of the history to four, so that Back has one below the two it takes off. Deadlock is not checked for
`navigation`, since the program ends at a fault, nor for the settings, since starts and uses are bounded (`MaxStarts`, `MaxUses`,
`MaxPending`): two starts give two programs at once or one after the other, and two replies can be due at once. `Types` in `MCSettings` are a
hundredth of real sizes with the ratios of the real ones. Viewers and programs are interchangeable and declared symmetric.

Passing runs keep to pictures the program is used with: for Bayer16 and MIPI widths that are multiples of four, a stride
of at least a row, even sizes for NV12, at least 4x4 for the demosaic, files at least as long as
their format needs where delivery is concerned. Section 5 says what the code does outside of these.

Fairness. The next step of each worker, the return of a call in progress (`ReturnStep`) and the destructor's `NotifyAll` and `Join` are weakly fair: they are the next
statement of a thread the operating system schedules, and tasks of this program are finite loops. Nothing is assumed of
callers (nobody must enqueue), of spurious wake-ups, or of which sleeper `notify_one` picks. Lanes and the calling
thread of a conversion are weakly fair for the same reason. In the scheduler the steps of the constructor and of one call are weakly fair; that
a call or a shutdown is ever made is not assumed. The other modules state no liveness and no fairness.

## 4. Proofs

`ThreadPoolProofs` (for every finite set of workers, at least one, and every set of callers and tasks):
- `TypeCorrect`, `TasksRunExactlyOnce`, `DestructorDrains`, `WakeupsAreNotWasted`: the invariants of the run.
  None is inductive alone. The strengthening is `Inv`: the types; `Lifecycle` (which control states go together);
  `Placement` (the entries of the queue and the jobs of running workers are distinct pending tasks, every pending
  task is one of them, and a finished one ran once); `Draining` (a worker has exited only after `stop` with an empty
  queue, nobody sleeps while the destructor joins, and all have exited when the pool is gone). `NoWastedWakeup` is
  inductive together with `Inv`; it compares the length of the queue with the sizes of two sets, and its lemmas
  rest on `FiniteSetTheorems`.
- `PoolImplementsService`: every step of the pool is a step of `TaskService` or a stutter. The liveness part of
  `ImplementsService` is checked by TLC only.

`ConversionProofs` (for every set of formats satisfying `FormatAssumption`):
- `TypeCorrect` and `LanesNeedNoLock`: no output cell is written twice, whatever the width, height, stride and
  interleaving. The argument is the inductive invariant `Residues`: a lane's index keeps its residue modulo the number of
  lanes (modulo three for the colours, four for samples), it only grows, and what a lane has written lies below
  its index; two lanes have different residues, so their cells never meet. It holds even for the widths for which the
  picture is wrong.
- `LanesStayInBuffers` and `PictureIsRight`, for formats that are `Whole`: the width of a Bayer or MIPI picture is a
  multiple of four and a row is no longer than its stride. Both are needed: section 5 names the widths and strides for
  which the code reads elsewhere. The invariant adds to `Residues` where a lane is, `Places` (a lane in group `g` of its row has
  its byte position and its index at the same sample, the equation that fails when a row is no whole number of
  groups), `Progress` (results come from lanes that went over all rows), `Written` (a cell that was written has the bytes of its
  own pixel) and `Covered` (every cell a lane has gone past was written).

`DemosaicProofs` (for formats that are `Sized`: even sides above two; `ImageCvt` asks for even ones, and two is the size
at which the bounds wrap, section 5):
- `TypeCorrect`, `ThreadsNeedNoLock`, `AccessesStayInside`, `PictureIsRight`. `Places` gives each lane a parity of row and
  column it never leaves, so that a pixel of the inside belongs to one lane (`LaneOf`) and one of the border to none;
  `Written` and `Covered` say which pixels have their final value, in terms of what the two loops of a lane have gone
  over and how far the border loops are. `NoPixelShared` compares what was written with its owner and is a consequence. The
  bounds are unsigned (modulo `Word`), and that they do not wrap is part of the proof.

`PictureProofs`:
- `ReadsStayInside` and `PixelsAreRight`, for formats that are `Shaped` (a gray row fits in its stride; even sides for NV12
  and NV21): `PlanarInv` says that the output is complete up to the current pixel.
- `AverageIsOfWholeShares` and `EveryColumnIsLit`, for every width and number of threads. `LanesInv` has the loops of each
  lane (`Looping`) and, for the statistics, `Summing`: the total and every value a lane has loaded is the sum over some
  set of finished lanes, and over all of them while no two lanes have been between load and store at once. That set is
  what a single step can be compared with; `Averaged` at the end only sees the result.

`ScheduleProofs` (every list, every set of libraries that fail): `TypeCorrect`, `ConvertersExist`, `CodeStaysLoaded`,
`PicturesAreDelivered`. `Construction` says what each step of the constructor leaves behind: once the link test has passed
every target has a source, and every library in use is loaded, so that a converter exists for each source whenever `init` is SUCCESS.
`Conversion` says that the source is the type of the request when the file is loaded, and that between links the input buffer holds the picture
of the file in the type that comes next.

`ScheduleProofs` on `Buffer` (any number of objects, blocks and sizes): `BuffersTypeCorrect`, `OwnershipHolds`, `SizesFit`,
`OthersAreUndisturbed`. `Ownership` counts the owners of a block and is not inductive as counts; `Owned` says the same by pairs: two
objects never share a block or a cell, everything allocated has an owner, and every count is one. That no two share a block is
also why a resize, a write or a destruction does not show through another buffer (`OthersKeepTheirView`), and why a swap of
two does not show through a third.

`ViewerProofs` (any files and zooms): `TypeCorrect`, `ShownPictureIsHeld`, `LabelFollows`, `OriginStaysPristine`,
`NothingStaysUnpainted` (the action property). A handler is a composition of calls, and each call has a lemma. In the middle of a handler the
label is old, so what every call keeps (`Sound`) is told apart from what the last one restores (`Current`). `Sound` adds
to the invariants of the run that the viewer remembers angle and zoom of the pixmap it has, without which painting could be skipped
wrongly, that a viewer with an image has an original, from which `SetLight` may start, and that one without an image is
no view on a buffer, so that a load cannot make garbage out of nothing.

`ViewerProofs` on `Navigation` (any finite set of files, with names in some order, and any directories): `ListedFilesExist`,
`BackUndoneByForward`, and the action property `NeighbourComesNext`. `NavigationInv` has three parts besides the types. The way back
begins somewhere and has no directory twice in a row (`Remembers`), which is why taking two off and visiting the second again
loses none. Until a file vanished or a load failed every file of the list exists, none is in it twice, the index is the place of
the name where the list has it, and a search counts as many files as there are (`Listed`). In any state a search that took files out
of the list, and whose count is stale, has left the name of a file that is gone (`Searching`): one that ends where viewer
and tree are at an existing file therefore took none out. For the neighbour, `TogetherPlaces` says what
"viewer and tree are at one file" amounts to: the rows are some directories and then the list itself, so a step in the circle and
a step in the rows come to one file, and at an end to none. The assumption (`NavigationAssumption`) is that files are finitely
many, ordered, and not directories.

`WindowProofs` (any viewers, files and types): `CurrentTabIsShown`, `EveryTabKeepsItsName`, `FieldsFollowTheTab`. The inductive
invariant, `Agree`, is of a scene: either there are no tabs and one viewer, or as many tabs as viewers, none of them in the list
twice, and the viewer of the current tab is the current one. It does not hold in the middle of a handler, when the tab bar has signalled and the list is not
yet changed; each signal has a lemma that says what it leaves from any scene, and each handler one that puts them together
in the order of the code. For the two action properties the lemmas also say which tab texts a call writes (`KeepsTexts`: the
texts of others than the current viewer stay, or move with their tab) and which fields (`KeepsFields`: they stay, or become those of
the viewer that is current at the end).

`SettingsProofs` (any number of programs): `SectionsSurvive`, `LastWordSurvives` and `UsesAreCounted`. The invariant follows a program through its phases: after
`main()` asked for the version it holds that section only and has nothing to save (`Barely`); with a window, and until it
has written, what it would write is what its parts hold (`Fully`); hence what is written is whole, and so is what is
read, unless the file is no document. It assumes that the installed file is whole and its formats have weights (`SettingsAssumption`).
For the uses, `Total` counts the units of all weights as a set; `AddCountsOne` shows that `add()` puts exactly one
new unit in it, whether it learns a format or counts one, and `Counts` follows this from the list that was read. The
heights and widths of learned formats may be anything, since what a guess takes from a name is the result of a fold.

Checked by TLC only:
- All liveness and the fairness part of `ImplementsService` (`Returns`, termination of calls and of the pool): not in the
  reach of TLAPS.
- `GuessIsBest` of the settings: folds over the numbers of a name, that is induction over data.

`TypeOK` of every module but `ThreadPool` is proved where there is a theorem `TypeCorrect` and is not in the run; the
inductive invariants were checked by TLC on the instances of the runs.

## 5. Not modelled

- Pixel values: shifts, masks, the tone and YUV tables (`table.cpp`), the averages of the demosaic, the brightness curve.
- The converters' `parseFormat` and `parseScoreBySize`, except for the size a type needs (`Target` of `Guess`); the
  likeness of two strings (`string_same`); the arithmetic of `exchangeHW`, which is an arbitrary edit of the fields.
- `autocomplete()` and `updateHeight`, the completion of a typed height: connected to nothing (`myInfoBar.cpp:225`).
- `myPrefer.cpp` (a form over the configuration), the small widgets (event forwarding), layout and menus, expanding a
  directory of the tree in place.
- `npea.cpp` (not called), `processV2` of Bayer8 (not built), the assignment of buffers (not called).
- Vendored code (spdlog with its fmt, tinyxml2), which is most of the lines of the repository; what the program relies on
  of tinyxml2 (a node belongs to one document, a file that is opened for writing is emptied) is in `Settings`.

Known deviations outside the instances of the passing runs, found while modelling:
- Bayer16 and MIPI accept widths of the form 4k + 2, the lanes' index then drifts from row to row (`Bayer16.h:34`).
- A 2x2 Bayer8 picture makes the unsigned bounds `height - 3` and `width - 3` wrap (`Bayer8.cpp:244`).
- A file shorter than its format is converted with the bytes the buffer held before (`schedule.cpp:428`): `resize` keeps a
  block that is large enough (`buffer.h:84`), whatever one takes its comment (`buffer.h:70`) to say.
- A list whose links form a cycle passes `linkTest`, and a conversion of one of its types recurses without end
  (`schedule.cpp:110-119`, `:398`).
- The size checks of RGB8 and RGB16 compare with 3 or 4 (times the bytes of a channel), not with the size of the picture, since
  the conditional operator binds last (`RGB16.cpp:75`); `Required` has it so, and the scheduler's buffer is large enough anyway. A
  MIPI12 or MIPI14 picture whose stride is shorter than its rows is read past its end (`MIPI.cpp:64`).
- NV12 and NV21 pictures of odd sides are accepted, and their last chroma byte is behind the buffer (`YUV420SP.cpp:82`).
- After a file vanished behind the program `indexLoop` may skip one or read beyond the list (`myQImageviewer.cpp:159`);
  after a load that failed delete may take another file out of the list than the one it removes (`myQImageviewer.cpp:152`).
- A request for the version that is under way when the user asks for another is answered as if the user had asked it, and what
  is ignored there is not noted (`update.cpp:28`).
- After the tab "add" was called in was closed, the comparison of formats reads a deleted viewer (`mainwindow.cpp:79`, `:156`); `Window` lets
  it give either answer.
- A list that cannot be read is followed by its null root (`schedule.cpp:72`); without a scheduler the C interface still
  reports success (`cvtinterface.cpp:39`).
- A padded NV12 picture is sized with its stride and read without it (`YUV420SP.cpp:47`); indexed pictures go to the
  brightness loop as colours (`alight.cpp:45`).
- Switching BP reloads the picture without its light and leaves AL checked (`myQImageviewer.cpp:257`);
  the stride "exchange" remembers is not renewed by a guess (`myInfoBar.cpp:633`).
- `hardware_concurrency()` may be 0, and the pool then has no worker (`ThreadPool.h:25`).
- The product of two numbers of five or six digits in a name overflows an `int` (`autocomplete_utils.cpp:247`); versions are compared as strings
  (`update.cpp:59`); of two programs that end one after the other the second overwrites what the first learned
  (`autocomplete_config.cpp:141`).

## 6. Plan

1. (done) the pool, the converters, the buffers, the scheduler, the viewer.
2. (done) statistics and brightness, navigation, tabs, format guess, configuration and update check.
3. (done) proofs of the pool, all converters, the statistics, the buffers, the scheduler, the viewer, the configuration.
4. (done) proofs of the navigation and the window, and of the uses of formats. Every safety invariant of a run is now a
   theorem; of the action properties `GuessIsBest` is not.
