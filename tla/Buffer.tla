------------------------------- MODULE Buffer -------------------------------
(***************************************************************************)
(* class __BUFFER__ (src/common/utils/buffer.h) as the program uses it:    *)
(* resize, swap, access through begin() and destruction.                   *)
(*                                                                         *)
(* A buffer object points to a memory block (mp_buffer) and to a control   *)
(* cell (mp_size and mp_refcounts, always allocated and deleted together). *)
(* The assignment, which shares memory through back pointers to the        *)
(* original (mp_buffer_copy and the like), has no caller in the program    *)
(* and is left out; the back pointers are therefore null everywhere, and   *)
(* the statements that follow them (lines 106-111 and 204-212) have no  *)
(* effect.                                                                 *)
(***************************************************************************)
EXTENDS Naturals, FiniteSets

CONSTANTS Objects,   \* the buffer objects, the two of each REQUESTINFO for instance
          Blocks,    \* addresses of memory blocks
          Cells,     \* addresses of control cells
          Sizes,     \* the sizes asked for
          Contents,  \* what a conversion may leave in a block
          Unwritten, \* what new UCHAR[] leaves in it
          NoAddress  \* a null pointer

ASSUME BufferAssumption ==
  /\ IsFiniteSet(Objects)
  /\ Sizes \subseteq Nat
  /\ Unwritten \notin Contents
  /\ NoAddress \notin Blocks /\ NoAddress \notin Cells

VARIABLES
  obj,     \* the members of every object, by object
  alive,   \* the objects that were not destroyed
  memory,  \* the blocks that are allocated, with their capacity and content
  control, \* the cells that are allocated, with size and reference count
  faults   \* what the heap would complain of: double frees, dangling pointers

bufferVars == <<obj, alive, memory, control, faults>>

Empty == [buffer |-> NoAddress, cell |-> NoAddress]

Members == [buffer : Blocks \cup {NoAddress}, cell : Cells \cup {NoAddress}]

BufferTypeOK ==
  /\ obj \in [Objects -> Members]
  /\ alive \subseteq Objects
  /\ DOMAIN memory \subseteq Blocks
  /\ \A b \in DOMAIN memory :
       memory[b] \in [capacity : Sizes, data : Contents \cup {Unwritten}]
  /\ DOMAIN control \subseteq Cells
  /\ \A c \in DOMAIN control : control[c] \in [size : Sizes, refs : Nat]
  /\ faults \subseteq {"double free", "dangling"}

BufferInit ==
  /\ obj = [o \in Objects |-> Empty]
  /\ alive = Objects
  /\ memory = <<>>
  /\ control = <<>>
  /\ faults = {}

Without(f, k) == [j \in DOMAIN f \ {k} |-> f[j]]
With(f, k, v) == [j \in DOMAIN f \cup {k} |-> IF j = k THEN v ELSE f[j]]

\* delete of a pointer that may be NoAddress
Delete(f, p) == Without(f, p)
DeleteFault(f, p) == IF p = NoAddress \/ p \in DOMAIN f THEN {} ELSE {"double free"}

-----------------------------------------------------------------------------
\* The block o points to cannot hold n bytes, or there is none.
NeedsNew(o, n) == obj[o].buffer # NoAddress => control[obj[o].cell].size < n

\* resize(n) when it allocates: the old block is deleted and the cell is
\* allocated on first use.
\* The new address differs from the old one, so that a pointer that was kept to
\* the old block is seen to dangle.
Allocate(o, n, kept) ==
  /\ o \in alive
  /\ NeedsNew(o, n)
  /\ \E b \in Blocks \ (DOMAIN memory \cup {obj[o].buffer}), c \in Cells :
       /\ c = obj[o].cell \/ (obj[o].cell = NoAddress /\ c \notin DOMAIN control)
       /\ memory' = With(IF kept THEN memory ELSE Delete(memory, obj[o].buffer),
                         b, [capacity |-> n, data |-> Unwritten])
       /\ control' = With(control, c, [size |-> n, refs |-> 1])
       /\ obj' = [obj EXCEPT ![o] = [buffer |-> b, cell |-> c]]
  /\ faults' = faults \cup DeleteFault(memory, obj[o].buffer)
  /\ UNCHANGED alive

\* Mutant: the old block is not deleted.
AllocateLeaking(o, n) == Allocate(o, n, TRUE)

ResizeNew(o, n) == Allocate(o, n, FALSE)

KeepBlock(o, n) ==
  /\ o \in alive
  /\ obj[o].buffer # NoAddress
  /\ control' = With(control, obj[o].cell, [size |-> n, refs |-> 1])
  /\ UNCHANGED <<obj, alive, memory, faults>>

\* Mutant: a block is never too small.
KeepAny(o, n) == KeepBlock(o, n)

\* resize(n) when the block is large enough: only the size changes, and what
\* was in the block stays there.
ResizeKept(o, n) == ~NeedsNew(o, n) /\ KeepBlock(o, n)

\* Mutant: the pointers are copied, not exchanged.
SwapCopies(o, p) ==
  /\ {o, p} \subseteq alive /\ o # p
  /\ obj' = [obj EXCEPT ![o] = obj[p]]
  /\ UNCHANGED <<alive, memory, control, faults>>

\* swap: "a plain exchange of values".
Swap(o, p) ==
  /\ {o, p} \subseteq alive /\ o # p
  /\ obj' = [obj EXCEPT ![o] = obj[p], ![p] = obj[o]]
  /\ UNCHANGED <<alive, memory, control, faults>>

\* A conversion or a file fills the memory from begin().
Write(o, data) ==
  /\ o \in alive
  /\ obj[o].buffer # NoAddress
  /\ IF obj[o].buffer \in DOMAIN memory
       THEN memory' = [memory EXCEPT ![obj[o].buffer].data = data] /\ UNCHANGED faults
       ELSE faults' = faults \cup {"dangling"} /\ UNCHANGED memory
  /\ UNCHANGED <<obj, alive, control>>

\* deleteAll() of an object that is not used any more.
DeleteAll(o) ==
  /\ memory' = Delete(memory, obj[o].buffer)
  /\ control' = Delete(control, obj[o].cell)
  /\ obj' = [obj EXCEPT ![o] = Empty]
  /\ faults' = faults \cup DeleteFault(memory, obj[o].buffer)
                      \cup DeleteFault(control, obj[o].cell)

\* The destructor: refdd() takes one reference, and the last one deletes all.
\* A cell that was deleted already is read: a dangling pointer.
Destroy(o) ==
  /\ o \in alive
  /\ alive' = alive \ {o}
  /\ LET c == obj[o].cell
     IN  IF c = NoAddress THEN UNCHANGED <<obj, memory, control, faults>>
         ELSE IF c \notin DOMAIN control
           THEN faults' = faults \cup {"dangling"} /\ UNCHANGED <<obj, memory, control>>
         ELSE IF control[c].refs > 1
           THEN /\ control' = [control EXCEPT ![c].refs = @ - 1]
                /\ UNCHANGED <<obj, memory, faults>>
         ELSE DeleteAll(o)

AllGone == alive = {} /\ UNCHANGED bufferVars

BufferNext ==
  \/ \E o \in Objects :
       \/ \E n \in Sizes : ResizeNew(o, n) \/ ResizeKept(o, n)
       \/ \E p \in Objects : Swap(o, p)
       \/ \E data \in Contents : Write(o, data)
       \/ Destroy(o)
  \/ AllGone

BufferSpec == BufferInit /\ [][BufferNext]_bufferVars

-----------------------------------------------------------------------------
Owners(b) == {o \in alive : obj[o].buffer = b}
CellOwners(c) == {o \in alive : obj[o].cell = c}

\* Every allocated block and cell belongs to exactly one object that is alive,
\* and every object points to memory that is allocated: nothing leaks, nothing
\* is aliased, nothing dangles and nothing was deleted twice, after any sequence
\* of resize, swap and destruction (buffer.h:44-50, 72-125, 184-213).
Ownership ==
  /\ \A b \in DOMAIN memory : Cardinality(Owners(b)) = 1
  /\ \A c \in DOMAIN control : Cardinality(CellOwners(c)) = 1
  /\ \A o \in alive :
       /\ obj[o].buffer # NoAddress => obj[o].buffer \in DOMAIN memory
       /\ obj[o].cell # NoAddress => obj[o].cell \in DOMAIN control
       /\ obj[o].buffer = NoAddress <=> obj[o].cell = NoAddress
  /\ faults = {}

\* size() never promises more than was allocated, whatever a resize did to a
\* block that was larger or a swap to the pair of pointers.
SizeFits ==
  \A o \in alive :
    obj[o].buffer \in DOMAIN memory /\ obj[o].cell \in DOMAIN control
      => control[obj[o].cell].size <= memory[obj[o].buffer].capacity

\* What begin() of a buffer shows.
View(o) == IF obj[o].buffer \in DOMAIN memory THEN memory[obj[o].buffer].data ELSE NoAddress

\* The operations on one buffer.
ActsOn(o) ==
  \/ \E n \in Sizes : ResizeNew(o, n) \/ ResizeKept(o, n)
  \/ \E data \in Contents : Write(o, data)
  \/ Destroy(o)

\* What a buffer shows survives every operation on other buffers: a resize, a write
\* or the destruction of one is not seen through any other, and a swap of two is not
\* seen through a third (buffer.h:72-143, 164-213).
OthersUndisturbed ==
  [][/\ \A o \in Objects : ActsOn(o) => \A p \in alive \ {o} : View(p)' = View(p)
     /\ \A o, q \in Objects : Swap(o, q) => \A p \in alive \ {o, q} : View(p)' = View(p)]_bufferVars
=============================================================================
