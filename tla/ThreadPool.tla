------------------------------ MODULE ThreadPool ------------------------------
(***************************************************************************)
(* class ThreadPool (src/common/utils/threadpool/ThreadPool.h), the lazily *)
(* created instance of it (threadpool.cpp) and the static object that      *)
(* deletes the instance at exit (extern.cpp).                              *)
(*                                                                         *)
(* Every std::unique_lock scope of the class is one step: the mutex is     *)
(* released only at its end or inside condition.wait.  What happens        *)
(* outside the lock - notify_one after the push, the task itself, the      *)
(* blocking get of a future, notify_all and join - are steps of their own. *)
(***************************************************************************)
EXTENDS Naturals, Sequences, FiniteSets

CONSTANTS Workers,   \* the threads of `workers'
          Clients,   \* the threads that call enqueue and future::get
          Owner,     \* the client that creates and destroys the pool
          Tasks,     \* every callable ever passed to enqueue
          Caller,    \* Caller[t]: the client that enqueues t and gets its future
          NoTask

ASSUME PoolAssumption ==
  /\ IsFiniteSet(Workers) /\ Workers # {}  \* max_cpu() > 0
  /\ IsFiniteSet(Clients) /\ Owner \in Clients
  /\ Caller \in [Tasks -> Clients]
  /\ NoTask \notin Tasks

VARIABLES pool,      \* p_thread_instance: "none" (not created), "live", "gone" (deleted)
          stop,
          tasks,     \* the task queue
          worker,    \* control state of each worker thread
          job,       \* the local `task' of each worker thread
          client,    \* control state of each client
          arg,       \* the task a client's call in progress is about
          future,    \* state of the future of each task
          runs       \* history: how many times each callable was executed

vars == <<pool, stop, tasks, worker, job, client, arg, future, runs>>

WorkerStates == {"none", "lock", "wait", "run", "exited"}
ClientStates == {"idle", "notify", "get", "notifyAll", "join", "end"}
FutureStates == {"none", "pending", "ready", "taken", "refused"}

TypeOK ==
  /\ pool \in {"none", "live", "gone"}
  /\ stop \in BOOLEAN
  /\ tasks \in Seq(Tasks)
  /\ worker \in [Workers -> WorkerStates]
  /\ job \in [Workers -> Tasks \cup {NoTask}]
  /\ client \in [Clients -> ClientStates]
  /\ arg \in [Clients -> Tasks \cup {NoTask}]
  /\ future \in [Tasks -> FutureStates]
  /\ runs \in [Tasks -> Nat]

Init ==
  /\ pool = "none"
  /\ stop = FALSE
  /\ tasks = <<>>
  /\ worker = [w \in Workers |-> "none"]
  /\ job = [w \in Workers |-> NoTask]
  /\ client = [c \in Clients |-> "idle"]
  /\ arg = [c \in Clients |-> NoTask]
  /\ future = [t \in Tasks |-> "none"]
  /\ runs = [t \in Tasks |-> 0]

Waiting == {w \in Workers : worker[w] = "wait"}
Awake   == {w \in Workers : worker[w] = "lock"}
Notifying == {c \in Clients : client[c] = "notify"}
Elements(q) == {q[i] : i \in DOMAIN q}
Queued == Elements(tasks)

-----------------------------------------------------------------------------
(* The clients.                                                            *)

\* getThreadInstance() finds no instance: the constructor launches the workers.
\* Only the owner does it: the program's first use is on the GUI thread.
GetThreadInstance ==
  /\ pool = "none"
  /\ client[Owner] = "idle"
  /\ pool' = "live"
  /\ worker' = [w \in Workers |-> "lock"]
  /\ UNCHANGED <<stop, tasks, job, client, arg, future, runs>>

MayEnqueue(t) ==
  /\ pool = "live"
  /\ client[Caller[t]] = "idle"
  /\ future[t] = "none"

\* The locked part of enqueue() queues an entry and leaves the client to go on.
Push(t, entry, next) ==
  /\ tasks' = Append(tasks, entry)
  /\ future' = [future EXCEPT ![t] = "pending"]
  /\ client' = [client EXCEPT ![Caller[t]] = next]
  /\ UNCHANGED <<pool, stop, worker, job, arg, runs>>

\* Mutants: the function is moved from before it is queued; notify_one only when
\* the queue was empty; no test of `stop'.
EnqueueMoved(t)   == MayEnqueue(t) /\ ~stop /\ Push(t, NoTask, "notify")
EnqueueQuiet(t)   == MayEnqueue(t) /\ ~stop /\ Push(t, t, IF tasks = <<>> THEN "notify" ELSE "idle")
EnqueueStopped(t) == MayEnqueue(t) /\ Push(t, t, "notify")

Enqueue(t) == MayEnqueue(t) /\ ~stop /\ Push(t, t, "notify")

\* enqueue() on a stopped pool throws std::runtime_error.
EnqueueThrows(t) ==
  /\ MayEnqueue(t)
  /\ stop
  /\ future' = [future EXCEPT ![t] = "refused"]
  /\ UNCHANGED <<pool, stop, tasks, worker, job, client, arg, runs>>

\* Mutant: the notification is forgotten.
NotifyNobody(c) ==
  /\ client[c] = "notify"
  /\ client' = [client EXCEPT ![c] = "idle"]
  /\ UNCHANGED <<pool, stop, tasks, worker, job, arg, future, runs>>

\* condition.notify_one(), after the lock was released: it wakes one waiting
\* worker, and is lost when there is none.
NotifyOne(c) ==
  /\ client[c] = "notify"
  /\ client' = [client EXCEPT ![c] = "idle"]
  /\ IF Waiting = {}
       THEN UNCHANGED worker
       ELSE \E w \in Waiting : worker' = [worker EXCEPT ![w] = "lock"]
  /\ UNCHANGED <<pool, stop, tasks, job, arg, future, runs>>

\* The client calls get() on the future of a task it enqueued ...
CallGet(t) ==
  /\ client[Caller[t]] = "idle"
  /\ future[t] \in {"pending", "ready"}
  /\ client' = [client EXCEPT ![Caller[t]] = "get"]
  /\ arg' = [arg EXCEPT ![Caller[t]] = t]
  /\ UNCHANGED <<pool, stop, tasks, worker, job, future, runs>>

\* ... and is released once the shared state is ready.
ReturnGet(c) ==
  /\ client[c] = "get"
  /\ future[arg[c]] = "ready"
  /\ future' = [future EXCEPT ![arg[c]] = "taken"]
  /\ client' = [client EXCEPT ![c] = "idle"]
  /\ arg' = [arg EXCEPT ![c] = NoTask]
  /\ UNCHANGED <<pool, stop, tasks, worker, job, runs>>

-----------------------------------------------------------------------------
(* The workers.                                                            *)

TakeHead(w, rest) ==
  /\ worker[w] = "lock"
  /\ tasks # <<>>
  /\ job' = [job EXCEPT ![w] = Head(tasks)]
  /\ tasks' = rest
  /\ worker' = [worker EXCEPT ![w] = "run"]
  /\ UNCHANGED <<pool, stop, client, arg, future, runs>>

\* Mutant: front() without pop().
TakeCopy(w) == TakeHead(w, tasks)

\* A worker has the mutex and finds work: it pops the front of the queue.
Take(w) == TakeHead(w, Tail(tasks))

\* The predicate of condition.wait is false: the worker sleeps.
Wait(w) ==
  /\ worker[w] = "lock"
  /\ ~stop /\ tasks = <<>>
  /\ worker' = [worker EXCEPT ![w] = "wait"]
  /\ UNCHANGED <<pool, stop, tasks, job, client, arg, future, runs>>

\* A condition variable may wake up unasked; wait(lock, pred) tests again.
SpuriousWakeup(w) ==
  /\ worker[w] = "wait"
  /\ worker' = [worker EXCEPT ![w] = "lock"]
  /\ UNCHANGED <<pool, stop, tasks, job, client, arg, future, runs>>

Leave(w) ==
  /\ worker[w] = "lock"
  /\ worker' = [worker EXCEPT ![w] = "exited"]
  /\ UNCHANGED <<pool, stop, tasks, job, client, arg, future, runs>>

\* Mutant: the thread returns as soon as `stop' is set.
ExitAtOnce(w) == stop /\ Leave(w)

\* stop is set and the queue is empty: the thread function returns.
Exit(w) == stop /\ tasks = <<>> /\ Leave(w)

\* task() runs to its end outside the lock and makes its future ready.
Run(w) ==
  /\ worker[w] = "run"
  /\ runs' = [runs EXCEPT ![job[w]] = @ + 1]
  /\ future' = [future EXCEPT ![job[w]] = "ready"]
  /\ job' = [job EXCEPT ![w] = NoTask]
  /\ worker' = [worker EXCEPT ![w] = "lock"]
  /\ UNCHANGED <<pool, stop, tasks, client, arg>>

-----------------------------------------------------------------------------
(* The destructor, called by the static ThreadGarbo at exit.               *)

SetStop ==
  /\ pool = "live"
  /\ client[Owner] = "idle"
  /\ stop' = TRUE
  /\ client' = [client EXCEPT ![Owner] = "notifyAll"]
  /\ UNCHANGED <<pool, tasks, worker, job, arg, future, runs>>

WakeAndJoin(woken) ==
  /\ client[Owner] = "notifyAll"
  /\ worker' = [w \in Workers |-> IF w \in woken THEN "lock" ELSE worker[w]]
  /\ client' = [client EXCEPT ![Owner] = "join"]
  /\ UNCHANGED <<pool, stop, tasks, job, arg, future, runs>>

\* Mutant: notify_one instead of notify_all.
NotifyOnlyOne ==
  IF Waiting = {} THEN WakeAndJoin({}) ELSE \E w \in Waiting : WakeAndJoin({w})

NotifyAll == WakeAndJoin(Waiting)

\* Every worker is joined and p_thread_instance is reset.  A caller may not be
\* inside a member function of an object whose lifetime ends: this is the
\* obligation of the program, which calls enqueue from the owner's thread only.
Join ==
  /\ client[Owner] = "join"
  /\ \A w \in Workers : worker[w] = "exited"
  /\ Notifying = {}
  /\ pool' = "gone"
  /\ client' = [client EXCEPT ![Owner] = "end"]
  /\ UNCHANGED <<stop, tasks, worker, job, arg, future, runs>>

\* After exit nothing happens any more.
Finished ==
  /\ pool = "gone"
  /\ \A c \in Clients \ {Owner} : client[c] = "idle"
  /\ UNCHANGED vars

-----------------------------------------------------------------------------
WorkerStep(w) == Take(w) \/ Wait(w) \/ Exit(w) \/ Run(w)

ClientStep == \E t \in Tasks : Enqueue(t) \/ EnqueueThrows(t) \/ CallGet(t)

ReturnStep(c) == NotifyOne(c) \/ ReturnGet(c)

Next ==
  \/ GetThreadInstance
  \/ ClientStep
  \/ \E c \in Clients : ReturnStep(c)
  \/ \E w \in Workers : WorkerStep(w) \/ SpuriousWakeup(w)
  \/ SetStop \/ NotifyAll \/ Join
  \/ Finished

SafeSpec == Init /\ [][Next]_vars

\* The threads are scheduled, a task is a loop that ends, and a call in
\* progress goes on.  Nothing makes a client call, nor a wake-up spurious.
Fairness ==
  /\ \A w \in Workers : WF_vars(WorkerStep(w))
  /\ \A c \in Clients : WF_vars(ReturnStep(c))
  /\ WF_vars(NotifyAll) /\ WF_vars(Join)

Spec == SafeSpec /\ Fairness

-----------------------------------------------------------------------------
(* Safety.                                                                 *)

Accepted == {t \in Tasks : future[t] \in {"pending", "ready", "taken"}}
Holder(t) == {w \in Workers : worker[w] = "run" /\ job[w] = t}

\* A pending future is answered by exactly one entry: one place in the queue or
\* one worker, never both, and a callable was executed exactly once when its
\* future is ready and never before (pop and execution at ThreadPool.h:56-60
\* neither lose nor repeat a task).
ExactlyOnce ==
  /\ \A t \in Tasks :
       /\ runs[t] = IF future[t] \in {"ready", "taken"} THEN 1 ELSE 0
       /\ future[t] = "pending" <=> (t \in Queued \/ Holder(t) # {})
       /\ t \in Queued => Holder(t) = {}
       /\ \A v, w \in Holder(t) : v = w
  /\ \A i, j \in DOMAIN tasks : tasks[i] = tasks[j] => i = j

\* While a worker sleeps, every queued task has a worker of its own that is
\* awake or about to be notified: the notify_one outside the lock
\* (ThreadPool.h:89) never leaves a task to a busy worker while another sleeps.
NoWastedWakeup ==
  Waiting # {} => Len(tasks) <= Cardinality(Awake) + Cardinality(Notifying)

\* A worker leaves only when the pool stops and the queue stays empty, and no
\* worker sleeps once notify_all was called: a stopped pool drains its queue
\* before the destructor returns (ThreadPool.h:54-55, 94-103).
StopDrains ==
  /\ (\E w \in Workers : worker[w] = "exited") => stop /\ tasks = <<>>
  /\ client[Owner] \in {"join", "end"} => Waiting = {}
  /\ pool = "gone" => \A t \in Tasks : future[t] # "pending"

-----------------------------------------------------------------------------
(* Liveness.                                                               *)

\* Every accepted task is executed, shutdown or not, so that a converter that waits
\* for its bands in get() is released.
EveryTaskRuns == \A t \in Tasks : future[t] = "pending" ~> future[t] = "ready"

\* The destructor returns: the program can exit.
DestructorReturns == client[Owner] = "notifyAll" ~> pool = "gone"

-----------------------------------------------------------------------------
(* The abstract service it implements.                                     *)

serviceBar ==
  CASE pool = "none" -> "none"
    [] pool = "gone" -> "closed"
    [] OTHER -> IF stop THEN "closing" ELSE "open"

statusBar ==
  [t \in Tasks |->
     CASE future[t] = "none" -> "new"
       [] future[t] = "refused" -> "refused"
       [] future[t] \in {"ready", "taken"} -> "finished"
       [] OTHER -> IF t \in Queued THEN "accepted" ELSE "running"]

Service == INSTANCE TaskService WITH service <- serviceBar, status <- statusBar

\* The pool is a task service: nothing accepted is lost, repeated or left
\* undone when the pool is gone, and everything accepted is started and ends.
ImplementsService == Service!Spec
=============================================================================
