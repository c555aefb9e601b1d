--------------------------- MODULE ThreadPoolProofs ---------------------------
(***************************************************************************)
(* Theorems about the thread pool, for any finite non-empty set of workers *)
(* and any sets of clients and tasks.                                      *)
(***************************************************************************)
EXTENDS ThreadPool, SequenceTheorems, FiniteSetTheorems, TLAPS

\* Popping the front of a queue keeps it a queue of tasks.
LEMMA TailOfQueue ==
  ASSUME NEW S, NEW q \in Seq(S), q # <<>>
  PROVE  /\ Head(q) \in S
         /\ Tail(q) \in Seq(S)
         /\ Len(q) \in Nat \ {0}
         /\ Len(Tail(q)) = Len(q) - 1
         /\ \A i \in 1..Len(Tail(q)) : Tail(q)[i] = q[i+1]
         /\ Head(q) = q[1]
BY HeadTailProperties, LenProperties, EmptySeq

\* Pushing at the back of a queue.
LEMMA PushOnQueue ==
  ASSUME NEW S, NEW q \in Seq(S), NEW e \in S
  PROVE  /\ Append(q, e) \in Seq(S)
         /\ Append(q, e) # <<>>
         /\ Len(q) \in Nat
         /\ Len(Append(q, e)) = Len(q) + 1
         /\ \A i \in 1..Len(q) : Append(q, e)[i] = q[i]
         /\ Append(q, e)[Len(q) + 1] = e
BY AppendProperties, LenProperties

-----------------------------------------------------------------------------
\* Which control states go together: a worker runs iff it holds a task, nothing
\* has happened before the pool exists, and only the owner destroys it.
Lifecycle ==
  /\ \A w \in Workers : worker[w] = "run" <=> job[w] \in Tasks
  /\ \A c \in Clients : client[c] = "get" <=> arg[c] \in Tasks
  /\ pool = "none" =>
       /\ ~stop /\ tasks = <<>>
       /\ \A w \in Workers : worker[w] = "none"
       /\ \A t \in Tasks : future[t] = "none"
  /\ pool # "none" => \A w \in Workers : worker[w] # "none"
  /\ stop <=> client[Owner] \in {"notifyAll", "join", "end"}
  /\ \A c \in Clients : client[c] \in {"notifyAll", "join", "end"} => c = Owner
  /\ pool = "gone" <=> client[Owner] = "end"

\* Where a task is: the entries of the queue are distinct pending tasks, a
\* running worker holds a pending task that no other worker and no entry holds,
\* every pending task is somewhere, and a finished task was executed once.
Placement ==
  /\ \A i \in 1..Len(tasks) : future[tasks[i]] = "pending"
  /\ \A i, j \in 1..Len(tasks) : tasks[i] = tasks[j] => i = j
  /\ \A w \in Workers : worker[w] = "run" => future[job[w]] = "pending"
  /\ \A w \in Workers, i \in 1..Len(tasks) : worker[w] = "run" => tasks[i] # job[w]
  /\ \A v, w \in Workers : worker[v] = "run" /\ job[v] = job[w] => v = w
  /\ \A t \in Tasks : future[t] = "pending" =>
       \/ \E i \in 1..Len(tasks) : tasks[i] = t
       \/ \E w \in Workers : worker[w] = "run" /\ job[w] = t
  /\ \A t \in Tasks : runs[t] = IF future[t] \in {"ready", "taken"} THEN 1 ELSE 0

\* What is left of the pool while it stops.
Draining ==
  /\ \A w \in Workers : worker[w] = "exited" => stop /\ tasks = <<>>
  /\ client[Owner] \in {"join", "end"} => \A w \in Workers : worker[w] # "wait"
  /\ pool = "gone" => \A w \in Workers : worker[w] = "exited"

Inv == TypeOK /\ Lifecycle /\ Placement /\ Draining

\* Types and control states are preserved by every step of the pool.
LEMMA TypeStep ==
  ASSUME TypeOK, Lifecycle, [Next]_vars
  PROVE  TypeOK' /\ Lifecycle'
<1> USE PoolAssumption DEF TypeOK, Lifecycle, WorkerStates, ClientStates, FutureStates
<1>1. CASE GetThreadInstance
  BY <1>1 DEF GetThreadInstance
<1>2. ASSUME NEW t \in Tasks, Enqueue(t)
      PROVE  TypeOK' /\ Lifecycle'
  BY <1>2, PushOnQueue DEF Enqueue, Push, MayEnqueue
<1>3. ASSUME NEW t \in Tasks, EnqueueThrows(t)
      PROVE  TypeOK' /\ Lifecycle'
  BY <1>3 DEF EnqueueThrows, MayEnqueue
<1>4. ASSUME NEW t \in Tasks, CallGet(t)
      PROVE  TypeOK' /\ Lifecycle'
  BY <1>4 DEF CallGet
<1>5. ASSUME NEW c \in Clients, NotifyOne(c)
      PROVE  TypeOK' /\ Lifecycle'
  BY <1>5 DEF NotifyOne, Waiting
<1>6. ASSUME NEW c \in Clients, ReturnGet(c)
      PROVE  TypeOK' /\ Lifecycle'
  BY <1>6 DEF ReturnGet
<1>7. ASSUME NEW w \in Workers, Take(w)
      PROVE  TypeOK' /\ Lifecycle'
  BY <1>7, TailOfQueue DEF Take, TakeHead
<1>8. ASSUME NEW w \in Workers, Wait(w)
      PROVE  TypeOK' /\ Lifecycle'
  BY <1>8 DEF Wait
<1>9. ASSUME NEW w \in Workers, Exit(w)
      PROVE  TypeOK' /\ Lifecycle'
  BY <1>9 DEF Exit, Leave
<1>10. ASSUME NEW w \in Workers, Run(w)
       PROVE  TypeOK' /\ Lifecycle'
  BY <1>10 DEF Run
<1>11. ASSUME NEW w \in Workers, SpuriousWakeup(w)
       PROVE  TypeOK' /\ Lifecycle'
  BY <1>11 DEF SpuriousWakeup
<1>12. CASE SetStop
  BY <1>12 DEF SetStop
<1>13. CASE NotifyAll
  BY <1>13 DEF NotifyAll, WakeAndJoin, Waiting
<1>14. CASE Join
  BY <1>14 DEF Join
<1>15. CASE UNCHANGED vars
  BY <1>15 DEF vars
<1> QED
  BY <1>1, <1>2, <1>3, <1>4, <1>5, <1>6, <1>7, <1>8, <1>9, <1>10, <1>11,
     <1>12, <1>13, <1>14, <1>15
     DEF Next, ClientStep, ReturnStep, WorkerStep, Finished

\* They hold before the pool is created.
LEMMA InitTypes == Init => TypeOK /\ Lifecycle
<1> SUFFICES ASSUME Init PROVE TypeOK /\ Lifecycle
  OBVIOUS
<1>1. TypeOK
  BY PoolAssumption, EmptySeq DEF Init, TypeOK, WorkerStates, ClientStates, FutureStates
<1>2. Lifecycle
  BY PoolAssumption DEF Init, Lifecycle
<1> QED
  BY <1>1, <1>2

\* The variables of the pool always have their types.
THEOREM TypeCorrect == SafeSpec => []TypeOK
<1>1. TypeOK /\ Lifecycle /\ [Next]_vars => TypeOK' /\ Lifecycle'
  BY TypeStep
<1> QED
  BY <1>1, InitTypes, PTL DEF SafeSpec

-----------------------------------------------------------------------------
\* A step that leaves the queue, the futures, the executions and what the
\* running workers hold alone leaves every task where it is.
LEMMA PlacementFrame ==
  ASSUME Placement, UNCHANGED <<tasks, future, runs, job>>,
         \A w \in Workers : worker'[w] = "run" <=> worker[w] = "run"
  PROVE  Placement'
BY DEF Placement

\* Every step keeps each pending task in exactly one place.
LEMMA PlacementStep ==
  ASSUME TypeOK, Lifecycle, Placement, [Next]_vars
  PROVE  Placement'
<1> USE PoolAssumption DEF TypeOK
<1>1. CASE GetThreadInstance
  BY <1>1, PlacementFrame DEF GetThreadInstance, Lifecycle
<1>2. ASSUME NEW t \in Tasks, Enqueue(t)
      PROVE  Placement'
  <2> DEFINE n == Len(tasks)
  <2>1. /\ tasks' = Append(tasks, t)
        /\ future[t] = "none"
        /\ future' = [future EXCEPT ![t] = "pending"]
        /\ UNCHANGED <<worker, job, runs>>
    BY <1>2 DEF Enqueue, Push, MayEnqueue
  <2>2. /\ n \in Nat /\ Len(tasks') = n + 1
        /\ \A i \in 1..n : tasks'[i] = tasks[i]
        /\ tasks'[n + 1] = t
    BY <2>1, PushOnQueue
  <2>3. \A i \in 1..n : tasks[i] # t /\ tasks[i] \in Tasks
    BY <2>1, ElementOfSeq DEF Placement
  <2>4. \A w \in Workers : worker[w] = "run" => job[w] # t /\ job[w] \in Tasks
    BY <2>1 DEF Placement, Lifecycle
  <2>5. \A i \in 1..(n + 1) : i \in 1..n \/ i = n + 1
    BY <2>2
  <2>6. \A i \in 1..Len(tasks') : future'[tasks'[i]] = "pending"
    BY <2>1, <2>2, <2>3, <2>5 DEF Placement
  <2>7. \A i, j \in 1..Len(tasks') : tasks'[i] = tasks'[j] => i = j
    BY <2>1, <2>2, <2>3, <2>5 DEF Placement
  <2>8. /\ \A w \in Workers : worker'[w] = "run" => future'[job'[w]] = "pending"
        /\ \A v, w \in Workers : worker'[v] = "run" /\ job'[v] = job'[w] => v = w
    BY <2>1, <2>4 DEF Placement
  <2>9. \A w \in Workers, i \in 1..Len(tasks') : worker'[w] = "run" => tasks'[i] # job'[w]
    BY <2>1, <2>2, <2>4, <2>5 DEF Placement
  <2>10. \A u \in Tasks : future'[u] = "pending" =>
           \/ \E i \in 1..Len(tasks') : tasks'[i] = u
           \/ \E w \in Workers : worker'[w] = "run" /\ job'[w] = u
    <3> SUFFICES ASSUME NEW u \in Tasks, future'[u] = "pending"
                 PROVE  \/ \E i \in 1..Len(tasks') : tasks'[i] = u
                        \/ \E w \in Workers : worker'[w] = "run" /\ job'[w] = u
      OBVIOUS
    <3>1. CASE u = t
      <4>1. n + 1 \in 1..Len(tasks') /\ tasks'[n + 1] = u
        BY <3>1, <2>2
      <4> QED
        BY <4>1
    <3>2. CASE u # t
      <4>1. future[u] = "pending"
        BY <3>2, <2>1
      <4>2. CASE \E i \in 1..n : tasks[i] = u
        BY <4>2, <2>2
      <4>3. CASE \E w \in Workers : worker[w] = "run" /\ job[w] = u
        BY <4>3, <2>1
      <4> QED
        BY <4>1, <4>2, <4>3 DEF Placement
    <3> QED
      BY <3>1, <3>2
  <2>11. \A u \in Tasks : runs'[u] = IF future'[u] \in {"ready", "taken"} THEN 1 ELSE 0
    BY <2>1 DEF Placement
  <2> QED
    BY <2>6, <2>7, <2>8, <2>9, <2>10, <2>11 DEF Placement
<1>3. ASSUME NEW t \in Tasks, EnqueueThrows(t)
      PROVE  Placement'
  <2>1. /\ future[t] = "none"
        /\ future' = [future EXCEPT ![t] = "refused"]
        /\ UNCHANGED <<tasks, worker, job, runs>>
    BY <1>3 DEF EnqueueThrows, MayEnqueue
  <2>2. /\ \A i \in 1..Len(tasks) : tasks[i] \in Tasks /\ tasks[i] # t
        /\ \A w \in Workers : worker[w] = "run" => job[w] \in Tasks /\ job[w] # t
    BY <2>1, ElementOfSeq DEF Placement, Lifecycle
  <2> QED
    BY <2>1, <2>2 DEF Placement
<1>4. ASSUME NEW t \in Tasks, CallGet(t)
      PROVE  Placement'
  BY <1>4, PlacementFrame DEF CallGet
<1>5. ASSUME NEW c \in Clients, NotifyOne(c)
      PROVE  Placement'
  BY <1>5, PlacementFrame DEF NotifyOne, Waiting
<1>6. ASSUME NEW c \in Clients, ReturnGet(c)
      PROVE  Placement'
  <2>1. /\ arg[c] \in Tasks /\ future[arg[c]] = "ready"
        /\ future' = [future EXCEPT ![arg[c]] = "taken"]
        /\ UNCHANGED <<tasks, worker, job, runs>>
    BY <1>6 DEF ReturnGet, Lifecycle
  <2>2. /\ \A i \in 1..Len(tasks) : tasks[i] \in Tasks /\ tasks[i] # arg[c]
        /\ \A w \in Workers : worker[w] = "run" => job[w] \in Tasks /\ job[w] # arg[c]
    BY <2>1, ElementOfSeq DEF Placement, Lifecycle
  <2> QED
    BY <2>1, <2>2 DEF Placement
<1>7. ASSUME NEW w \in Workers, Take(w)
      PROVE  Placement'
  <2> DEFINE n == Len(tasks')
             h == tasks[1]
  <2>1. /\ worker[w] = "lock"
        /\ tasks # <<>> /\ tasks' = Tail(tasks)
        /\ job' = [job EXCEPT ![w] = Head(tasks)]
        /\ worker' = [worker EXCEPT ![w] = "run"]
        /\ UNCHANGED <<future, runs>>
    BY <1>7 DEF Take, TakeHead
  <2>2. /\ n \in Nat /\ Len(tasks) = n + 1
        /\ \A i \in 1..n : tasks'[i] = tasks[i + 1]
        /\ Head(tasks) = h /\ h \in Tasks
    BY <2>1, TailOfQueue
  <2>3. \A i \in 1..n : i + 1 \in 1..Len(tasks) /\ i + 1 # 1
    BY <2>2
  <2>4. 1 \in 1..Len(tasks)
    BY <2>2
  <2>5. /\ worker'[w] = "run" /\ job'[w] = h
        /\ \A v \in Workers \ {w} : worker'[v] = worker[v] /\ job'[v] = job[v]
    BY <2>1, <2>2
  <2>6. \A i \in 1..n : future'[tasks'[i]] = "pending" /\ tasks'[i] # h
    BY <2>1, <2>2, <2>3, <2>4 DEF Placement
  <2>7. \A i, j \in 1..n : tasks'[i] = tasks'[j] => i = j
    <3> SUFFICES ASSUME NEW i \in 1..n, NEW j \in 1..n, tasks'[i] = tasks'[j]
                 PROVE  i = j
      OBVIOUS
    <3>1. /\ i + 1 \in 1..Len(tasks) /\ j + 1 \in 1..Len(tasks)
          /\ tasks[i + 1] = tasks[j + 1]
      BY <2>2, <2>3
    <3>2. i + 1 = j + 1
      BY <3>1 DEF Placement
    <3> QED
      BY <3>2, <2>2
  <2>8. \A v \in Workers : worker'[v] = "run" => future'[job'[v]] = "pending"
    BY <2>1, <2>4, <2>5 DEF Placement
  <2>9. \A v \in Workers, i \in 1..n : worker'[v] = "run" => tasks'[i] # job'[v]
    <3>1. \A v \in Workers \ {w}, i \in 1..n : worker[v] = "run" => tasks[i + 1] # job[v]
      BY <2>3 DEF Placement
    <3> QED
      BY <3>1, <2>2, <2>5, <2>6
  <2>10. \A u, v \in Workers : worker'[u] = "run" /\ job'[u] = job'[v] => u = v
    <3>1. \A v \in Workers \ {w} : worker[v] = "run" => job[v] # h
      BY <2>4 DEF Placement
    <3>2. \A v \in Workers \ {w} : job[v] = h => worker[v] = "run"
      BY <2>2 DEF Lifecycle
    <3> QED
      BY <2>5, <3>1, <3>2 DEF Placement
  <2>11. \A u \in Tasks : future'[u] = "pending" =>
           \/ \E i \in 1..n : tasks'[i] = u
           \/ \E v \in Workers : worker'[v] = "run" /\ job'[v] = u
    <3> SUFFICES ASSUME NEW u \in Tasks, future[u] = "pending"
                 PROVE  \/ \E i \in 1..n : tasks'[i] = u
                        \/ \E v \in Workers : worker'[v] = "run" /\ job'[v] = u
      BY <2>1
    <3>1. CASE \E i \in 1..Len(tasks) : tasks[i] = u
      <4>1. PICK i \in 1..Len(tasks) : tasks[i] = u
        BY <3>1
      <4>2. CASE i = 1
        BY <4>1, <4>2, <2>5
      <4>3. CASE i # 1
        <5>1. i - 1 \in 1..n /\ (i - 1) + 1 = i
          BY <4>3, <2>2
        <5> QED
          BY <5>1, <4>1, <2>2
      <4> QED
        BY <4>2, <4>3
    <3>2. CASE \E v \in Workers : worker[v] = "run" /\ job[v] = u
      BY <3>2, <2>1, <2>5
    <3> QED
      BY <3>1, <3>2 DEF Placement
  <2>12. \A u \in Tasks : runs'[u] = IF future'[u] \in {"ready", "taken"} THEN 1 ELSE 0
    BY <2>1 DEF Placement
  <2> QED
    BY <2>6, <2>7, <2>8, <2>9, <2>10, <2>11, <2>12 DEF Placement
<1>8. ASSUME NEW w \in Workers, Wait(w)
      PROVE  Placement'
  BY <1>8, PlacementFrame DEF Wait
<1>9. ASSUME NEW w \in Workers, Exit(w)
      PROVE  Placement'
  BY <1>9, PlacementFrame DEF Exit, Leave
<1>10. ASSUME NEW w \in Workers, Run(w)
       PROVE  Placement'
  <2>1. /\ worker[w] = "run" /\ job[w] \in Tasks
        /\ runs' = [runs EXCEPT ![job[w]] = @ + 1]
        /\ future' = [future EXCEPT ![job[w]] = "ready"]
        /\ job' = [job EXCEPT ![w] = NoTask]
        /\ worker' = [worker EXCEPT ![w] = "lock"]
        /\ UNCHANGED tasks
    BY <1>10 DEF Run, Lifecycle
  <2>2. future[job[w]] = "pending"
    BY <2>1 DEF Placement
  <2>3. \A i \in 1..Len(tasks) : tasks[i] \in Tasks /\ tasks[i] # job[w]
    BY <2>1, ElementOfSeq DEF Placement
  <2>4. /\ worker'[w] = "lock" /\ job'[w] = NoTask
        /\ \A v \in Workers \ {w} : worker'[v] = worker[v] /\ job'[v] = job[v]
    BY <2>1
  <2>5. \A v \in Workers \ {w} : worker[v] = "run" => job[v] # job[w] /\ job[v] \in Tasks
    BY <2>1 DEF Placement, Lifecycle
  <2>6. /\ \A i \in 1..Len(tasks') : future'[tasks'[i]] = "pending"
        /\ \A v \in Workers : worker'[v] = "run" => future'[job'[v]] = "pending"
    BY <2>1, <2>3, <2>4, <2>5 DEF Placement
  <2>6a. \A i, j \in 1..Len(tasks') : tasks'[i] = tasks'[j] => i = j
    BY <2>1 DEF Placement
  <2>7. \A v \in Workers, i \in 1..Len(tasks') : worker'[v] = "run" => tasks'[i] # job'[v]
    BY <2>1, <2>4 DEF Placement
  <2>7a. ASSUME NEW u \in Workers, NEW v \in Workers, worker'[u] = "run", job'[u] = job'[v]
         PROVE  u = v
    <3>1. u # w /\ job'[u] = job[u] /\ worker[u] = "run" /\ job[u] \in Tasks
      BY <2>7a, <2>4, <2>5
    <3>2. v # w
      BY <3>1, <2>4, <2>7a
    <3> QED
      BY <3>1, <3>2, <2>4, <2>7a DEF Placement
  <2>8. ASSUME NEW u \in Tasks, future'[u] = "pending"
        PROVE  \/ \E i \in 1..Len(tasks') : tasks'[i] = u
               \/ \E v \in Workers : worker'[v] = "run" /\ job'[v] = u
    <3>1. u # job[w] /\ future[u] = "pending"
      BY <2>8, <2>1
    <3>2. CASE \E i \in 1..Len(tasks) : tasks[i] = u
      BY <3>2, <2>1
    <3>3. CASE \E v \in Workers : worker[v] = "run" /\ job[v] = u
      <4>1. PICK v \in Workers : worker[v] = "run" /\ job[v] = u
        BY <3>3
      <4>2. v # w
        BY <4>1, <3>1
      <4> QED
        BY <4>1, <4>2, <2>4
    <3> QED
      BY <3>1, <3>2, <3>3 DEF Placement
  <2>9. \A u \in Tasks : runs'[u] = IF future'[u] \in {"ready", "taken"} THEN 1 ELSE 0
    BY <2>1, <2>2 DEF Placement
  <2> QED
    BY <2>6, <2>6a, <2>7, <2>7a, <2>8, <2>9 DEF Placement
<1>11. ASSUME NEW w \in Workers, SpuriousWakeup(w)
       PROVE  Placement'
  BY <1>11, PlacementFrame DEF SpuriousWakeup
<1>12. CASE SetStop
  BY <1>12, PlacementFrame DEF SetStop
<1>13. CASE NotifyAll
  BY <1>13, PlacementFrame DEF NotifyAll, WakeAndJoin, Waiting
<1>14. CASE Join
  BY <1>14, PlacementFrame DEF Join
<1>15. CASE UNCHANGED vars
  BY <1>15, PlacementFrame DEF vars
<1> QED
  BY <1>1, <1>2, <1>3, <1>4, <1>5, <1>6, <1>7, <1>8, <1>9, <1>10, <1>11,
     <1>12, <1>13, <1>14, <1>15
     DEF Next, ClientStep, ReturnStep, WorkerStep, Finished

\* The callers' view of Placement.
LEMMA PlacementIsExactlyOnce ==
  ASSUME TypeOK, Lifecycle, Placement
  PROVE  ExactlyOnce
<1>1. DOMAIN tasks = 1..Len(tasks) /\ \A i \in 1..Len(tasks) : tasks[i] \in Tasks
  BY ElementOfSeq, LenProperties DEF TypeOK
<1>2. \A t \in Tasks : t \in Queued <=> \E i \in 1..Len(tasks) : tasks[i] = t
  BY <1>1 DEF Queued, Elements
<1>3. \A t \in Tasks, w \in Workers : w \in Holder(t) <=> worker[w] = "run" /\ job[w] = t
  BY DEF Holder
<1>4. \A t \in Tasks : Holder(t) \subseteq Workers
  BY DEF Holder
<1>5. ASSUME NEW t \in Tasks
      PROVE  /\ runs[t] = IF future[t] \in {"ready", "taken"} THEN 1 ELSE 0
             /\ t \in Queued => Holder(t) = {}
             /\ \A v, w \in Holder(t) : v = w
  BY <1>2, <1>3, <1>4 DEF Placement
<1>6. ASSUME NEW t \in Tasks
      PROVE  future[t] = "pending" <=> (t \in Queued \/ Holder(t) # {})
  <2>1. (t \in Queued \/ Holder(t) # {}) => future[t] = "pending"
    BY <1>2, <1>3, <1>4 DEF Placement
  <2>2. future[t] = "pending" => (t \in Queued \/ Holder(t) # {})
    BY <1>2, <1>3 DEF Placement
  <2> QED
    BY <2>1, <2>2
<1> QED
  BY <1>1, <1>5, <1>6 DEF ExactlyOnce, Placement

-----------------------------------------------------------------------------
\* The invariant of the shutdown is kept by every step.
LEMMA DrainingStep ==
  ASSUME TypeOK, Lifecycle, Draining, [Next]_vars
  PROVE  Draining'
<1> USE PoolAssumption DEF TypeOK, Lifecycle, Draining, WorkerStates, ClientStates
<1>1. CASE GetThreadInstance
  BY <1>1 DEF GetThreadInstance
<1>2. ASSUME NEW t \in Tasks, Enqueue(t)
      PROVE  Draining'
  BY <1>2 DEF Enqueue, Push, MayEnqueue
<1>3. ASSUME NEW t \in Tasks, EnqueueThrows(t)
      PROVE  Draining'
  BY <1>3 DEF EnqueueThrows
<1>4. ASSUME NEW t \in Tasks, CallGet(t)
      PROVE  Draining'
  BY <1>4 DEF CallGet
<1>5. ASSUME NEW c \in Clients, NotifyOne(c)
      PROVE  Draining'
  BY <1>5 DEF NotifyOne, Waiting
<1>6. ASSUME NEW c \in Clients, ReturnGet(c)
      PROVE  Draining'
  BY <1>6 DEF ReturnGet
<1>7. ASSUME NEW w \in Workers, Take(w)
      PROVE  Draining'
  BY <1>7 DEF Take, TakeHead
<1>8. ASSUME NEW w \in Workers, Wait(w)
      PROVE  Draining'
  BY <1>8 DEF Wait
<1>9. ASSUME NEW w \in Workers, Exit(w)
      PROVE  Draining'
  BY <1>9 DEF Exit, Leave
<1>10. ASSUME NEW w \in Workers, Run(w)
       PROVE  Draining'
  BY <1>10 DEF Run
<1>11. ASSUME NEW w \in Workers, SpuriousWakeup(w)
       PROVE  Draining'
  BY <1>11 DEF SpuriousWakeup
<1>12. CASE SetStop
  BY <1>12 DEF SetStop
<1>13. CASE NotifyAll
  BY <1>13 DEF NotifyAll, WakeAndJoin, Waiting
<1>14. CASE Join
  BY <1>14 DEF Join
<1>15. CASE UNCHANGED vars
  BY <1>15 DEF vars
<1> QED
  BY <1>1, <1>2, <1>3, <1>4, <1>5, <1>6, <1>7, <1>8, <1>9, <1>10, <1>11,
     <1>12, <1>13, <1>14, <1>15
     DEF Next, ClientStep, ReturnStep, WorkerStep, Finished

\* The whole inductive invariant.
LEMMA InvHolds == SafeSpec => []Inv
<1>1. Init => Inv
  <2> SUFFICES ASSUME Init PROVE Inv
    OBVIOUS
  <2>1. Placement
    <3>1. Len(tasks) = 0
      BY DEF Init
    <3> QED
      BY <3>1 DEF Init, Placement
  <2>2. Draining
    BY PoolAssumption DEF Init, Draining
  <2> QED
    BY <2>1, <2>2, InitTypes DEF Inv
<1>2. Inv /\ [Next]_vars => Inv'
  BY TypeStep, PlacementStep, DrainingStep DEF Inv
<1> QED
  BY <1>1, <1>2, PTL DEF SafeSpec

\* Every pending future is answered by exactly one queue entry or one worker,
\* and every callable is executed exactly once (ThreadPool.h:48-60, 75-88).
THEOREM TasksRunExactlyOnce == SafeSpec => []ExactlyOnce
<1>1. Inv => ExactlyOnce
  BY PlacementIsExactlyOnce DEF Inv
<1> QED
  BY <1>1, InvHolds, PTL

\* Once every worker has left nothing accepted is left undone.
LEMMA AllExitedNothingPending ==
  ASSUME Inv, \A w \in Workers : worker[w] = "exited"
  PROVE  \A t \in Tasks : future[t] # "pending"
<1>1. PICK w \in Workers : worker[w] = "exited"
  BY PoolAssumption
<1>2. Len(tasks) = 0
  BY <1>1 DEF Inv, Draining
<1>3. \A v \in Workers : worker[v] # "run"
  OBVIOUS
<1> QED
  BY <1>2, <1>3 DEF Inv, Placement

\* A worker leaves a stopped and empty pool only, and when the destructor has
\* returned no accepted task is left undone (ThreadPool.h:54-55, 94-103).
THEOREM DestructorDrains == SafeSpec => []StopDrains
<1>1. Inv => StopDrains
  BY AllExitedNothingPending DEF StopDrains, Waiting, Inv, Draining
<1> QED
  BY <1>1, InvHolds, PTL

-----------------------------------------------------------------------------
\* The sets that NoWastedWakeup counts are finite.
LEMMA CountIsNat ==
  ASSUME NEW S, S \in SUBSET Workers \/ S \in SUBSET Clients
  PROVE  IsFiniteSet(S) /\ Cardinality(S) \in Nat
<1>1. IsFiniteSet(S)
  BY FS_Subset, PoolAssumption
<1> QED
  BY <1>1, FS_CardinalityType

\* Bigger sets count more.
LEMMA CountGrows ==
  ASSUME NEW T \in SUBSET Workers, NEW S \in SUBSET T
  PROVE  Cardinality(S) <= Cardinality(T)
BY CountIsNat, FS_Subset

\* A step in which workers at most wake up, the queue and the callers being
\* left alone, wastes no notification.
LEMMA WakeupFrame ==
  ASSUME TypeOK, NoWastedWakeup, UNCHANGED tasks, Notifying' = Notifying,
         Waiting' \subseteq Waiting, Awake \subseteq Awake'
  PROVE  NoWastedWakeup'
<1>1. Len(tasks) \in Nat
  BY LenProperties DEF TypeOK
<1>2. /\ Cardinality(Awake) \in Nat /\ Cardinality(Awake') \in Nat
      /\ Cardinality(Notifying) \in Nat
  BY CountIsNat DEF Awake, Notifying
<1>3. Cardinality(Awake) <= Cardinality(Awake')
  BY CountGrows DEF Awake
<1> QED
  BY <1>1, <1>2, <1>3 DEF NoWastedWakeup

\* No step leaves a queued task without a worker while another worker sleeps.
LEMMA WakeupStep ==
  ASSUME TypeOK, Lifecycle, NoWastedWakeup, [Next]_vars
  PROVE  NoWastedWakeup'
<1> USE PoolAssumption DEF TypeOK
<1> DEFINE A == Cardinality(Awake)
           N == Cardinality(Notifying)
<1>a. /\ Len(tasks) \in Nat /\ A \in Nat /\ N \in Nat
      /\ A' \in Nat /\ N' \in Nat
      /\ IsFiniteSet(Awake) /\ IsFiniteSet(Notifying)
  BY LenProperties, CountIsNat DEF Awake, Notifying
<1>b. ASSUME Len(tasks') = 0
      PROVE  NoWastedWakeup'
  BY <1>a, <1>b DEF NoWastedWakeup
<1>1. CASE GetThreadInstance
  BY <1>1 DEF GetThreadInstance, NoWastedWakeup, Waiting
<1>2. ASSUME NEW t \in Tasks, Enqueue(t)
      PROVE  NoWastedWakeup'
  <2>1. /\ client[Caller[t]] = "idle"
        /\ client' = [client EXCEPT ![Caller[t]] = "notify"]
        /\ tasks' = Append(tasks, t) /\ UNCHANGED worker
    BY <1>2 DEF Enqueue, Push, MayEnqueue
  <2>2. Notifying' = Notifying \cup {Caller[t]} /\ Caller[t] \notin Notifying
    BY <2>1 DEF Notifying
  <2>3. N' = N + 1
    BY <2>2, <1>a, FS_AddElement
  <2>4. Len(tasks') = Len(tasks) + 1
    BY <2>1, PushOnQueue
  <2>5. Awake' = Awake /\ Waiting' = Waiting
    BY <2>1 DEF Awake, Waiting
  <2> QED
    BY <2>3, <2>4, <2>5, <1>a DEF NoWastedWakeup
<1>3. ASSUME NEW t \in Tasks, EnqueueThrows(t) \/ CallGet(t)
      PROVE  NoWastedWakeup'
  BY <1>3, WakeupFrame DEF EnqueueThrows, CallGet, Notifying, Waiting, Awake
<1>4. ASSUME NEW c \in Clients, NotifyOne(c)
      PROVE  NoWastedWakeup'
  <2>1. CASE Waiting = {}
    BY <1>4, <2>1 DEF NotifyOne, NoWastedWakeup, Waiting
  <2>2. CASE Waiting # {}
    <3>1. PICK w \in Waiting : worker' = [worker EXCEPT ![w] = "lock"]
      BY <1>4, <2>2 DEF NotifyOne
    <3>2. /\ client[c] = "notify" /\ client' = [client EXCEPT ![c] = "idle"]
          /\ UNCHANGED tasks
      BY <1>4 DEF NotifyOne
    <3>3. Awake' = Awake \cup {w} /\ w \notin Awake
      BY <3>1 DEF Awake, Waiting
    <3>4. Notifying' = Notifying \ {c} /\ c \in Notifying
      BY <3>2 DEF Notifying
    <3>5. A' = A + 1 /\ N' = N - 1
      BY <3>3, <3>4, <1>a, FS_AddElement, FS_RemoveElement
    <3> QED
      BY <3>2, <3>5, <2>2, <1>a DEF NoWastedWakeup
  <2> QED
    BY <2>1, <2>2
<1>5. ASSUME NEW c \in Clients, ReturnGet(c)
      PROVE  NoWastedWakeup'
  BY <1>5, WakeupFrame DEF ReturnGet, Notifying, Waiting, Awake
<1>6. ASSUME NEW w \in Workers, Take(w)
      PROVE  NoWastedWakeup'
  <2>1. /\ worker[w] = "lock" /\ worker' = [worker EXCEPT ![w] = "run"]
        /\ tasks # <<>> /\ tasks' = Tail(tasks) /\ UNCHANGED client
    BY <1>6 DEF Take, TakeHead
  <2>2. Awake' = Awake \ {w} /\ w \in Awake
    BY <2>1 DEF Awake
  <2>3. A' = A - 1
    BY <2>2, <1>a, FS_RemoveElement
  <2>4. Len(tasks') = Len(tasks) - 1
    BY <2>1, TailOfQueue
  <2>5. Notifying' = Notifying /\ Waiting' = Waiting
    BY <2>1 DEF Notifying, Waiting
  <2> QED
    BY <2>3, <2>4, <2>5, <1>a DEF NoWastedWakeup
<1>7. ASSUME NEW w \in Workers, Wait(w) \/ Exit(w)
      PROVE  NoWastedWakeup'
  BY <1>7, <1>b DEF Wait, Exit, Leave
<1>8. ASSUME NEW w \in Workers, Run(w) \/ SpuriousWakeup(w)
      PROVE  NoWastedWakeup'
  BY <1>8, WakeupFrame DEF Run, SpuriousWakeup, Notifying, Waiting, Awake
<1>9. CASE SetStop \/ Join
  BY <1>9, WakeupFrame DEF SetStop, Join, Notifying, Waiting, Awake
<1>10. CASE NotifyAll
  BY <1>10 DEF NotifyAll, WakeAndJoin, NoWastedWakeup, Waiting
<1>11. CASE UNCHANGED vars
  BY <1>11, WakeupFrame DEF vars, Notifying, Waiting, Awake
<1> QED
  BY <1>1, <1>2, <1>3, <1>4, <1>5, <1>6, <1>7, <1>8, <1>9, <1>10, <1>11
     DEF Next, ClientStep, ReturnStep, WorkerStep, Finished

\* While a worker sleeps every queued task has a worker of its own that is awake
\* or about to be notified (the notify_one outside the lock, ThreadPool.h:89).
THEOREM WakeupsAreNotWasted == SafeSpec => []NoWastedWakeup
<1>1. Init => NoWastedWakeup
  BY DEF Init, NoWastedWakeup, Waiting
<1>2. Inv /\ NoWastedWakeup /\ [Next]_vars => NoWastedWakeup'
  BY WakeupStep DEF Inv
<1> QED
  BY <1>1, <1>2, InvHolds, PTL DEF SafeSpec

-----------------------------------------------------------------------------
\* The abstract state of a task, one task at a time.
LEMMA StatusOf ==
  ASSUME NEW t \in Tasks
  PROVE  /\ DOMAIN statusBar = Tasks
         /\ future[t] = "none" => statusBar[t] = "new"
         /\ future[t] = "refused" => statusBar[t] = "refused"
         /\ future[t] \in {"ready", "taken"} => statusBar[t] = "finished"
         /\ future[t] = "pending" => statusBar[t] = IF t \in Queued THEN "accepted" ELSE "running"
BY DEF statusBar

\* A step that changes the abstract state of one task only.
LEMMA StatusExcept ==
  ASSUME NEW t \in Tasks, NEW s,
         \A u \in Tasks \ {t} : future'[u] = future[u] /\ (u \in Queued' <=> u \in Queued),
         statusBar'[t] = s
  PROVE  statusBar' = [statusBar EXCEPT ![t] = s]
<1>1. \A u \in Tasks \ {t} : statusBar'[u] = statusBar[u]
  BY DEF statusBar
<1>2. /\ statusBar = [u \in Tasks |-> statusBar[u]]
      /\ statusBar' = [u \in Tasks |-> statusBar'[u]]
  BY DEF statusBar
<1> HIDE DEF statusBar
<1> QED
  BY <1>1, <1>2

\* A step that leaves the queue and the futures alone changes no task.
LEMMA StatusFrame ==
  ASSUME UNCHANGED <<tasks, future>>
  PROVE  statusBar' = statusBar
BY DEF statusBar, Queued, Elements

\* What pushing and popping do to the set of queued tasks.
LEMMA QueuedAfterPush ==
  ASSUME TypeOK, NEW t \in Tasks, tasks' = Append(tasks, t)
  PROVE  Queued' = Queued \cup {t}
<1>1. /\ Len(tasks) \in Nat /\ DOMAIN tasks = 1..Len(tasks)
      /\ DOMAIN tasks' = 1..(Len(tasks) + 1)
      /\ \A i \in 1..Len(tasks) : tasks'[i] = tasks[i]
      /\ tasks'[Len(tasks) + 1] = t
  BY PushOnQueue, LenProperties DEF TypeOK
<1>2. \A i \in DOMAIN tasks' : i \in DOMAIN tasks \/ i = Len(tasks) + 1
  BY <1>1
<1>3. Len(tasks) + 1 \in DOMAIN tasks' /\ DOMAIN tasks \subseteq DOMAIN tasks'
  BY <1>1
<1> QED
  BY <1>1, <1>2, <1>3 DEF Queued, Elements

LEMMA QueuedAfterPop ==
  ASSUME TypeOK, Placement, tasks # <<>>, tasks' = Tail(tasks)
  PROVE  Queued' = Queued \ {tasks[1]} /\ tasks[1] \in Queued
<1>1. /\ Len(tasks') \in Nat /\ Len(tasks) = Len(tasks') + 1
      /\ DOMAIN tasks = 1..Len(tasks) /\ DOMAIN tasks' = 1..Len(tasks')
      /\ \A i \in 1..Len(tasks') : tasks'[i] = tasks[i + 1]
  BY TailOfQueue, LenProperties DEF TypeOK
<1>2. 1 \in 1..Len(tasks)
  BY <1>1
<1>3. ASSUME NEW i \in 1..Len(tasks), i # 1
      PROVE  tasks[i] \in Queued' /\ tasks[i] # tasks[1]
  <2>1. i - 1 \in 1..Len(tasks') /\ (i - 1) + 1 = i
    BY <1>1, <1>3
  <2>2. tasks'[i - 1] = tasks[i]
    BY <1>1, <2>1
  <2>3. tasks'[i - 1] \in Queued'
    BY <1>1, <2>1 DEF Queued, Elements
  <2>4. tasks[i] # tasks[1]
    BY <1>2, <1>3 DEF Placement
  <2> QED
    BY <2>2, <2>3, <2>4
<1>4. ASSUME NEW i \in 1..Len(tasks')
      PROVE  tasks'[i] \in Queued /\ tasks'[i] # tasks[1]
  <2>1. i + 1 \in 1..Len(tasks) /\ i + 1 # 1
    BY <1>1
  <2> QED
    BY <1>1, <1>2, <2>1 DEF Queued, Elements, Placement
<1> QED
  BY <1>1, <1>2, <1>3, <1>4 DEF Queued, Elements

\* Every step of the pool is a step of the task service or leaves it unchanged.
LEMMA ServiceStep ==
  ASSUME Inv, Inv', [Next]_vars
  PROVE  [Service!Next]_(Service!vars)
<1> USE PoolAssumption
<1> SUFFICES Service!Next \/ UNCHANGED <<serviceBar, statusBar>>
  BY DEF Service!vars
<1>1. CASE GetThreadInstance
  <2>1. Service!Open
    <3>1. serviceBar = "none" /\ serviceBar' = "open"
      BY <1>1 DEF GetThreadInstance, serviceBar, Inv, Lifecycle
    <3> QED
      BY <3>1, <1>1, StatusFrame DEF GetThreadInstance, Service!Open
  <2> QED
    BY <2>1 DEF Service!Next
<1>2. ASSUME NEW t \in Tasks, Enqueue(t)
      PROVE  Service!Next
  <2>1. /\ serviceBar = "open" /\ serviceBar' = serviceBar
        /\ future[t] = "none" /\ future' = [future EXCEPT ![t] = "pending"]
        /\ tasks' = Append(tasks, t)
    BY <1>2 DEF Enqueue, MayEnqueue, Push, serviceBar
  <2>2. Queued' = Queued \cup {t}
    BY <2>1, QueuedAfterPush DEF Inv
  <2>3. future'[t] = "pending"
    BY <2>1 DEF Inv, TypeOK
  <2>4. statusBar'[t] = "accepted"
    BY <2>2, <2>3 DEF statusBar
  <2>5. statusBar' = [statusBar EXCEPT ![t] = "accepted"]
    BY <2>1, <2>2, <2>4, StatusExcept DEF Inv, TypeOK
  <2>6. statusBar[t] = "new"
    BY <2>1, StatusOf
  <2> QED
    BY <2>1, <2>5, <2>6 DEF Service!Next, Service!Accept, Service!Become
<1>3. ASSUME NEW t \in Tasks, EnqueueThrows(t)
      PROVE  Service!Next
  <2>1. /\ serviceBar = "closing" /\ serviceBar' = serviceBar
        /\ future[t] = "none" /\ future' = [future EXCEPT ![t] = "refused"]
        /\ tasks' = tasks
    BY <1>3 DEF EnqueueThrows, MayEnqueue, serviceBar
  <2>2. Queued' = Queued
    BY <2>1 DEF Queued
  <2>3. future'[t] = "refused"
    BY <2>1 DEF Inv, TypeOK
  <2>4. statusBar'[t] = "refused"
    BY <2>3 DEF statusBar
  <2>5. statusBar' = [statusBar EXCEPT ![t] = "refused"]
    BY <2>1, <2>2, <2>4, StatusExcept DEF Inv, TypeOK
  <2>6. statusBar[t] = "new"
    BY <2>1, StatusOf
  <2> QED
    BY <2>1, <2>5, <2>6 DEF Service!Next, Service!Refuse, Service!Become
<1>4. ASSUME NEW t \in Tasks, CallGet(t)
      PROVE  UNCHANGED <<serviceBar, statusBar>>
  BY <1>4, StatusFrame DEF CallGet, serviceBar
<1>5. ASSUME NEW c \in Clients, NotifyOne(c)
      PROVE  UNCHANGED <<serviceBar, statusBar>>
  BY <1>5, StatusFrame DEF NotifyOne, serviceBar
<1>6. ASSUME NEW c \in Clients, ReturnGet(c)
      PROVE  UNCHANGED <<serviceBar, statusBar>>
  <2>1. /\ arg[c] \in Tasks /\ future[arg[c]] = "ready"
        /\ future' = [future EXCEPT ![arg[c]] = "taken"]
        /\ UNCHANGED <<tasks, pool, stop>>
    BY <1>6 DEF ReturnGet, Inv, Lifecycle
  <2>2. Queued' = Queued
    BY <2>1 DEF Queued
  <2>3. \A u \in Tasks : \/ future'[u] = future[u]
                         \/ future[u] = "ready" /\ future'[u] = "taken"
    BY <2>1 DEF Inv, TypeOK
  <2>4. statusBar' = statusBar
    BY <2>2, <2>3 DEF statusBar
  <2> QED
    BY <2>1, <2>4 DEF serviceBar
<1>7. ASSUME NEW w \in Workers, Take(w)
      PROVE  Service!Next
  <2> DEFINE h == tasks[1]
  <2>1. /\ tasks # <<>> /\ tasks' = Tail(tasks)
        /\ UNCHANGED <<future, pool, stop>>
    BY <1>7 DEF Take, TakeHead
  <2>2. Queued' = Queued \ {h} /\ h \in Queued
    BY <2>1, QueuedAfterPop DEF Inv
  <2>3. 1 \in 1..Len(tasks) /\ h \in Tasks
    BY <2>1, TailOfQueue DEF Inv, TypeOK
  <2>4. future[h] = "pending"
    BY <2>3 DEF Inv, Placement
  <2>5. statusBar[h] = "accepted" /\ statusBar'[h] = "running"
    BY <2>1, <2>2, <2>3, <2>4 DEF statusBar
  <2>6. statusBar' = [statusBar EXCEPT ![h] = "running"]
    BY <2>1, <2>2, <2>3, <2>5, StatusExcept
  <2>7. serviceBar' = serviceBar
    BY <2>1 DEF serviceBar
  <2> QED
    BY <2>3, <2>5, <2>6, <2>7 DEF Service!Next, Service!Start, Service!Become
<1>8. ASSUME NEW w \in Workers, Wait(w) \/ Exit(w) \/ SpuriousWakeup(w)
      PROVE  UNCHANGED <<serviceBar, statusBar>>
  BY <1>8, StatusFrame DEF Wait, Exit, Leave, SpuriousWakeup, serviceBar
<1>9. ASSUME NEW w \in Workers, Run(w)
      PROVE  Service!Next
  <2> DEFINE t == job[w]
  <2>1. /\ t \in Tasks /\ worker[w] = "run"
        /\ future' = [future EXCEPT ![t] = "ready"]
        /\ UNCHANGED <<tasks, pool, stop>>
    BY <1>9 DEF Run, Inv, Lifecycle
  <2>2. future[t] = "pending" /\ \A i \in 1..Len(tasks) : tasks[i] # t
    BY <2>1 DEF Inv, Placement
  <2>3. DOMAIN tasks = 1..Len(tasks)
    BY LenProperties DEF Inv, TypeOK
  <2>4. t \notin Queued
    BY <2>2, <2>3 DEF Queued, Elements
  <2>5. Queued' = Queued
    BY <2>1 DEF Queued
  <2>6. future'[t] = "ready"
    BY <2>1 DEF Inv, TypeOK
  <2>7. statusBar[t] = "running" /\ statusBar'[t] = "finished"
    BY <2>1, <2>2, <2>4, <2>6 DEF statusBar
  <2>8. statusBar' = [statusBar EXCEPT ![t] = "finished"]
    BY <2>1, <2>5, <2>7, StatusExcept DEF Inv, TypeOK
  <2>9. serviceBar' = serviceBar
    BY <2>1 DEF serviceBar
  <2> QED
    BY <2>1, <2>7, <2>8, <2>9 DEF Service!Next, Service!Finish, Service!Become
<1>10. CASE SetStop
  <2>1. serviceBar = "open" /\ serviceBar' = "closing"
    BY <1>10 DEF SetStop, serviceBar, Inv, Lifecycle
  <2>2. statusBar' = statusBar
    BY <1>10, StatusFrame DEF SetStop
  <2> QED
    BY <2>1, <2>2 DEF Service!Next, Service!Close
<1>11. CASE NotifyAll
  BY <1>11, StatusFrame DEF NotifyAll, WakeAndJoin, serviceBar
<1>12. CASE Join
  <2>1. serviceBar = "closing" /\ serviceBar' = "closed"
    BY <1>12 DEF Join, serviceBar, Inv, Lifecycle
  <2>2. statusBar' = statusBar
    BY <1>12, StatusFrame DEF Join
  <2>3. \A t \in Tasks : future[t] # "pending"
    BY <1>12, AllExitedNothingPending DEF Join
  <2>4. \A t \in Tasks : statusBar[t] \notin {"accepted", "running"}
    <3>1. \A t \in Tasks : future[t] # "pending" /\ future[t] \in FutureStates
      BY <2>3 DEF Inv, TypeOK
    <3> QED
      BY <3>1, StatusOf DEF FutureStates
  <2> QED
    BY <2>1, <2>2, <2>4 DEF Service!Next, Service!Closed
<1>13. CASE UNCHANGED vars
  BY <1>13, StatusFrame DEF vars, serviceBar
<1> QED
  BY <1>1, <1>2, <1>3, <1>4, <1>5, <1>6, <1>7, <1>8, <1>9, <1>10, <1>11, <1>12, <1>13
     DEF Next, ClientStep, ReturnStep, WorkerStep, Finished

\* The pool implements the task service: its initial state is one of the
\* service and each of its steps is a step of the service or a stutter.
THEOREM PoolImplementsService == SafeSpec => Service!Init /\ [][Service!Next]_(Service!vars)
<1>1. Init => Service!Init
  BY DEF Init, Service!Init, serviceBar, statusBar
<1>2. Inv /\ Inv' /\ [Next]_vars => [Service!Next]_(Service!vars)
  BY ServiceStep
<1> QED
  BY <1>1, <1>2, InvHolds, PTL DEF SafeSpec
=============================================================================
