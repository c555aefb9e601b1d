----------------------------- MODULE TaskService -----------------------------
(***************************************************************************)
(* What the thread pool promises its callers, without threads, queue or    *)
(* condition variable: every task that is accepted is started once and     *)
(* finishes once, a task offered while the service shuts down is refused,  *)
(* and the service is closed only when nothing accepted is left undone.    *)
(* ThreadPool.tla implements this specification.                           *)
(***************************************************************************)
CONSTANT Tasks      \* the callables ever offered to the service

VARIABLES service,  \* "none", "open", "closing" or "closed"
          status    \* the life of each task

vars == <<service, status>>

Statuses == {"new", "accepted", "running", "finished", "refused"}

TypeOK ==
  /\ service \in {"none", "open", "closing", "closed"}
  /\ status \in [Tasks -> Statuses]

Init ==
  /\ service = "none"
  /\ status = [t \in Tasks |-> "new"]

Become(t, from, to) ==
  /\ status[t] = from
  /\ status' = [status EXCEPT ![t] = to]

Open == service = "none" /\ service' = "open" /\ UNCHANGED status

\* enqueue() returns a future
Accept(t) == service = "open" /\ Become(t, "new", "accepted") /\ UNCHANGED service

\* enqueue() throws
Refuse(t) == service = "closing" /\ Become(t, "new", "refused") /\ UNCHANGED service

Start(t) == Become(t, "accepted", "running") /\ UNCHANGED service

Finish(t) == Become(t, "running", "finished") /\ UNCHANGED service

Close == service = "open" /\ service' = "closing" /\ UNCHANGED status

\* ~ThreadPool() returns
Closed ==
  /\ service = "closing"
  /\ \A t \in Tasks : status[t] \notin {"accepted", "running"}
  /\ service' = "closed"
  /\ UNCHANGED status

Next ==
  \/ Open \/ Close \/ Closed
  \/ \E t \in Tasks : Accept(t) \/ Refuse(t) \/ Start(t) \/ Finish(t)

Fairness == \A t \in Tasks : WF_vars(Start(t)) /\ WF_vars(Finish(t))

Spec == Init /\ [][Next]_vars /\ Fairness
=============================================================================
