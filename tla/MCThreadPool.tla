---------------------------- MODULE MCThreadPool ----------------------------
(* A small instance of ThreadPool: as many workers as tasks, so that workers *)
(* sleep, and two callers, so that enqueue races with the destructor.        *)
EXTENDS ThreadPool, TLC

CONSTANTS main, other, w1, w2, w3, t1, t2, t3

MCCaller == t1 :> main @@ t2 :> main @@ t3 :> other
=============================================================================
