----------------------------- MODULE ThreadPool -----------------------------
(***************************************************************************)
(* The thread pool of libmpeg2 (libmpeg2/libmpeg2/thread_win.c).           *)
(*                                                                         *)
(* Every access to the queue, to busy_count and to the two manual-reset    *)
(* events by a pool operation happens inside queue_lock, so one action     *)
(* stands for one critical section; the waits on the events lie between    *)
(* critical sections and are states of their own, because anything may     *)
(* happen between leaving the lock and being woken.                        *)
(*                                                                         *)
(* The worker side is a set of actions.  The client side (enqueue, abort,  *)
(* wait, wait_any, close) is given as the state change of each critical    *)
(* section; the module of the client thread puts them in its own order.    *)
(*                                                                         *)
(* A task is its `param' (the functions are the same for every task of     *)
(* this program).  The task nodes are counted: free_tasks is the length of *)
(* the list of nodes kept for reuse.                                       *)
(***************************************************************************)
EXTENDS Integers, Sequences, FiniteSets

CONSTANTS
  Workers,   \* the threads of the pool
  Params,    \* what a task can be given as param
  None       \* no task

ASSUME PoolAssumption ==
  /\ Workers # {}
  /\ IsFiniteSet(Workers)
  /\ None \notin Params

VARIABLES
  queue,          \* queue_head .. queue_tail
  free_tasks,     \* number of task nodes on the list of free nodes
  busy_count,
  stop,
  queue_event,    \* manual-reset event: a task was queued, or stop
  finished_event, \* manual-reset event: a task has ended
  worker,         \* where each worker is in worker_thread
  task            \* the task each worker has taken

poolVars == <<queue, free_tasks, busy_count, stop, queue_event, finished_event,
              worker, task>>

(***************************************************************************)
(* Positions of a worker: "test" is the entry of the lock and the test of  *)
(* the inner loop, "sleep" the wait on queue_event, "run" and "free" the   *)
(* two steps of the task function, "finish" the entry of the lock after    *)
(* it, "exit" the end of the thread (or no thread).                        *)
(***************************************************************************)
WorkerStates == {"test", "sleep", "run", "free", "finish", "exit"}

\* The workers that busy_count counts.
Busy == {w \in Workers : worker[w] \in {"run", "free", "finish"}}

FlagsOK == stop \in BOOLEAN /\ queue_event \in BOOLEAN /\ finished_event \in BOOLEAN

PoolTypeOK ==
  /\ queue \in Seq(Params)
  /\ free_tasks \in Nat
  /\ busy_count \in Int
  /\ FlagsOK
  /\ worker \in [Workers -> WorkerStates]
  /\ task \in [Workers -> Params \cup {None}]

\* mpeg2_thread_pool_create, on the variables: an empty pool, every thread
\* about to enter its loop.
PoolCreate ==
  /\ queue' = <<>>
  /\ free_tasks' = 0
  /\ busy_count' = 0
  /\ stop' = FALSE
  /\ queue_event' = FALSE
  /\ finished_event' = FALSE
  /\ worker' = [w \in Workers |-> "test"]
  /\ task' = [w \in Workers |-> None]

\* No pool: before the first create and after close.
PoolAbsent ==
  /\ queue = <<>>
  /\ free_tasks = 0
  /\ busy_count = 0
  /\ stop = FALSE
  /\ queue_event = FALSE
  /\ finished_event = FALSE
  /\ worker = [w \in Workers |-> "exit"]
  /\ task = [w \in Workers |-> None]

-----------------------------------------------------------------------------
(* worker_thread *)

\* The inner loop leaves because of stop: the thread ends.
WorkerExit(w) ==
  /\ worker[w] = "test"
  /\ stop
  /\ worker' = [worker EXCEPT ![w] = "exit"]
  /\ UNCHANGED <<queue, free_tasks, busy_count, stop, queue_event, finished_event, task>>

\* Nothing to do: leave the lock and wait for queue_event.
WorkerSleep(w) ==
  /\ worker[w] = "test"
  /\ ~stop
  /\ queue = <<>>
  /\ worker' = [worker EXCEPT ![w] = "sleep"]
  /\ UNCHANGED <<queue, free_tasks, busy_count, stop, queue_event, finished_event, task>>

\* Fault: an auto-reset event, which one sleeper takes from the others.
WorkerWakeAutoReset(w) ==
  /\ worker[w] = "sleep"
  /\ queue_event
  /\ queue_event' = FALSE
  /\ worker' = [worker EXCEPT ![w] = "test"]
  /\ UNCHANGED <<queue, free_tasks, busy_count, stop, finished_event, task>>

\* The wait ends; the loop tests again.
WorkerWake(w) ==
  /\ worker[w] = "sleep"
  /\ queue_event
  /\ worker' = [worker EXCEPT ![w] = "test"]
  /\ UNCHANGED <<queue, free_tasks, busy_count, stop, queue_event, finished_event, task>>

\* Take the head of the queue.  The event is reset even when tasks remain:
\* the workers still asleep are not woken for those.
WorkerTake(w) ==
  /\ worker[w] = "test"
  /\ ~stop
  /\ queue # <<>>
  /\ task' = [task EXCEPT ![w] = Head(queue)]
  /\ queue' = Tail(queue)
  /\ busy_count' = busy_count + 1
  /\ queue_event' = FALSE
  /\ worker' = [worker EXCEPT ![w] = "run"]
  /\ UNCHANGED <<free_tasks, stop, finished_event>>

\* After the task function: give the node back, announce the end.
WorkerFinish(w) ==
  /\ worker[w] = "finish"
  /\ task' = [task EXCEPT ![w] = None]
  /\ free_tasks' = free_tasks + 1
  /\ busy_count' = busy_count - 1
  /\ finished_event' = TRUE
  /\ worker' = [worker EXCEPT ![w] = "test"]
  /\ UNCHANGED <<queue, stop, queue_event>>

WorkerLoop(w) ==
  WorkerExit(w) \/ WorkerSleep(w) \/ WorkerWake(w) \/ WorkerTake(w) \/ WorkerFinish(w)

-----------------------------------------------------------------------------
(* The critical sections of the client operations *)

\* Fault: the event is not set.
EnqueueSilently(p) ==
  /\ free_tasks' = IF free_tasks > 0 THEN free_tasks - 1 ELSE 0
  /\ queue' = Append(queue, p)
  /\ UNCHANGED <<busy_count, stop, queue_event, finished_event, worker, task>>

\* Fault: the list of free nodes is taken from without a test.
EnqueueFromEmptyList(p) ==
  /\ free_tasks' = free_tasks - 1
  /\ queue' = Append(queue, p)
  /\ queue_event' = TRUE
  /\ UNCHANGED <<busy_count, stop, finished_event, worker, task>>

\* Fault: a node is always allocated.
EnqueueNewNode(p) ==
  /\ queue' = Append(queue, p)
  /\ queue_event' = TRUE
  /\ UNCHANGED <<free_tasks, busy_count, stop, finished_event, worker, task>>

\* mpeg2_thread_pool_enqueue: reuse a node or allocate one, append, signal.
Enqueue(p) ==
  /\ free_tasks' = IF free_tasks > 0 THEN free_tasks - 1 ELSE 0
  /\ queue' = Append(queue, p)
  /\ queue_event' = TRUE
  /\ UNCHANGED <<busy_count, stop, finished_event, worker, task>>

\* mpeg2_thread_pool_abort up to the wait: every queued node becomes free.
\* (abort_func is called on each param; the client says what it does.)
Abort ==
  /\ free_tasks' = free_tasks + Len(queue)
  /\ queue' = <<>>
  /\ UNCHANGED <<busy_count, stop, queue_event, finished_event, worker, task>>

\* Fault: half of the condition.
QueueNotEmpty == queue # <<>>

\* The loop condition of mpeg2_thread_pool_wait.
Unfinished == queue # <<>> \/ busy_count # 0

\* The body of the loops of wait and of wait_any before the lock is left.
ArmFinished ==
  /\ finished_event' = FALSE
  /\ UNCHANGED <<queue, free_tasks, busy_count, stop, queue_event, worker, task>>

\* mpeg2_thread_pool_close after the abort: stop is set without the lock ...
SetStop ==
  /\ stop' = TRUE
  /\ UNCHANGED <<queue, free_tasks, busy_count, queue_event, finished_event, worker, task>>

\* ... then queue_event releases the sleepers.
SignalStop ==
  /\ queue_event' = TRUE
  /\ UNCHANGED <<queue, free_tasks, busy_count, stop, finished_event, worker, task>>

\* Every thread handle is signalled: the join loop of close ends.
AllExited == \A w \in Workers : worker[w] = "exit"

\* The rest of close: the threads, the nodes and the pool are freed.
PoolFree ==
  /\ queue' = <<>>
  /\ free_tasks' = 0
  /\ busy_count' = 0
  /\ stop' = FALSE
  /\ queue_event' = FALSE
  /\ finished_event' = FALSE
  /\ UNCHANGED <<worker, task>>
=============================================================================
