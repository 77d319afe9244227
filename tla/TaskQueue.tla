----------------------------- MODULE TaskQueue -----------------------------
(***************************************************************************)
(* The in-memory task queue (distributed-task-queue/worker.py): a FIFO     *)
(* queue, worker threads, retries with backoff, a dead-letter list, and    *)
(* start and stop with poison pills.  start and stop are called by one     *)
(* thread; tasks are enqueued by threads of their own.                     *)
(*                                                                         *)
(* What a task computes is abstracted: it returns, raises an Exception, or *)
(* raises something else (SystemExit), which ends its worker thread.       *)
(***************************************************************************)
EXTENDS Integers, Sequences, FiniteSets

CONSTANTS Tasks,
          WorkerCount,      \* worker threads per start
          MaxRetries,       \* max_retries of every task
          MaxStarts,        \* bound: calls of start
          MayStop,          \* stop may be called
          MayExit           \* a task may raise a BaseException

ASSUME QueueAssumption ==
    /\ WorkerCount \in Nat \ {0} /\ MaxRetries \in Nat /\ MaxStarts \in Nat
    /\ MayStop \in BOOLEAN /\ MayExit \in BOOLEAN

Threads == 1..(MaxStarts * WorkerCount)

Pill   == "pill"
NoTask == "no task"

ASSUME PlaceholderAssumption == Pill \notin Tasks /\ NoTask \notin Tasks

VARIABLES
    running,        \* _running
    queue,          \* _queue
    workers,        \* _workers, as a set
    deadLetter,     \* _dead_letter
    state,          \* task.state; "NEW" before the task exists
    attempts,       \* task.attempts
    producer,       \* where enqueue is for each task
    thread,         \* where each worker thread is
    holds,          \* the task a worker thread executes
    lost,           \* history: tasks whose worker thread died of them
    admin, toDo     \* where start or stop is, and how many workers it has left

taskVars  == <<state, attempts, deadLetter>>
adminVars == <<running, workers, admin, toDo>>
vars == <<adminVars, queue, taskVars, producer, thread, holds, lost>>

Init ==
    /\ running = FALSE /\ workers = {} /\ admin = "idle" /\ toDo = 0
    /\ queue = <<>> /\ deadLetter = <<>>
    /\ state = [t \in Tasks |-> "NEW"]
    /\ attempts = [t \in Tasks |-> 0]
    /\ producer = [t \in Tasks |-> "none"]
    /\ thread = [w \in Threads |-> "unborn"]
    /\ holds = [w \in Threads |-> NoTask]
    /\ lost = {}

InSeq(x, s) == \E i \in DOMAIN s : s[i] = x
Unborn == {w \in Threads : thread[w] = "unborn"}
LiveThreads == {w \in Threads : thread[w] \notin {"unborn", "dead"}}

-----------------------------------------------------------------------------
(* start and stop.  Neither looks at what was called before.               *)

Start ==
    /\ admin = "idle"
    /\ Cardinality(Unborn) >= WorkerCount      \* bound MaxStarts
    /\ running' = TRUE /\ admin' = "starting" /\ toDo' = WorkerCount
    /\ UNCHANGED <<workers, queue, taskVars, producer, lost, thread, holds>>

\* One iteration of the loop of start.
Spawn(w) ==
    /\ admin = "starting" /\ w \in Unborn
    /\ thread' = [thread EXCEPT ![w] = "top"]
    /\ workers' = workers \cup {w}
    /\ toDo' = toDo - 1
    /\ admin' = IF toDo = 1 THEN "idle" ELSE "starting"
    /\ UNCHANGED <<running, queue, taskVars, producer, lost, holds>>

Stop ==
    /\ MayStop
    /\ admin = "idle"
    /\ running' = FALSE /\ admin' = "pilling" /\ toDo' = Cardinality(workers)
    /\ UNCHANGED <<workers, queue, taskVars, producer, lost, thread, holds>>

PillsLeft == toDo > 0

PutPill ==
    /\ admin = "pilling" /\ PillsLeft
    /\ queue' = Append(queue, Pill)
    /\ toDo' = toDo - 1
    /\ UNCHANGED <<running, workers, admin, taskVars, producer, lost, thread, holds>>

\* Each join waits for the end of its thread, for at most 5 s: a thread at the
\* head of its loop or inside get ends within 1 s, a busy one may outlive it.
JoinWorkers ==
    /\ admin = "pilling" /\ toDo = 0
    /\ \A w \in workers : thread[w] \in {"dead", "exec", "backoff", "burying"}
    /\ workers' = {}
    /\ admin' = "idle"
    /\ UNCHANGED <<running, toDo, queue, taskVars, producer, lost, thread, holds>>

-----------------------------------------------------------------------------
(* enqueue.                                                                *)

Register(t) ==
    /\ producer[t] = "none"
    /\ producer' = [producer EXCEPT ![t] = "registered"]
    /\ state' = [state EXCEPT ![t] = "PENDING"]
    /\ UNCHANGED <<adminVars, queue, attempts, deadLetter, thread, holds, lost>>

Put(t) ==
    /\ producer[t] = "registered"
    /\ producer' = [producer EXCEPT ![t] = "done"]
    /\ queue' = Append(queue, t)
    /\ UNCHANGED <<adminVars, taskVars, thread, holds, lost>>

-----------------------------------------------------------------------------
(* A worker thread.                                                        *)

Goto(w, pc) == thread' = [thread EXCEPT ![w] = pc]

CheckRunning(w) ==
    /\ thread[w] = "top"
    /\ Goto(w, IF running THEN "get" ELSE "dead")
    /\ UNCHANGED <<adminVars, queue, taskVars, producer, lost, holds>>

\* get(timeout=1) finds nothing.
GetNothing(w) ==
    /\ thread[w] = "get" /\ queue = <<>>
    /\ Goto(w, "top")
    /\ UNCHANGED <<adminVars, queue, taskVars, producer, lost, holds>>

GetPill(w) ==
    /\ thread[w] = "get" /\ queue # <<>> /\ Head(queue) = Pill
    /\ queue' = Tail(queue)
    /\ Goto(w, "dead")
    /\ UNCHANGED <<adminVars, taskVars, producer, lost, holds>>

\* What get leaves in the queue.
AfterGetPeek(q) == q
AfterGet(q) == Tail(q)

\* A task is taken and _execute begins: only this worker writes the task.
GetTask(w) ==
    /\ thread[w] = "get" /\ queue # <<>> /\ Head(queue) # Pill
    /\ queue' = AfterGet(queue)
    /\ holds' = [holds EXCEPT ![w] = Head(queue)]
    /\ state' = [state EXCEPT ![Head(queue)] = "RUNNING"]
    /\ attempts' = [attempts EXCEPT ![Head(queue)] = @ + 1]
    /\ Goto(w, "exec")
    /\ UNCHANGED <<adminVars, deadLetter, producer, lost>>

Release(w, pc) == Goto(w, pc) /\ holds' = [holds EXCEPT ![w] = NoTask]

Succeed(w) ==
    /\ thread[w] = "exec"
    /\ state' = [state EXCEPT ![holds[w]] = "SUCCESS"]
    /\ Release(w, "top")
    /\ UNCHANGED <<adminVars, queue, attempts, deadLetter, producer, lost>>

AttemptsLeftOffByOne(t) == attempts[t] <= MaxRetries
AttemptsLeft(t) == attempts[t] < MaxRetries

\* The task raised and sleeps out its backoff.
FailRetry(w) ==
    /\ thread[w] = "exec" /\ AttemptsLeft(holds[w])
    /\ Goto(w, "backoff")
    /\ UNCHANGED <<adminVars, queue, taskVars, producer, lost, holds>>

\* The state after a failed attempt that is retried.
RequeueStateRunning(t) == state
RequeueState(t) == [state EXCEPT ![t] = "PENDING"]

PutBackForgotten(q, t) == q
PutBack(q, t) == Append(q, t)

Requeue(w) ==
    /\ thread[w] = "backoff"
    /\ state' = RequeueState(holds[w])
    /\ queue' = PutBack(queue, holds[w])
    /\ Release(w, "top")
    /\ UNCHANGED <<adminVars, attempts, deadLetter, producer, lost>>

FailDead(w) ==
    /\ thread[w] = "exec" /\ ~AttemptsLeft(holds[w])
    /\ state' = [state EXCEPT ![holds[w]] = "DEAD"]
    /\ Goto(w, "burying")
    /\ UNCHANGED <<adminVars, queue, attempts, deadLetter, producer, lost, holds>>

\* The dead letter is listed under the lock, after the state is visible.
ListDead(w) ==
    /\ thread[w] = "burying"
    /\ deadLetter' = Append(deadLetter, holds[w])
    /\ Release(w, "top")
    /\ UNCHANGED <<adminVars, queue, state, attempts, producer, lost>>

\* A BaseException leaves _execute and _worker_loop: the thread ends, and its task
\* stays RUNNING with nobody to put it back.
Exit(w) ==
    /\ MayExit
    /\ thread[w] = "exec"
    /\ Release(w, "dead")
    /\ lost' = lost \cup {holds[w]}
    /\ UNCHANGED <<adminVars, queue, taskVars, producer>>

Finish(w) == \/ Succeed(w) \/ FailRetry(w) \/ FailDead(w)

WorkerStep(w) == \/ CheckRunning(w) \/ GetNothing(w) \/ GetPill(w)
                 \/ GetTask(w) \/ Finish(w) \/ Requeue(w) \/ ListDead(w)

Next == \/ Start \/ Stop \/ PutPill \/ JoinWorkers
        \/ \E t \in Tasks : Register(t) \/ Put(t)
        \/ \E w \in Threads : Spawn(w) \/ WorkerStep(w) \/ Exit(w)

Spec == Init /\ [][Next]_vars

\* Threads are scheduled, task functions return or raise, start and enqueue
\* finish.  That start is called at all is the caller's choice.
Fairness == /\ \A w \in Threads : WF_vars(WorkerStep(w)) /\ WF_vars(Spawn(w))
            /\ \A t \in Tasks : WF_vars(Put(t))

FairSpec == Spec /\ Fairness

-----------------------------------------------------------------------------
(* Properties.                                                             *)

\* The types of all variables.
TypeOK ==
    /\ running \in BOOLEAN
    /\ workers \subseteq Threads
    /\ admin \in {"idle", "starting", "pilling"} /\ toDo \in Nat
    /\ queue \in Seq(Tasks \cup {Pill})
    /\ deadLetter \in Seq(Tasks)
    /\ state \in [Tasks -> {"NEW", "PENDING", "RUNNING", "SUCCESS", "DEAD"}]
    /\ attempts \in [Tasks -> Nat]
    /\ producer \in [Tasks -> {"none", "registered", "done"}]
    /\ thread \in [Threads -> {"unborn", "top", "get", "exec", "backoff",
                               "burying", "dead"}]
    /\ holds \in [Threads -> Tasks \cup {NoTask}]
    /\ lost \subseteq Tasks

\* One that was put is in the queue once, or with exactly one living worker, or
\* finished, or lost with a thread that died of it (worker.py 103 catches
\* Exception only; nothing finds such a task again, and it reports RUNNING for
\* ever).  A stop, a restart or leftover pills lose and duplicate nothing.
InOnePlace ==
    \A t \in Tasks :
        LET places == {i \in DOMAIN queue : queue[i] = t}
            owners == {w \in LiveThreads : holds[w] = t}
            done == state[t] = "SUCCESS" \/ InSeq(t, deadLetter)
        IN producer[t] = "done" =>
              /\ Cardinality(places) + Cardinality(owners)
                  + (IF done THEN 1 ELSE 0) + (IF t \in lost THEN 1 ELSE 0) = 1
              /\ t \in lost => state[t] = "RUNNING"

\* A task in the queue waits to be run; a task that is run, or that sleeps out
\* its backoff, is reported as RUNNING by its one owner.
StateTruth ==
    /\ \A i \in DOMAIN queue : queue[i] # Pill => state[queue[i]] = "PENDING"
    /\ \A w \in Threads : thread[w] \in {"exec", "backoff"} =>
           state[holds[w]] = "RUNNING"

\* A task runs at most MaxRetries times, and once when MaxRetries is 0; only
\* one that used them all dies, and it is listed once.
RetriesBounded ==
    /\ \A t \in Tasks : attempts[t] <= (IF MaxRetries = 0 THEN 1 ELSE MaxRetries)
    /\ \A i, j \in DOMAIN deadLetter :
          /\ attempts[deadLetter[i]] >= MaxRetries
          /\ state[deadLetter[i]] = "DEAD"
          /\ deadLetter[i] = deadLetter[j] => i = j

\* While it runs without stop every task that is put finishes, provided the
\* workers survive their tasks.
EveryTaskFinishes ==
    \A t \in Tasks :
        (running /\ producer[t] = "done") ~> state[t] \in {"SUCCESS", "DEAD"}

\* Each task lives as TaskLifecycle says, whatever threads and pills do.
Lifecycle == INSTANCE TaskLifecycle WITH
                 deadLetters <- {t \in Tasks : InSeq(t, deadLetter)}

ImplementsLifecycle == Lifecycle!Spec

=============================================================================
