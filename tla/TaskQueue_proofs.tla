-------------------------- MODULE TaskQueue_proofs --------------------------
(***************************************************************************)
(* No task is lost, run by two workers or misreported, for any number of   *)
(* tasks, workers, retries and starts.                                     *)
(***************************************************************************)
EXTENDS TaskQueue, FiniteSetTheorems, TLAPS

-----------------------------------------------------------------------------
(* Sequences in which every task occurs at most once.                      *)

Once(q) == \A i, j \in DOMAIN q : q[i] = q[j] /\ q[i] # Pill => i = j

\* A put at the end adds its element and nothing else.
LEMMA PutIn ==
    ASSUME NEW S, NEW q \in Seq(S), NEW e \in S
    PROVE  /\ Append(q, e) \in Seq(S)
           /\ InSeq(e, Append(q, e))
           /\ \A x : x # e => (InSeq(x, Append(q, e)) <=> InSeq(x, q))
<1>1. /\ Append(q, e) \in Seq(S)
      /\ DOMAIN Append(q, e) = 1..(Len(q) + 1)
      /\ Append(q, e)[Len(q) + 1] = e
      /\ \A i \in 1..Len(q) : Append(q, e)[i] = q[i]
      /\ Len(q) \in Nat /\ DOMAIN q = 1..Len(q)
  OBVIOUS
<1>2. InSeq(e, Append(q, e)) BY <1>1 DEF InSeq
<1>3. ASSUME NEW x, x # e, InSeq(x, Append(q, e)) PROVE InSeq(x, q)
  BY <1>1, <1>3 DEF InSeq
<1>4. ASSUME NEW x, InSeq(x, q) PROVE InSeq(x, Append(q, e))
  BY <1>1, <1>4 DEF InSeq
<1> QED BY <1>1, <1>2, <1>3, <1>4

\* Putting a pill, or a task that is not there, repeats no task.
LEMMA PutOnce ==
    ASSUME NEW S, NEW q \in Seq(S), NEW e \in S, Once(q),
           e = Pill \/ ~InSeq(e, q)
    PROVE  Once(Append(q, e))
<1>1. /\ DOMAIN Append(q, e) = 1..(Len(q) + 1)
      /\ Append(q, e)[Len(q) + 1] = e
      /\ \A i \in 1..Len(q) : Append(q, e)[i] = q[i]
      /\ Len(q) \in Nat /\ DOMAIN q = 1..Len(q)
  OBVIOUS
<1> SUFFICES ASSUME NEW i \in 1..(Len(q) + 1), NEW j \in 1..(Len(q) + 1),
                    Append(q, e)[i] = Append(q, e)[j], Append(q, e)[i] # Pill
             PROVE  i = j
  BY <1>1 DEF Once
<1>2. CASE i \in 1..Len(q) /\ j \in 1..Len(q) BY <1>1, <1>2 DEF Once
<1>3. CASE i = Len(q) + 1 /\ j \in 1..Len(q) BY <1>1, <1>3 DEF InSeq
<1>4. CASE j = Len(q) + 1 /\ i \in 1..Len(q) BY <1>1, <1>4 DEF InSeq
<1>5. CASE i = Len(q) + 1 /\ j = Len(q) + 1 BY <1>5
<1> QED BY <1>1, <1>2, <1>3, <1>4, <1>5

\* A get removes the one occurrence of the task at the head.
LEMMA GetOnce ==
    ASSUME NEW S, NEW q \in Seq(S), q # <<>>, Once(q)
    PROVE  /\ Head(q) \in S /\ Tail(q) \in Seq(S)
           /\ InSeq(Head(q), q)
           /\ Once(Tail(q))
           /\ Head(q) # Pill => ~InSeq(Head(q), Tail(q))
           /\ \A x : x # Head(q) => (InSeq(x, Tail(q)) <=> InSeq(x, q))
<1>1. /\ Len(q) \in Nat \ {0} /\ DOMAIN q = 1..Len(q)
      /\ Head(q) = q[1] /\ Head(q) \in S /\ Tail(q) \in Seq(S)
      /\ DOMAIN Tail(q) = 1..(Len(q) - 1)
      /\ \A i \in 1..(Len(q) - 1) : Tail(q)[i] = q[i + 1]
  OBVIOUS
<1>2. InSeq(Head(q), q) BY <1>1 DEF InSeq
<1>3. \A i \in 1..(Len(q) - 1) : i + 1 \in 1..Len(q) /\ i + 1 # 1 BY <1>1
<1>4. Once(Tail(q)) BY <1>1, <1>3 DEF Once
<1>5. Head(q) # Pill => ~InSeq(Head(q), Tail(q)) BY <1>1, <1>3 DEF Once, InSeq
<1>6. ASSUME NEW x, InSeq(x, Tail(q)) PROVE InSeq(x, q) BY <1>1, <1>3, <1>6 DEF InSeq
<1>7. ASSUME NEW x, x # Head(q), InSeq(x, q) PROVE InSeq(x, Tail(q))
  <2>1. PICK i \in DOMAIN q : q[i] = x BY <1>7 DEF InSeq
  <2>2. i # 1 /\ i - 1 \in 1..(Len(q) - 1) /\ (i - 1) + 1 = i BY <1>1, <1>7, <2>1
  <2> QED BY <1>1, <2>1, <2>2 DEF InSeq
<1> QED BY <1>1, <1>2, <1>4, <1>5, <1>6, <1>7

-----------------------------------------------------------------------------
(* The inductive invariant.                                                *)

Cap == IF MaxRetries = 0 THEN 1 ELSE MaxRetries

\* What a worker thread knows of the task it holds.
OwnerInv ==
    \A w \in Threads :
        /\ thread[w] \in {"exec", "backoff", "burying"} => holds[w] # NoTask
        /\ holds[w] # NoTask =>
              /\ thread[w] \in {"exec", "backoff", "burying"}
              /\ state[holds[w]] = IF thread[w] = "burying" THEN "DEAD" ELSE "RUNNING"
        /\ thread[w] = "backoff" => attempts[holds[w]] < MaxRetries
        /\ thread[w] = "burying" => ~InSeq(holds[w], deadLetter)

SingleOwner ==
    \A v, w \in Threads : holds[v] = holds[w] /\ holds[v] # NoTask => v = w

Held(t) == \E w \in Threads : holds[w] = t

\* Where a task is, by its state.
PlaceInv ==
    \A t \in Tasks :
        /\ producer[t] = "none" <=> state[t] = "NEW"
        /\ producer[t] = "registered" => state[t] = "PENDING"
        /\ InSeq(t, queue) <=> state[t] = "PENDING" /\ producer[t] = "done"
        /\ state[t] = "RUNNING" => Held(t) \/ t \in lost
        /\ t \in lost => state[t] = "RUNNING" /\ ~Held(t)
        /\ state[t] = "DEAD" => InSeq(t, deadLetter) \/ Held(t)
        /\ InSeq(t, deadLetter) => state[t] = "DEAD"

\* How many attempts a task has had, by its state.
AttemptInv ==
    \A t \in Tasks :
        /\ attempts[t] <= Cap
        /\ state[t] = "NEW" => attempts[t] = 0
        /\ state[t] = "PENDING" => attempts[t] = 0 \/ attempts[t] < MaxRetries
        /\ state[t] = "DEAD" => attempts[t] >= MaxRetries

OnceInv == Once(queue) /\ Once(deadLetter)

AdminInv == admin = "starting" => toDo > 0

TaskInv == OnceInv /\ OwnerInv /\ SingleOwner /\ PlaceInv /\ AttemptInv

QueueInv == TypeOK /\ AdminInv /\ TaskInv

-----------------------------------------------------------------------------
(* Steps that move no task: pills, start, stop and idle workers.           *)

\* As long as the tasks in the queue stay, a worker without a task may go where
\* it likes, and one that executes may sleep.
LEMMA NoTaskMoves ==
    ASSUME QueueInv,
           UNCHANGED <<state, attempts, deadLetter, producer, lost, holds>>,
           Once(queue'),
           \A t \in Tasks : InSeq(t, queue') <=> InSeq(t, queue),
           \A w \in Threads :
               \/ thread'[w] = thread[w]
               \/ /\ thread[w] \in {"unborn", "top", "get"}
                  /\ thread'[w] \in {"top", "get", "dead"}
               \/ /\ thread[w] = "exec" /\ thread'[w] = "backoff"
                  /\ attempts[holds[w]] < MaxRetries
    PROVE  TaskInv'
<1> USE DEF QueueInv, TaskInv
<1>1. OnceInv' BY DEF OnceInv
<1>2. OwnerInv'
  <2> SUFFICES ASSUME NEW w \in Threads
               PROVE  OwnerInv!(w)'
    BY DEF OwnerInv
  <2> QED BY DEF OwnerInv
<1>3. SingleOwner' BY DEF SingleOwner
<1>4. PlaceInv' BY DEF PlaceInv, Held
<1>5. AttemptInv' BY DEF AttemptInv, Cap
<1> QED BY <1>1, <1>2, <1>3, <1>4, <1>5

\* start, stop and the workers' ways past an empty queue.
LEMMA AdminSteps ==
    ASSUME QueueInv,
           \/ Start \/ Stop \/ JoinWorkers
           \/ \E w \in Threads : Spawn(w) \/ CheckRunning(w) \/ GetNothing(w)
    PROVE  QueueInv'
<1> USE DEF QueueInv, TaskInv, OnceInv, TypeOK, AdminInv, taskVars, adminVars
<1>1. CASE Start
  <2>1. TaskInv' BY <1>1, NoTaskMoves DEF Start
  <2> QED BY <1>1, <2>1, QueueAssumption DEF Start
<1>2. CASE Stop
  <2>1. TaskInv' BY <1>2, NoTaskMoves DEF Stop
  <2>2. MaxStarts * WorkerCount \in Int BY QueueAssumption
  <2>3. IsFiniteSet(Threads) BY <2>2, FS_Interval DEF Threads
  <2>4. Cardinality(workers) \in Nat BY <2>3, FS_Subset, FS_CardinalityType
  <2> QED BY <1>2, <2>1, <2>4 DEF Stop
<1>3. CASE JoinWorkers
  <2>1. TaskInv' BY <1>3, NoTaskMoves DEF JoinWorkers
  <2> QED BY <1>3, <2>1 DEF JoinWorkers
<1>4. ASSUME NEW w \in Threads, Spawn(w) PROVE QueueInv'
  <2>1. TaskInv' BY <1>4, NoTaskMoves DEF Spawn, Unborn
  <2> QED BY <1>4, <2>1 DEF Spawn
<1>5. ASSUME NEW w \in Threads, CheckRunning(w) PROVE QueueInv'
  <2>1. TaskInv' BY <1>5, NoTaskMoves DEF CheckRunning, Goto
  <2> QED BY <1>5, <2>1 DEF CheckRunning, Goto
<1>6. ASSUME NEW w \in Threads, GetNothing(w) PROVE QueueInv'
  <2>1. TaskInv' BY <1>6, NoTaskMoves DEF GetNothing, Goto
  <2> QED BY <1>6, <2>1 DEF GetNothing, Goto
<1> QED BY <1>1, <1>2, <1>3, <1>4, <1>5, <1>6

\* Pills come and go without disturbing the tasks around them.
LEMMA PillSteps ==
    ASSUME QueueInv, PutPill \/ \E w \in Threads : GetPill(w)
    PROVE  QueueInv'
<1> USE PlaceholderAssumption
    DEF QueueInv, TaskInv, OnceInv, TypeOK, AdminInv, taskVars, adminVars
<1>1. CASE PutPill
  <2>1. queue' = Append(queue, Pill) BY <1>1 DEF PutPill
  <2>2. Once(queue') BY <2>1, PutOnce
  <2>3. /\ queue' \in Seq(Tasks \cup {Pill})
        /\ \A t \in Tasks : InSeq(t, queue') <=> InSeq(t, queue)
    <3>1. Pill \in Tasks \cup {Pill} /\ \A t \in Tasks : t # Pill OBVIOUS
    <3> QED BY <2>1, <3>1, PutIn
  <2>4. TaskInv' BY <1>1, <2>2, <2>3, NoTaskMoves DEF PutPill
  <2> QED BY <1>1, <2>3, <2>4 DEF PutPill, PillsLeft
<1>2. ASSUME NEW w \in Threads, GetPill(w) PROVE QueueInv'
  <2>1. queue # <<>> /\ Head(queue) = Pill /\ queue' = Tail(queue)
    BY <1>2 DEF GetPill
  <2>2. /\ Once(queue') /\ queue' \in Seq(Tasks \cup {Pill})
        /\ \A t \in Tasks : InSeq(t, queue') <=> InSeq(t, queue)
    BY <2>1, GetOnce
  <2>3. TaskInv' BY <1>2, <2>2, NoTaskMoves DEF GetPill, Goto
  <2> QED BY <1>2, <2>2, <2>3 DEF GetPill, Goto
<1> QED BY <1>1, <1>2

\* An execution that will be retried.
LEMMA RetrySteps ==
    ASSUME QueueInv, NEW w \in Threads, FailRetry(w)
    PROVE  QueueInv'
<1> USE DEF QueueInv, TaskInv, OnceInv, TypeOK, AdminInv, taskVars, adminVars
<1>1. TaskInv' BY NoTaskMoves DEF FailRetry, AttemptsLeft, Goto
<1> QED BY <1>1 DEF FailRetry, Goto

-----------------------------------------------------------------------------
(* Steps that move a task.                                                 *)

\* A task that is not waiting and not held may be written by its producer.
LEMMA RegisterKeeps ==
    ASSUME QueueInv, NEW t \in Tasks, Register(t) PROVE QueueInv'
<1> USE PlaceholderAssumption
    DEF QueueInv, TaskInv, TypeOK, AdminInv, adminVars, Register
<1>1. state[t] = "NEW" BY DEF PlaceInv
<1>2. \A w \in Threads : holds[w] # t BY <1>1 DEF OwnerInv
<1>3. ~InSeq(t, deadLetter) /\ ~InSeq(t, queue) BY <1>1 DEF PlaceInv
<1>4. OwnerInv' BY <1>2 DEF OwnerInv
<1>5. PlaceInv' BY <1>1, <1>2, <1>3 DEF PlaceInv, Held
<1>6. AttemptInv' BY <1>1 DEF AttemptInv, Cap
<1> QED BY <1>4, <1>5, <1>6 DEF OnceInv, SingleOwner

\* A registered task is put into the queue by its producer alone.
LEMMA PutKeeps ==
    ASSUME QueueInv, NEW t \in Tasks, Put(t) PROVE QueueInv'
<1> USE PlaceholderAssumption
    DEF QueueInv, TaskInv, TypeOK, AdminInv, adminVars, taskVars, Put
<1>1. state[t] = "PENDING" /\ ~InSeq(t, queue) BY DEF PlaceInv
<1>2. t \in Tasks \cup {Pill} /\ queue' = Append(queue, t) OBVIOUS
<1>3. /\ queue' \in Seq(Tasks \cup {Pill}) /\ InSeq(t, queue')
      /\ \A x : x # t => (InSeq(x, queue') <=> InSeq(x, queue))
  BY <1>2, PutIn
<1>4. InSeq(t, queue') BY <1>3
<1>5. \A x \in Tasks \ {t} : InSeq(x, queue') <=> InSeq(x, queue)
  BY ONLY <1>3
<1>6. OnceInv' BY <1>1, <1>2, PutOnce DEF OnceInv
<1>7. OwnerInv' BY DEF OwnerInv
<1>8. PlaceInv' BY <1>1, <1>4, <1>5 DEF PlaceInv, Held
<1>9. AttemptInv' BY DEF AttemptInv, Cap
<1> QED BY <1>3, <1>6, <1>7, <1>8, <1>9 DEF SingleOwner

\* Taking a task: it waited, so nobody else holds it.
LEMMA GetTaskKeeps ==
    ASSUME QueueInv, NEW w \in Threads, GetTask(w) PROVE QueueInv'
<1> DEFINE t == Head(queue)
<1> USE PlaceholderAssumption
    DEF QueueInv, TaskInv, TypeOK, AdminInv, adminVars, GetTask, Goto, AfterGet
<1>1. /\ t \in Tasks \cup {Pill} /\ t # Pill
      /\ queue' \in Seq(Tasks \cup {Pill})
      /\ InSeq(t, queue) /\ ~InSeq(t, queue') /\ Once(queue')
      /\ \A x \in Tasks \ {t} : InSeq(x, queue') <=> InSeq(x, queue)
  BY GetOnce DEF OnceInv
<1>2. t \in Tasks BY <1>1
<1>3. /\ thread[w] = "get" /\ UNCHANGED <<adminVars, deadLetter, producer, lost>>
      /\ holds' = [holds EXCEPT ![w] = t]
      /\ state' = [state EXCEPT ![t] = "RUNNING"]
      /\ attempts' = [attempts EXCEPT ![t] = @ + 1]
      /\ thread' = [thread EXCEPT ![w] = "exec"]
  OBVIOUS
<1> HIDE DEF GetTask, t
<1>4. state[t] = "PENDING" /\ producer[t] = "done" /\ ~InSeq(t, deadLetter) /\ t \notin lost
  BY <1>1, <1>2 DEF PlaceInv
<1>5. \A v \in Threads : holds[v] # t BY <1>2, <1>4 DEF OwnerInv
<1>6. holds[w] = NoTask BY <1>3 DEF OwnerInv
<1>7. OnceInv' BY <1>1, <1>3 DEF OnceInv
<1>8. OwnerInv'
  <2> SUFFICES ASSUME NEW v \in Threads PROVE OwnerInv!(v)' BY DEF OwnerInv
  <2>1. CASE v = w BY <1>2, <1>3, <2>1
  <2>2. CASE v # w BY <1>2, <1>3, <1>5, <2>2 DEF OwnerInv
  <2> QED BY <2>1, <2>2
<1>9. SingleOwner' BY <1>2, <1>3, <1>5 DEF SingleOwner
<1>10. PlaceInv'
  <2> SUFFICES ASSUME NEW x \in Tasks PROVE PlaceInv!(x)' BY DEF PlaceInv
  <2>1. x # t => (Held(x)' <=> Held(x))
    <3> SUFFICES ASSUME NEW v \in Threads, x # t PROVE holds'[v] = x <=> holds[v] = x
      BY DEF Held
    <3> QED BY <1>3, <1>6
  <2>2. \E v \in Threads : holds'[v] = t BY <1>3
  <2>3. state'[t] = "RUNNING" /\ \A y \in Tasks \ {t} : state'[y] = state[y]
    BY <1>2, <1>3
  <2>4. CASE x = t
    BY <1>1, <1>2, <1>3, <1>4, <2>2, <2>3, <2>4 DEF PlaceInv, Held
  <2>5. CASE x # t
    <3>1. state'[x] = state[x] /\ (InSeq(x, queue') <=> InSeq(x, queue))
      BY <1>1, <2>3, <2>5
    <3> QED BY <1>3, <2>1, <2>5, <3>1 DEF PlaceInv
  <2> QED BY <2>4, <2>5
<1>11. AttemptInv'
  <2>1. attempts[t] + 1 <= Cap
    BY <1>2, <1>4, QueueAssumption DEF AttemptInv, Cap
  <2> QED BY <1>2, <1>3, <2>1 DEF AttemptInv
<1>12. TypeOK'
  <2>1. attempts' \in [Tasks -> Nat] BY <1>2, <1>3
  <2>2. state' \in [Tasks -> {"NEW", "PENDING", "RUNNING", "SUCCESS", "DEAD"}]
    BY <1>2, <1>3
  <2> QED BY <1>1, <1>2, <1>3, <2>1, <2>2
<1> QED BY <1>3, <1>7, <1>8, <1>9, <1>10, <1>11, <1>12

\* What a worker knows of the task it holds: it is a task, held by nobody else,
\* absent from the queue.
LEMMA HolderKnows ==
    ASSUME QueueInv, NEW w \in Threads,
           thread[w] \in {"exec", "backoff", "burying"}
    PROVE  /\ holds[w] \in Tasks
           /\ \A v \in Threads \ {w} : holds[v] # holds[w]
           /\ state[holds[w]] = IF thread[w] = "burying" THEN "DEAD" ELSE "RUNNING"
           /\ producer[holds[w]] = "done"
           /\ ~InSeq(holds[w], queue)
           /\ ~InSeq(holds[w], deadLetter) /\ holds[w] \notin lost
<1> USE PlaceholderAssumption DEF QueueInv, TaskInv, TypeOK
<1>1. holds[w] \in Tasks BY DEF OwnerInv
<1>2. \A v \in Threads \ {w} : holds[v] # holds[w] BY <1>1 DEF SingleOwner
<1>3. state[holds[w]] = IF thread[w] = "burying" THEN "DEAD" ELSE "RUNNING"
  BY <1>1 DEF OwnerInv
<1>4. producer[holds[w]] = "done" /\ ~InSeq(holds[w], queue)
  BY <1>1, <1>3 DEF PlaceInv
<1>5. ~InSeq(holds[w], deadLetter) BY <1>1, <1>3 DEF OwnerInv, PlaceInv
<1>6. holds[w] \notin lost BY <1>1 DEF PlaceInv, Held
<1> QED BY <1>1, <1>2, <1>3, <1>4, <1>5, <1>6

\* A task that succeeded is finished and held by nobody.
LEMMA SucceedKeeps ==
    ASSUME QueueInv, NEW w \in Threads, Succeed(w) PROVE QueueInv'
<1> DEFINE t == holds[w]
<1> USE PlaceholderAssumption DEF QueueInv, TaskInv, TypeOK, AdminInv, adminVars
<1>1. /\ thread[w] = "exec"
      /\ UNCHANGED <<adminVars, queue, attempts, deadLetter, producer, lost>>
      /\ state' = [state EXCEPT ![t] = "SUCCESS"]
      /\ holds' = [holds EXCEPT ![w] = NoTask]
      /\ thread' = [thread EXCEPT ![w] = "top"]
  BY DEF Succeed, Release, Goto
<1>2. /\ t \in Tasks /\ \A v \in Threads \ {w} : holds[v] # t
      /\ state[t] = "RUNNING" /\ producer[t] = "done"
      /\ ~InSeq(t, queue) /\ ~InSeq(t, deadLetter) /\ t \notin lost
  BY <1>1, HolderKnows
<1> HIDE DEF t
<1>3. OnceInv' BY <1>1 DEF OnceInv
<1>4. OwnerInv'
  <2> SUFFICES ASSUME NEW v \in Threads PROVE OwnerInv!(v)' BY DEF OwnerInv
  <2>1. CASE v = w BY <1>1, <2>1
  <2>2. CASE v # w BY <1>1, <1>2, <2>2 DEF OwnerInv
  <2> QED BY <2>1, <2>2
<1>5. SingleOwner' BY <1>1, <1>2 DEF SingleOwner
<1>6. PlaceInv'
  <2> SUFFICES ASSUME NEW x \in Tasks PROVE PlaceInv!(x)' BY DEF PlaceInv
  <2>1. CASE x = t BY <1>1, <1>2, <2>1
  <2>2. CASE x # t
    <3>1. Held(x)' <=> Held(x)
      <4> SUFFICES ASSUME NEW v \in Threads PROVE holds'[v] = x <=> holds[v] = x
        BY DEF Held
      <4> QED BY <1>1, <2>2 DEF t
    <3>2. state'[x] = state[x] BY <1>1, <1>2, <2>2
    <3> QED BY <1>1, <3>1, <3>2 DEF PlaceInv
  <2> QED BY <2>1, <2>2
<1>7. AttemptInv' BY <1>1, <1>2 DEF AttemptInv, Cap
<1>8. TypeOK' BY <1>1, <1>2
<1> QED BY <1>1, <1>3, <1>4, <1>5, <1>6, <1>7, <1>8

\* A task that ends its thread is lost with it.
LEMMA ExitKeeps ==
    ASSUME QueueInv, NEW w \in Threads, Exit(w) PROVE QueueInv'
<1> DEFINE t == holds[w]
<1> USE PlaceholderAssumption DEF QueueInv, TaskInv, TypeOK, AdminInv, adminVars, taskVars
<1>1. /\ thread[w] = "exec"
      /\ UNCHANGED <<adminVars, queue, taskVars, producer>>
      /\ lost' = lost \cup {t}
      /\ holds' = [holds EXCEPT ![w] = NoTask]
      /\ thread' = [thread EXCEPT ![w] = "dead"]
  BY DEF Exit, Release, Goto
<1>2. /\ t \in Tasks /\ \A v \in Threads \ {w} : holds[v] # t
      /\ state[t] = "RUNNING" /\ producer[t] = "done"
      /\ ~InSeq(t, queue) /\ ~InSeq(t, deadLetter) /\ t \notin lost
  BY <1>1, HolderKnows
<1> HIDE DEF t
<1>3. OnceInv' BY <1>1 DEF OnceInv
<1>4. OwnerInv'
  <2> SUFFICES ASSUME NEW v \in Threads PROVE OwnerInv!(v)' BY DEF OwnerInv
  <2>1. CASE v = w BY <1>1, <2>1
  <2>2. CASE v # w BY <1>1, <1>2, <2>2 DEF OwnerInv
  <2> QED BY <2>1, <2>2
<1>5. SingleOwner' BY <1>1, <1>2 DEF SingleOwner
<1>6. PlaceInv'
  <2> SUFFICES ASSUME NEW x \in Tasks PROVE PlaceInv!(x)' BY DEF PlaceInv
  <2>1. CASE x = t
    <3>1. \A v \in Threads : holds'[v] # x BY <1>1, <1>2, <2>1
    <3>2. ~Held(x)' BY <3>1 DEF Held
    <3>3. x \in lost' /\ state'[x] = "RUNNING" /\ producer'[x] = "done"
      BY <1>1, <1>2, <2>1
    <3>4. ~InSeq(x, queue') /\ ~InSeq(x, deadLetter') BY <1>1, <1>2, <2>1
    <3> QED BY <3>2, <3>3, <3>4
  <2>2. CASE x # t
    <3>1. Held(x)' <=> Held(x)
      <4> SUFFICES ASSUME NEW v \in Threads PROVE holds'[v] = x <=> holds[v] = x
        BY DEF Held
      <4> QED BY <1>1, <2>2 DEF t
    <3>2. x \in lost' <=> x \in lost BY <1>1, <2>2
    <3> QED BY <1>1, <3>1, <3>2 DEF PlaceInv
  <2> QED BY <2>1, <2>2
<1>7. AttemptInv' BY <1>1 DEF AttemptInv, Cap
<1>8. TypeOK' BY <1>1, <1>2
<1> QED BY <1>1, <1>3, <1>4, <1>5, <1>6, <1>7, <1>8

\* A task that is retried goes from its worker to the queue, which did not
\* have it.
LEMMA RequeueKeeps ==
    ASSUME QueueInv, NEW w \in Threads, Requeue(w) PROVE QueueInv'
<1> DEFINE t == holds[w]
<1> USE PlaceholderAssumption DEF QueueInv, TaskInv, TypeOK, AdminInv, adminVars
<1>1. /\ thread[w] = "backoff"
      /\ UNCHANGED <<adminVars, attempts, deadLetter, producer, lost>>
      /\ state' = [state EXCEPT ![t] = "PENDING"]
      /\ queue' = Append(queue, t)
      /\ holds' = [holds EXCEPT ![w] = NoTask]
      /\ thread' = [thread EXCEPT ![w] = "top"]
  BY DEF Requeue, RequeueState, PutBack, Release, Goto
<1>2. /\ t \in Tasks /\ \A v \in Threads \ {w} : holds[v] # t
      /\ state[t] = "RUNNING" /\ producer[t] = "done"
      /\ ~InSeq(t, queue) /\ ~InSeq(t, deadLetter) /\ t \notin lost
  BY <1>1, HolderKnows
<1>3. attempts[t] < MaxRetries BY <1>1 DEF OwnerInv
<1> HIDE DEF t
<1>4. t \in Tasks \cup {Pill} BY <1>2
<1>5. /\ queue' \in Seq(Tasks \cup {Pill}) /\ InSeq(t, queue')
      /\ \A x : x # t => (InSeq(x, queue') <=> InSeq(x, queue))
  BY <1>1, <1>4, PutIn
<1>6. OnceInv' BY <1>1, <1>2, <1>4, PutOnce DEF OnceInv
<1>7. OwnerInv'
  <2> SUFFICES ASSUME NEW v \in Threads PROVE OwnerInv!(v)' BY DEF OwnerInv
  <2>1. CASE v = w BY <1>1, <2>1
  <2>2. CASE v # w BY <1>1, <1>2, <2>2 DEF OwnerInv
  <2> QED BY <2>1, <2>2
<1>8. SingleOwner' BY <1>1, <1>2 DEF SingleOwner
<1>9. PlaceInv'
  <2> SUFFICES ASSUME NEW x \in Tasks PROVE PlaceInv!(x)' BY DEF PlaceInv
  <2>1. CASE x = t BY <1>1, <1>2, <1>5, <2>1
  <2>2. CASE x # t
    <3>1. Held(x)' <=> Held(x)
      <4> SUFFICES ASSUME NEW v \in Threads PROVE holds'[v] = x <=> holds[v] = x
        BY DEF Held
      <4> QED BY <1>1, <2>2 DEF t
    <3>2. state'[x] = state[x] /\ (InSeq(x, queue') <=> InSeq(x, queue))
      BY <1>1, <1>2, <1>5, <2>2
    <3> QED BY <1>1, <3>1, <3>2 DEF PlaceInv
  <2> QED BY <2>1, <2>2
<1>10. AttemptInv' BY <1>1, <1>2, <1>3 DEF AttemptInv, Cap
<1>11. TypeOK' BY <1>1, <1>2, <1>5
<1> QED BY <1>1, <1>6, <1>7, <1>8, <1>9, <1>10, <1>11

\* A task without attempts left is dead; its worker still has to list it.
LEMMA FailDeadKeeps ==
    ASSUME QueueInv, NEW w \in Threads, FailDead(w) PROVE QueueInv'
<1> DEFINE t == holds[w]
<1> USE PlaceholderAssumption DEF QueueInv, TaskInv, TypeOK, AdminInv, adminVars
<1>1. /\ thread[w] = "exec" /\ ~(attempts[t] < MaxRetries)
      /\ UNCHANGED <<adminVars, queue, attempts, deadLetter, producer, lost, holds>>
      /\ state' = [state EXCEPT ![t] = "DEAD"]
      /\ thread' = [thread EXCEPT ![w] = "burying"]
  BY DEF FailDead, AttemptsLeft, Goto
<1>2. /\ t \in Tasks /\ \A v \in Threads \ {w} : holds[v] # t
      /\ state[t] = "RUNNING" /\ producer[t] = "done"
      /\ ~InSeq(t, queue) /\ ~InSeq(t, deadLetter) /\ t \notin lost
  BY <1>1, HolderKnows
<1>3. OwnerInv'
  <2> SUFFICES ASSUME NEW v \in Threads PROVE OwnerInv!(v)' BY DEF OwnerInv
  <2>1. CASE v = w BY <1>1, <1>2, <2>1
  <2>2. CASE v # w BY <1>1, <1>2, <2>2 DEF OwnerInv
  <2> QED BY <2>1, <2>2
<1>4. PlaceInv'
  <2> SUFFICES ASSUME NEW x \in Tasks PROVE PlaceInv!(x)' BY DEF PlaceInv
  <2>1. CASE x = t
    <3>1. \E v \in Threads : holds'[v] = t BY <1>1
    <3> QED BY <1>1, <1>2, <2>1, <3>1 DEF Held
  <2>2. CASE x # t BY <1>1, <1>2, <2>2 DEF PlaceInv, Held
  <2> QED BY <2>1, <2>2
<1>5. AttemptInv'
  <2>1. attempts[t] >= MaxRetries BY <1>1, <1>2, QueueAssumption
  <2> QED BY <1>1, <1>2, <2>1 DEF AttemptInv, Cap
<1>6. TypeOK' BY <1>1, <1>2
<1> QED BY <1>1, <1>3, <1>4, <1>5, <1>6 DEF OnceInv, SingleOwner

\* A dead task is listed, once.
LEMMA ListDeadKeeps ==
    ASSUME QueueInv, NEW w \in Threads, ListDead(w) PROVE QueueInv'
<1> DEFINE t == holds[w]
<1> USE PlaceholderAssumption DEF QueueInv, TaskInv, TypeOK, AdminInv, adminVars
<1>1. /\ thread[w] = "burying"
      /\ UNCHANGED <<adminVars, queue, state, attempts, producer, lost>>
      /\ deadLetter' = Append(deadLetter, t)
      /\ holds' = [holds EXCEPT ![w] = NoTask]
      /\ thread' = [thread EXCEPT ![w] = "top"]
  BY DEF ListDead, Release, Goto
<1>2. /\ t \in Tasks /\ \A v \in Threads \ {w} : holds[v] # t
      /\ state[t] = "DEAD" /\ producer[t] = "done"
      /\ ~InSeq(t, queue) /\ ~InSeq(t, deadLetter) /\ t \notin lost
  BY <1>1, HolderKnows
<1> HIDE DEF t
<1>3. /\ deadLetter' \in Seq(Tasks) /\ InSeq(t, deadLetter')
      /\ \A x : x # t => (InSeq(x, deadLetter') <=> InSeq(x, deadLetter))
  BY <1>1, <1>2, PutIn
<1>4. OnceInv' BY <1>1, <1>2, PutOnce DEF OnceInv
<1>5. OwnerInv'
  <2> SUFFICES ASSUME NEW v \in Threads PROVE OwnerInv!(v)' BY DEF OwnerInv
  <2>1. CASE v = w BY <1>1, <2>1
  <2>2. CASE v # w
    <3>1. InSeq(holds[v], deadLetter') <=> InSeq(holds[v], deadLetter)
      BY <1>2, <1>3, <2>2
    <3> QED BY <1>1, <2>2, <3>1 DEF OwnerInv
  <2> QED BY <2>1, <2>2
<1>6. SingleOwner' BY <1>1, <1>2 DEF SingleOwner
<1>7. PlaceInv'
  <2> SUFFICES ASSUME NEW x \in Tasks PROVE PlaceInv!(x)' BY DEF PlaceInv
  <2>1. CASE x = t BY <1>1, <1>2, <1>3, <2>1
  <2>2. CASE x # t
    <3>1. Held(x)' <=> Held(x)
      <4> SUFFICES ASSUME NEW v \in Threads PROVE holds'[v] = x <=> holds[v] = x
        BY DEF Held
      <4> QED BY <1>1, <2>2 DEF t
    <3>2. InSeq(x, deadLetter') <=> InSeq(x, deadLetter) BY <1>3, <2>2
    <3> QED BY <1>1, <3>1, <3>2 DEF PlaceInv
  <2> QED BY <2>1, <2>2
<1>8. AttemptInv' BY <1>1 DEF AttemptInv, Cap
<1>9. TypeOK' BY <1>1, <1>3
<1> QED BY <1>1, <1>4, <1>5, <1>6, <1>7, <1>8, <1>9

-----------------------------------------------------------------------------
(* The invariant holds.                                                    *)

\* Before anything is enqueued.
LEMMA QueueInit == Init => QueueInv
<1> SUFFICES ASSUME Init PROVE QueueInv OBVIOUS
<1> USE PlaceholderAssumption, QueueAssumption DEF Init
<1>1. TypeOK
  <2>1. /\ queue \in Seq(Tasks \cup {Pill}) /\ deadLetter \in Seq(Tasks)
    OBVIOUS
  <2>2. /\ running \in BOOLEAN /\ workers \subseteq Threads
        /\ admin \in {"idle", "starting", "pilling"} /\ toDo \in Nat
    OBVIOUS
  <2>3. /\ state \in [Tasks -> {"NEW", "PENDING", "RUNNING", "SUCCESS", "DEAD"}]
        /\ attempts \in [Tasks -> Nat]
        /\ producer \in [Tasks -> {"none", "registered", "done"}]
    OBVIOUS
  <2>4. /\ thread \in [Threads -> {"unborn", "top", "get", "exec", "backoff",
                                   "burying", "dead"}]
        /\ holds \in [Threads -> Tasks \cup {NoTask}]
    OBVIOUS
  <2> QED BY <2>1, <2>2, <2>3, <2>4 DEF TypeOK
<1>2. OnceInv BY DEF OnceInv, Once
<1>3. OwnerInv /\ SingleOwner BY DEF OwnerInv, SingleOwner
<1>4. PlaceInv BY DEF PlaceInv, InSeq
<1>5. AttemptInv BY DEF AttemptInv, Cap
<1> QED BY <1>1, <1>2, <1>3, <1>4, <1>5 DEF QueueInv, TaskInv, AdminInv

\* A step that changes nothing.
LEMMA QueueStutter == QueueInv /\ UNCHANGED vars => QueueInv'
<1> SUFFICES ASSUME QueueInv, UNCHANGED vars PROVE QueueInv' OBVIOUS
<1> USE DEF vars, adminVars, taskVars, QueueInv, TaskInv
<1>1. TypeOK' /\ AdminInv' BY DEF TypeOK, AdminInv
<1>2. OnceInv' BY DEF OnceInv
<1>3. OwnerInv' /\ SingleOwner' BY DEF OwnerInv, SingleOwner
<1>4. PlaceInv' BY DEF PlaceInv, Held
<1>5. AttemptInv' BY DEF AttemptInv, Cap
<1> QED BY <1>1, <1>2, <1>3, <1>4, <1>5

\* Every step keeps the invariant.
LEMMA QueueStep == QueueInv /\ [Next]_vars => QueueInv'
<1> SUFFICES ASSUME QueueInv, [Next]_vars PROVE QueueInv' OBVIOUS
<1>1. CASE Start \/ Stop \/ JoinWorkers BY <1>1, AdminSteps
<1>2. CASE PutPill BY <1>2, PillSteps
<1>3. ASSUME NEW t \in Tasks, Register(t) \/ Put(t) PROVE QueueInv'
  BY <1>3, RegisterKeeps, PutKeeps
<1>4. ASSUME NEW w \in Threads, Spawn(w) \/ WorkerStep(w) \/ Exit(w)
      PROVE  QueueInv'
  <2>1. CASE Spawn(w) \/ CheckRunning(w) \/ GetNothing(w) BY <2>1, AdminSteps
  <2>2. CASE GetPill(w) BY <2>2, PillSteps
  <2>3. CASE FailRetry(w) BY <2>3, RetrySteps
  <2>9. CASE Exit(w) BY <2>9, ExitKeeps
  <2>4. CASE GetTask(w) BY <2>4, GetTaskKeeps
  <2>5. CASE Succeed(w) BY <2>5, SucceedKeeps
  <2>6. CASE Requeue(w) BY <2>6, RequeueKeeps
  <2>7. CASE FailDead(w) BY <2>7, FailDeadKeeps
  <2>8. CASE ListDead(w) BY <2>8, ListDeadKeeps
  <2> QED BY <1>4, <2>1, <2>2, <2>3, <2>4, <2>5, <2>6, <2>7, <2>8, <2>9
          DEF WorkerStep, Finish
<1>5. CASE UNCHANGED vars BY <1>5, QueueStutter
<1> QED BY <1>1, <1>2, <1>3, <1>4, <1>5 DEF Next

\* The inductive invariant of worker.py's queue, threads and task states.
THEOREM QueueInvHolds == Spec => []QueueInv
<1>1. QueueInv /\ [Next]_vars => QueueInv' BY QueueStep
<1> QED BY <1>1, QueueInit, PTL DEF Spec

\* The variables of the task queue keep their types.
THEOREM QueueTypes == Spec => []TypeOK
<1>1. QueueInv => TypeOK BY DEF QueueInv
<1> QED BY <1>1, QueueInvHolds, PTL

\* What get_result reports is true: a queued task is PENDING and one that is
\* executed or backs off is RUNNING, whatever stop and start do meanwhile.
THEOREM StateTruthHolds == Spec => []StateTruth
<1>1. QueueInv => StateTruth
  <2> SUFFICES ASSUME QueueInv PROVE StateTruth OBVIOUS
  <2> USE DEF QueueInv, TaskInv, TypeOK
  <2>1. ASSUME NEW i \in DOMAIN queue, queue[i] # Pill
        PROVE  state[queue[i]] = "PENDING"
    <3>1. queue[i] \in Tasks BY <2>1
    <3>2. InSeq(queue[i], queue) BY DEF InSeq
    <3> QED BY <3>1, <3>2 DEF PlaceInv
  <2>2. ASSUME NEW w \in Threads, thread[w] \in {"exec", "backoff"}
        PROVE  state[holds[w]] = "RUNNING"
    BY <2>2 DEF OwnerInv
  <2> QED BY <2>1, <2>2 DEF StateTruth
<1> QED BY <1>1, QueueInvHolds, PTL

\* No task runs more often than max_retries allows, and the dead letters are
\* the tasks that used all their attempts, each once.
THEOREM RetriesBoundedHolds == Spec => []RetriesBounded
<1>1. QueueInv => RetriesBounded
  <2> SUFFICES ASSUME QueueInv PROVE RetriesBounded OBVIOUS
  <2> USE PlaceholderAssumption DEF QueueInv, TaskInv, TypeOK
  <2>1. \A t \in Tasks : attempts[t] <= (IF MaxRetries = 0 THEN 1 ELSE MaxRetries)
    BY DEF AttemptInv, Cap
  <2>2. ASSUME NEW i \in DOMAIN deadLetter, NEW j \in DOMAIN deadLetter
        PROVE  /\ attempts[deadLetter[i]] >= MaxRetries
               /\ state[deadLetter[i]] = "DEAD"
               /\ deadLetter[i] = deadLetter[j] => i = j
    <3>1. deadLetter[i] \in Tasks /\ deadLetter[i] # Pill OBVIOUS
    <3>2. InSeq(deadLetter[i], deadLetter) BY DEF InSeq
    <3>3. state[deadLetter[i]] = "DEAD" BY <3>1, <3>2 DEF PlaceInv
    <3>4. attempts[deadLetter[i]] >= MaxRetries BY <3>1, <3>3 DEF AttemptInv
    <3>5. deadLetter[i] = deadLetter[j] => i = j BY <3>1 DEF OnceInv, Once
    <3> QED BY <3>3, <3>4, <3>5
  <2> QED BY <2>1, <2>2 DEF RetriesBounded
<1> QED BY <1>1, QueueInvHolds, PTL

\* One that was put is queued once, or held by one living worker, or finished, or
\* lost with the thread that died of it (worker.py 103), and then RUNNING for ever.
THEOREM InOnePlaceHolds == Spec => []InOnePlace
<1>1. QueueInv => InOnePlace
  <2> SUFFICES ASSUME QueueInv, NEW t \in Tasks, producer[t] = "done"
               PROVE  Cardinality({i \in DOMAIN queue : queue[i] = t})
                        + Cardinality({w \in LiveThreads : holds[w] = t})
                        + (IF state[t] = "SUCCESS" \/ InSeq(t, deadLetter)
                             THEN 1 ELSE 0)
                        + (IF t \in lost THEN 1 ELSE 0) = 1
    BY DEF InOnePlace, QueueInv, TaskInv, PlaceInv
  <2> DEFINE places == {i \in DOMAIN queue : queue[i] = t}
             owners == {w \in LiveThreads : holds[w] = t}
  <2> USE PlaceholderAssumption DEF QueueInv, TaskInv, TypeOK
  <2>1. CASE InSeq(t, queue)
    <3>1. PICK i \in DOMAIN queue : queue[i] = t BY <2>1 DEF InSeq
    <3>2. places = {i}
      <4>1. t # Pill OBVIOUS
      <4>2. \A j \in DOMAIN queue : queue[j] = t => j = i
        BY <3>1, <4>1 DEF OnceInv, Once
      <4> QED BY <3>1, <4>2
    <3>3. state[t] = "PENDING" /\ ~InSeq(t, deadLetter) /\ t \notin lost
      BY <2>1 DEF PlaceInv
    <3>4. owners = {} BY <3>3 DEF OwnerInv, LiveThreads
    <3> HIDE DEF places, owners
    <3>5. Cardinality(places) = 1 /\ Cardinality(owners) = 0
      BY <3>2, <3>4, FS_Singleton, FS_EmptySet
    <3> QED BY <3>3, <3>5 DEF places, owners
  <2>2. CASE ~InSeq(t, queue) /\ Held(t)
    <3>1. places = {} BY <2>2 DEF InSeq
    <3>2. PICK w \in Threads : holds[w] = t BY <2>2 DEF Held
    <3>3. owners = {w}
      <4>1. w \in LiveThreads BY <3>2 DEF OwnerInv, LiveThreads
      <4> QED BY <3>2, <4>1 DEF SingleOwner, LiveThreads
    <3>6. t \notin lost BY <2>2 DEF PlaceInv
    <3>4. state[t] # "SUCCESS" /\ ~InSeq(t, deadLetter)
      <4>1. t # NoTask OBVIOUS
      <4>2. state[t] = IF thread[w] = "burying" THEN "DEAD" ELSE "RUNNING"
        BY <3>2, <4>1 DEF OwnerInv
      <4>3. thread[w] = "burying" => ~InSeq(t, deadLetter) BY <3>2 DEF OwnerInv
      <4>4. InSeq(t, deadLetter) => state[t] = "DEAD" BY DEF PlaceInv
      <4> QED BY <4>2, <4>3, <4>4
    <3> HIDE DEF places, owners
    <3>5. Cardinality(places) = 0 /\ Cardinality(owners) = 1
      BY <3>1, <3>3, FS_Singleton, FS_EmptySet
    <3> QED BY <3>4, <3>5, <3>6 DEF places, owners
  <2>3. CASE ~InSeq(t, queue) /\ ~Held(t)
    <3>1. places = {} /\ owners = {} BY <2>3 DEF InSeq, Held, LiveThreads
    <3>2. IF t \in lost THEN ~(state[t] = "SUCCESS" \/ InSeq(t, deadLetter))
                        ELSE state[t] = "SUCCESS" \/ InSeq(t, deadLetter)
      BY <2>3 DEF PlaceInv
    <3> HIDE DEF places, owners
    <3>3. Cardinality(places) = 0 /\ Cardinality(owners) = 0
      BY <3>1, FS_EmptySet
    <3> QED BY <3>2, <3>3 DEF places, owners
  <2> QED BY <2>1, <2>2, <2>3
<1> QED BY <1>1, QueueInvHolds, PTL

-----------------------------------------------------------------------------
(* The queue implements the lives its tasks are promised.                  *)

Listed == {t \in Tasks : InSeq(t, deadLetter)}

\* A step that leaves the tasks' records alone is invisible.
LEMMA Invisible ==
    ASSUME UNCHANGED taskVars PROVE UNCHANGED Lifecycle!vars
BY DEF taskVars, Lifecycle!vars

\* Each step of the queue is a step of one task's life, or invisible.
LEMMA LifecycleStep ==
    QueueInv /\ [Next]_vars => [Lifecycle!Next]_(Lifecycle!vars)
<1> SUFFICES ASSUME QueueInv, [Next]_vars
             PROVE  [Lifecycle!Next]_(Lifecycle!vars)
  OBVIOUS
<1> USE PlaceholderAssumption DEF QueueInv, TaskInv, TypeOK
<1>1. CASE Start \/ Stop \/ PutPill \/ JoinWorkers
  <2>1. UNCHANGED taskVars BY <1>1 DEF Start, Stop, PutPill, JoinWorkers
  <2> QED BY <2>1, Invisible
<1>2. ASSUME NEW t \in Tasks, Register(t) PROVE Lifecycle!Submit(t)
  <2>1. state[t] = "NEW" BY <1>2 DEF Register, PlaceInv
  <2> QED BY <1>2, <2>1 DEF Register, Lifecycle!Submit, Lifecycle!Move
<1>3. ASSUME NEW t \in Tasks, Put(t) PROVE UNCHANGED taskVars
  BY <1>3 DEF Put
<1>4. ASSUME NEW w \in Threads,
             \/ Spawn(w) \/ CheckRunning(w) \/ GetNothing(w) \/ GetPill(w)
             \/ Exit(w) \/ FailRetry(w)
      PROVE  UNCHANGED taskVars
  BY <1>4 DEF Spawn, CheckRunning, GetNothing, GetPill, Exit, FailRetry
<1>5. ASSUME NEW w \in Threads, GetTask(w)
      PROVE  Head(queue) \in Tasks /\ Lifecycle!Attempt(Head(queue))
  <2>1. Head(queue) \in Tasks /\ InSeq(Head(queue), queue)
    <3>1. /\ Head(queue) \in Tasks \cup {Pill} /\ InSeq(Head(queue), queue)
          /\ Head(queue) # Pill
      BY <1>5, GetOnce DEF GetTask, OnceInv
    <3> QED BY <3>1
  <2>2. state[Head(queue)] = "PENDING" BY <2>1 DEF PlaceInv
  <2> QED BY <1>5, <2>1, <2>2 DEF GetTask, Lifecycle!Attempt, Lifecycle!Move
<1>6. ASSUME NEW w \in Threads, Succeed(w)
      PROVE  holds[w] \in Tasks /\ Lifecycle!Succeed(holds[w])
  <2>1. holds[w] \in Tasks /\ state[holds[w]] = "RUNNING"
    BY <1>6, HolderKnows DEF Succeed
  <2> QED BY <1>6, <2>1 DEF Succeed, Lifecycle!Succeed, Lifecycle!Move
<1>7. ASSUME NEW w \in Threads, Requeue(w)
      PROVE  holds[w] \in Tasks /\ Lifecycle!Retry(holds[w])
  <2>1. holds[w] \in Tasks /\ state[holds[w]] = "RUNNING"
    BY <1>7, HolderKnows DEF Requeue
  <2>2. attempts[holds[w]] < MaxRetries BY <1>7 DEF Requeue, OwnerInv
  <2> QED BY <1>7, <2>1, <2>2
          DEF Requeue, RequeueState, Lifecycle!Retry, Lifecycle!Move
<1>8. ASSUME NEW w \in Threads, FailDead(w)
      PROVE  holds[w] \in Tasks /\ Lifecycle!Die(holds[w])
  <2>1. holds[w] \in Tasks /\ state[holds[w]] = "RUNNING"
    BY <1>8, HolderKnows DEF FailDead
  <2>2. attempts[holds[w]] >= MaxRetries
    BY <1>8, <2>1, QueueAssumption DEF FailDead, AttemptsLeft
  <2> QED BY <1>8, <2>1, <2>2 DEF FailDead, Lifecycle!Die, Lifecycle!Move
<1>9. ASSUME NEW w \in Threads, ListDead(w)
      PROVE  holds[w] \in Tasks /\ Lifecycle!ListDead(holds[w])
  <2>1. /\ holds[w] \in Tasks /\ state[holds[w]] = "DEAD"
        /\ ~InSeq(holds[w], deadLetter)
    BY <1>9, HolderKnows DEF ListDead
  <2>2. deadLetter' = Append(deadLetter, holds[w]) /\ UNCHANGED <<state, attempts>>
    BY <1>9 DEF ListDead
  <2>3. /\ InSeq(holds[w], deadLetter')
        /\ \A x : x # holds[w] => (InSeq(x, deadLetter') <=> InSeq(x, deadLetter))
    BY <2>1, <2>2, PutIn
  <2>4. {x \in Tasks : InSeq(x, deadLetter')} = Listed \cup {holds[w]}
    BY <2>1, <2>3 DEF Listed
  <2> QED BY <2>1, <2>2, <2>4 DEF Listed, Lifecycle!ListDead
<1>10. CASE UNCHANGED vars
  <2>1. UNCHANGED taskVars BY <1>10 DEF vars, taskVars
  <2> QED BY <2>1, Invisible
<1>11. CASE \E t \in Tasks : Register(t) \/ Put(t)
  BY <1>2, <1>3, <1>11, Invisible DEF Lifecycle!Next
<1>12. CASE \E w \in Threads : Spawn(w) \/ WorkerStep(w) \/ Exit(w)
  <2>1. PICK w \in Threads : Spawn(w) \/ WorkerStep(w) \/ Exit(w) BY <1>12
  <2> QED BY <2>1, <1>4, <1>5, <1>6, <1>7, <1>8, <1>9, Invisible
          DEF WorkerStep, Finish, Lifecycle!Next
<1> QED BY <1>1, <1>10, <1>11, <1>12 DEF Next

\* The task queue implements TaskLifecycle: no interleaving of enqueue, start,
\* stop, pills and workers lets a task skip, repeat or mix up a stage.
THEOREM QueueImplements == Spec => ImplementsLifecycle
<1>1. Init => Lifecycle!Init BY DEF Init, InSeq, Lifecycle!Init
<1>2. QueueInv /\ [Next]_vars => [Lifecycle!Next]_(Lifecycle!vars)
  BY LifecycleStep
<1> QED BY <1>1, <1>2, QueueInvHolds, PTL DEF Spec, ImplementsLifecycle, Lifecycle!Spec

=============================================================================
