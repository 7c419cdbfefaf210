------------------------------ MODULE ThreadPool ------------------------------
(* ThreadPool: a priority queue of timed tasks, workers that take the earliest *)
(* one and keep it in a local cache until it is due, auto scaling (a worker is *)
(* added when fewer are waiting than tasks are queued, and leaves after an     *)
(* idle timeout), cancellation, WaitAllTaskFinished and Join.                  *)
(*                                                                             *)
(* One iteration of Dequeue runs under m_tasksMutex and ends in a wait or a    *)
(* return, so it is one step; everything outside the mutex is a step of its    *)
(* own.  The priority queue lives in a std::deque: top() of an empty one reads *)
(* the slot of the task that emptied it (front), and pop() of an empty one     *)
(* ends the program (crashed).                                                 *)
EXTENDS Integers, FiniteSets, FiniteSetsExt

CONSTANTS Task,        \* the tasks clients schedule, one client each
          Delays,      \* the delays they are scheduled with
          MinThreads,  \* config_.min_work_threads_num
          MaxThreads,  \* config_.max_threads_limit
          MaxTime,     \* bound on the clock
          MaxLate      \* bound on the threads started while Join waits

NoTask == "no task"

ASSUME ThreadPoolAssumption ==
    /\ NoTask \notin Task
    /\ Delays \subseteq 0..MaxTime
    /\ MinThreads \in 0..MaxThreads
    /\ MaxThreads \in Nat \ {0}
    /\ MaxTime \in Nat
    /\ MaxLate \in Nat

\* A slot is reused once its thread is gone.  While Join waits for the threads it
\* has swapped out a late Spawn adds others: the extra slots bound those.
Worker == 0..(MaxThreads + MaxLate - 1)

VARIABLES now,          \* the steady clock
          time,         \* Task::time
          status,       \* the atomic status of a task
          queue,        \* m_tasks
          front,        \* what the first slot of m_tasks holds when it is empty
          client,       \* where the client scheduling a task is
          size,         \* the number of tasks it saw, then of workers it wants
          pool,         \* the keys of m_workers
          worker,       \* where a worker is
          cache,        \* the task a worker has cached or is about to run
          waiting_cnt,  \* cached tasks
          joining,      \* m_joining
          joiner,       \* where the caller of Join is
          swapped,      \* the workers it swapped out of m_workers
          waiter,       \* where the caller of WaitAllTaskFinished is
          crashed       \* pop() was called on an empty queue

tasks == <<time, status, queue, front, waiting_cnt>>
clients == <<client, size>>
callers == <<joining, joiner, swapped, waiter>>
vars == <<now, tasks, clients, pool, worker, cache, callers, crashed>>

\* The atomic counters that follow from where the workers are.
waiting_threads == Cardinality({w \in Worker : worker[w] \in {"lock", "wait", "awake", "expired", "got"}})
processing_cnt == Cardinality({w \in Worker : worker[w] = "run"})

TypeOK ==
    /\ now \in 0..MaxTime /\ front \in 0..MaxTime
    /\ time \in [Task -> 0..MaxTime]
    /\ status \in [Task -> {"new", "waiting", "running", "done", "cancelled"}]
    /\ queue \subseteq Task
    /\ client \in [Task -> {"new", "prepare", "spawn", "done"}]
    /\ size \in [Task -> 0..Cardinality(Task)]
    /\ pool \subseteq Worker /\ swapped \subseteq Worker
    /\ worker \in [Worker -> {"none", "enter", "lock", "wait", "awake", "expired", "got", "run",
                              "timeout", "exited"}]
    /\ cache \in [Worker -> Task \cup {NoTask}]
    /\ waiting_cnt \in 0..Cardinality(Worker)
    /\ joining \in BOOLEAN /\ crashed \in BOOLEAN
    /\ joiner \in {"new", "notify", "join", "done"}
    /\ waiter \in {"wait", "true", "false"}

\* The constructor spawns the reserved workers.
Reserved == 0..(MinThreads - 1)

Init ==
    /\ now = 0 /\ front = 0
    /\ time = [t \in Task |-> 0] /\ status = [t \in Task |-> "new"]
    /\ queue = {} /\ waiting_cnt = 0
    /\ client = [t \in Task |-> "new"] /\ size = [t \in Task |-> 0]
    /\ pool = Reserved
    /\ worker = [w \in Worker |-> IF w \in Reserved THEN "enter" ELSE "none"]
    /\ cache = [w \in Worker |-> NoTask]
    /\ joining = FALSE /\ joiner = "new" /\ swapped = {} /\ waiter = "wait" /\ crashed = FALSE

-----------------------------------------------------------------------------
(* The clients. *)

\* m_condition.notify_one wakes some worker that waits, if there is one.
NotifyOne ==
    LET waiting == {w \in Worker : worker[w] = "wait"}
    IN IF waiting = {} THEN worker' = worker ELSE \E w \in waiting : worker' = [worker EXCEPT ![w] = "awake"]

\* Schedule, up to the unlock: nothing checks m_joining.
Schedule(t, delay) ==
    /\ client[t] = "new" /\ now + delay <= MaxTime
    /\ time' = [time EXCEPT ![t] = now + delay]
    /\ status' = [status EXCEPT ![t] = "waiting"]
    /\ queue' = queue \cup {t}
    /\ NotifyOne
    /\ size' = [size EXCEPT ![t] = Cardinality(queue')]
    /\ client' = [client EXCEPT ![t] = "prepare"]
    /\ UNCHANGED <<now, front, waiting_cnt, pool, cache, callers, crashed>>

\* PrepareWorkers, and the m_joining test of Spawn.
PrepareWorkers(t) ==
    /\ client[t] = "prepare"
    /\ IF waiting_threads < size[t] /\ ~joining
       THEN /\ client' = [client EXCEPT ![t] = "spawn"]
            /\ size' = [size EXCEPT ![t] = @ - waiting_threads]
       ELSE /\ client' = [client EXCEPT ![t] = "done"]
            /\ size' = [size EXCEPT ![t] = 0]
    /\ UNCHANGED <<now, tasks, pool, worker, cache, callers, crashed>>

\* How many threads Spawn starts: no more than the limit leaves, then up to the
\* reserved number.
SpawnCount(count) ==
    LET limited == Min({count, MaxThreads - Cardinality(pool)})
    IN IF Cardinality(pool) + limited < MinThreads THEN limited + MinThreads - Cardinality(pool) ELSE limited

\* Spawn, under m_workersMutex.
Spawn(t) ==
    /\ client[t] = "spawn"
    /\ LET free == {w \in Worker \ Reserved : worker[w] = "none"}
           new == {w \in free : Cardinality({v \in free : v < w}) < SpawnCount(size[t])}
       IN /\ pool' = pool \cup new
          /\ worker' = [w \in Worker |-> IF w \in new THEN "enter" ELSE worker[w]]
    /\ client' = [client EXCEPT ![t] = "done"]
    /\ size' = [size EXCEPT ![t] = 0]
    /\ UNCHANGED <<now, tasks, cache, callers, crashed>>

\* ThreadPoolTaskToken::CancelTask: the task stays where it is.
CancelTask(t) ==
    /\ status[t] = "waiting"
    /\ status' = [status EXCEPT ![t] = "cancelled"]
    /\ UNCHANGED <<now, time, queue, front, waiting_cnt, clients, pool, worker, cache, callers, crashed>>

-----------------------------------------------------------------------------
(* The workers. *)

\* A new thread runs and its first RunOne begins: ++waiting_threads.
Enter(w) ==
    /\ worker[w] = "enter"
    /\ worker' = [worker EXCEPT ![w] = "lock"]
    /\ UNCHANGED <<now, tasks, clients, pool, cache, callers, crashed>>

Earliest == {t \in queue : \A u \in queue : time[t] <= time[u]}

PicksKeepQueued(w) ==
    IF cache[w] = NoTask THEN {<<t, queue>> : t \in Earliest} ELSE {<<cache[w], queue>>}

\* What Dequeue may cache, with the queue that leaves: the earliest task when
\* nothing is cached, and in exchange for the cached one when it is earlier.
Picks(w) ==
    IF cache[w] = NoTask THEN {<<t, queue \ {t}>> : t \in Earliest}
    ELSE IF \E t \in Earliest : time[t] < time[cache[w]]
         THEN {<<t, (queue \ {t}) \cup {cache[w]}>> : t \in Earliest}
         ELSE {<<cache[w], queue>>}

\* The comparison with top() of an empty queue that says "earlier".
PopsEmpty(w) == cache[w] # NoTask /\ queue = {} /\ front < time[cache[w]]

StopsWhenDrained(w) == joining /\ queue = {} /\ cache[w] = NoTask

\* Dequeue gives up as soon as the pool is joining, whatever is queued.
Stops(w) == joining

\* waiting_cnt after caching a task and, if it is due, returning it.
WaitingAfter(w, due) == waiting_cnt + (IF cache[w] = NoTask THEN 1 ELSE 0) - (IF due THEN 1 ELSE 0)

\* One iteration of the loop of Dequeue, up to the next wait or the return.
Dequeue(w) ==
    /\ worker[w] \in {"lock", "awake"}
    /\ \/ /\ Stops(w)
          /\ worker' = [worker EXCEPT ![w] = "exited"]
          /\ cache' = [cache EXCEPT ![w] = NoTask]
          /\ UNCHANGED <<queue, front, waiting_cnt, crashed>>
       \/ /\ ~Stops(w) /\ cache[w] = NoTask /\ queue = {}
          /\ worker' = [worker EXCEPT ![w] = "wait"]
          /\ UNCHANGED <<queue, front, cache, waiting_cnt, crashed>>
       \/ /\ ~Stops(w) /\ PopsEmpty(w)
          /\ crashed' = TRUE
          /\ UNCHANGED <<queue, front, worker, cache, waiting_cnt>>
       \/ /\ ~Stops(w) /\ ~PopsEmpty(w)
          /\ \E pick \in Picks(w) :
               LET due == time[pick[1]] <= now
               IN /\ cache' = [cache EXCEPT ![w] = pick[1]]
                  /\ queue' = pick[2]
                  /\ front' = IF queue # {} /\ queue' = {} THEN time[pick[1]] ELSE front
                  /\ waiting_cnt' = WaitingAfter(w, due)
                  /\ worker' = [worker EXCEPT ![w] = IF due THEN "got" ELSE "wait"]
          /\ UNCHANGED crashed
    /\ UNCHANGED <<now, time, status, clients, pool, callers>>

\* wait_until returns at the time of the cached task.
WakeDue(w) ==
    /\ worker[w] = "wait" /\ cache[w] # NoTask /\ time[cache[w]] <= now
    /\ worker' = [worker EXCEPT ![w] = "awake"]
    /\ UNCHANGED <<now, tasks, clients, pool, cache, callers, crashed>>

NobodyStays(w) == FALSE

\* Run: the workers below min_work_threads_num wait without a limit.
IsReserved(w) == w \in Reserved

\* The idle wait_for runs out: a notification no longer reaches the worker,
\* which still counts as waiting.
IdleExpires(w) ==
    /\ worker[w] = "wait" /\ cache[w] = NoTask /\ ~IsReserved(w)
    /\ worker' = [worker EXCEPT ![w] = "expired"]
    /\ UNCHANGED <<now, tasks, clients, pool, cache, callers, crashed>>

\* Dequeue returns with is_timeout set, without a look at the queue.
ReturnTimeout(w) ==
    /\ worker[w] = "expired"
    /\ worker' = [worker EXCEPT ![w] = "timeout"]
    /\ UNCHANGED <<now, tasks, clients, pool, cache, callers, crashed>>

\* Run hands its own thread to the scaling manager, unless Join has taken it.
Leave(w) ==
    /\ worker[w] = "timeout"
    /\ pool' = pool \ {w}
    /\ worker' = [worker EXCEPT ![w] = IF w \in pool THEN "none" ELSE "exited"]
    /\ UNCHANGED <<now, tasks, clients, cache, callers, crashed>>

\* RunOne after Dequeue has returned a task: it no longer counts as waiting, and
\* the exchange of the status, which a cancelled task fails, claims it.  From here
\* on processing_cnt counts it.
Claim(w) ==
    /\ worker[w] = "got"
    /\ IF status[cache[w]] = "waiting"
       THEN /\ status' = [status EXCEPT ![cache[w]] = "running"]
            /\ worker' = [worker EXCEPT ![w] = "run"]
            /\ UNCHANGED cache
       ELSE /\ worker' = [worker EXCEPT ![w] = "lock"]
            /\ cache' = [cache EXCEPT ![w] = NoTask]
            /\ UNCHANGED status
    /\ UNCHANGED <<now, time, queue, front, waiting_cnt, clients, pool, callers, crashed>>

\* The task function returns, the guard gives processing_cnt back, and the next
\* RunOne counts the worker as waiting.
Finish(w) ==
    /\ worker[w] = "run"
    /\ status' = [status EXCEPT ![cache[w]] = "done"]
    /\ worker' = [worker EXCEPT ![w] = "lock"]
    /\ cache' = [cache EXCEPT ![w] = NoTask]
    /\ UNCHANGED <<now, time, queue, front, waiting_cnt, clients, pool, callers, crashed>>

-----------------------------------------------------------------------------
(* The callers of Join and WaitAllTaskFinished. *)

\* The exchange of m_joining.
JoinBegin ==
    /\ joiner = "new"
    /\ joining' = TRUE /\ joiner' = "notify"
    /\ UNCHANGED <<now, tasks, clients, pool, worker, cache, swapped, waiter, crashed>>

JoinNotifyOne ==
    /\ joiner = "notify"
    /\ joiner' = "join"
    /\ NotifyOne
    /\ swapped' = pool /\ pool' = {}
    /\ UNCHANGED <<now, tasks, clients, cache, joining, waiter, crashed>>

\* notify_all under m_tasksMutex, then the swap of m_workers under m_workersMutex;
\* what others do to m_workers in between commutes with the notification.
JoinNotify ==
    /\ joiner = "notify"
    /\ joiner' = "join"
    /\ worker' = [w \in Worker |-> IF worker[w] = "wait" THEN "awake" ELSE worker[w]]
    /\ swapped' = pool /\ pool' = {}
    /\ UNCHANGED <<now, tasks, clients, cache, joining, waiter, crashed>>

\* Every swapped thread has been joined, and what is still queued is dropped.
JoinThreads ==
    /\ joiner = "join" /\ \A w \in swapped : worker[w] = "exited"
    /\ joiner' = "done" /\ swapped' = {} /\ queue' = {}
    /\ worker' = [w \in Worker |-> IF w \in swapped THEN "none" ELSE worker[w]]
    /\ UNCHANGED <<now, time, status, front, waiting_cnt, clients, pool, cache, joining, waiter, crashed>>

\* WaitAllTaskFinished polls from the start; a call made later is one that has not
\* looked yet.  It returns when the predicate holds as it is evaluated, or when the
\* pool is joining.
WaitEnd ==
    /\ waiter = "wait"
    /\ \/ queue = {} /\ processing_cnt + waiting_cnt = 0 /\ waiter' = "true"
       \/ joining /\ waiter' = "false"
    /\ UNCHANGED <<now, tasks, clients, pool, worker, cache, joining, joiner, swapped, crashed>>

-----------------------------------------------------------------------------
Tick ==
    /\ now < MaxTime
    /\ now' = now + 1
    /\ UNCHANGED <<tasks, clients, pool, worker, cache, callers, crashed>>

WorkerStep(w) ==
    \/ Enter(w) \/ Dequeue(w) \/ WakeDue(w) \/ IdleExpires(w) \/ ReturnTimeout(w)
    \/ Leave(w) \/ Claim(w) \/ Finish(w)

JoinStep == JoinNotify \/ JoinThreads

Next ==
    /\ ~crashed
    /\ \/ \E t \in Task : (\E delay \in Delays : Schedule(t, delay)) \/ PrepareWorkers(t) \/ Spawn(t) \/ CancelTask(t)
       \/ \E w \in Worker : WorkerStep(w)
       \/ JoinBegin \/ JoinStep \/ WaitEnd \/ Tick

Spec == Init /\ [][Next]_vars

\* Threads that can run do, a wait with a deadline ends, task functions return
\* and the clock advances.  Nobody has to schedule, to cancel, to wait or to join.
FairSpec ==
    /\ Spec
    /\ \A w \in Worker : WF_vars(~crashed /\ WorkerStep(w))
    /\ WF_vars(~crashed /\ JoinStep)
    /\ WF_vars(~crashed /\ WaitEnd)
    /\ WF_vars(~crashed /\ Tick)

-----------------------------------------------------------------------------
(* What the pool promises. *)

Holders(t) == {w \in Worker : cache[w] = t}

\* Exchanging cached and queued tasks under the lock neither loses nor copies
\* one: until the pool is joined a scheduled task that has not finished is in the
\* queue or with one worker, never in two places, and a running one is with the
\* worker that runs it.
EachTaskInOnePlace ==
    \A t \in Task :
        /\ status[t] = "waiting" /\ ~joining =>
             Cardinality(Holders(t)) + (IF t \in queue THEN 1 ELSE 0) = 1
        /\ status[t] = "running" =>
             t \notin queue /\ \E w \in Worker : Holders(t) = {w} /\ worker[w] = "run"

\* Once Join has returned no task runs or is about to run, not even one that is
\* scheduled late and meets a worker that was spawned late.
NothingRunsAfterJoin ==
    joiner = "done" => \A w \in Worker : worker[w] \notin {"got", "run"}

\* A pool with a reserved worker runs every task that is not cancelled, whatever
\* the idle timeouts and the notifications that reach the wrong worker, unless it
\* is joined first.
TasksRun ==
    \A t \in Task : status[t] = "waiting" ~> status[t] # "waiting" \/ joining \/ crashed

\* Whoever blocks on the pool returns: no worker sleeps through the notification of
\* Join, however the change of m_joining falls between its checks, and the counters of
\* cached and of running tasks, which WaitAllTaskFinished waits for, come back to zero
\* on every path, cancellation included.
BlockedCallsReturn ==
    /\ joining ~> joiner = "done" \/ crashed
    /\ waiter = "wait" ~> waiter # "wait" \/ crashed

=============================================================================
