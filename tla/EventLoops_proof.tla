--------------------------- MODULE EventLoops_proof ---------------------------
(***************************************************************************)
(* The delay queue, the application loop that drives it, and the pool of   *)
(* io threads.                                                             *)
(*                                                                         *)
(* First the delay queue by itself: its type invariant and the agreement   *)
(* of its two containers, for any number of sessions, dispatching threads  *)
(* and time values, and from them that HandleEvent fires only what is due. *)
(*                                                                         *)
(* Then the application loop, which uses the delay queue as its            *)
(* specification allows: whatever the loop thread, the posters and the     *)
(* thread that changes timers do, the delay queue takes a step of its own  *)
(* or none.  So what is proved of the delay queue alone holds inside the   *)
(* loop, for any number of sessions, posters and queued events.            *)
(*                                                                         *)
(* Last the pool of io threads: stop() returns only when what was          *)
(* registered has been released.                                           *)
(***************************************************************************)
EXTENDS IoContextPool, EventLoop, FiniteSetTheorems, TLAPS

(* The strengthening that is inductive.  FiresOnlyWhenDue needs two more    *)
(* facts than the two invariants: a dispatcher's copy of the clock is never *)
(* ahead of the clock, and its list of callbacks is empty outside the loop  *)
(* that runs them.                                                          *)
Inv ==
    /\ TypeOK
    /\ QueueMatchesSessions
    /\ \A d \in Dispatcher : now[d] <= clock
    /\ \A d \in Dispatcher : pc[d] # "run" => expiredTasks[d] = {}

LEMMA InitInv == Init => Inv
<1> SUFFICES ASSUME Init PROVE Inv
    OBVIOUS
<1>1. TypeOK
    BY DEF Init, TypeOK
<1>2. QueueMatchesSessions
    BY DEF Init, QueueMatchesSessions
<1>3. \A d \in Dispatcher : now[d] <= clock /\ expiredTasks[d] = {}
    BY DEF Init
<1> QED
    BY <1>1, <1>2, <1>3 DEF Inv

(* Every step keeps the types. *)
LEMMA TypeStep == TypeOK /\ [Next]_vars => TypeOK'
<1> SUFFICES ASSUME TypeOK, [Next]_vars PROVE TypeOK'
    OBVIOUS
<1> USE DelayQueueAssumption DEF fields, locals
<1>1. CASE Tick
    BY <1>1 DEF TypeOK, Tick
<1>2. ASSUME NEW s \in Session, NEW i \in Interval, NEW single \in BOOLEAN,
             NEW auto \in BOOLEAN, AddDelayTask(s, i, single, auto)
      PROVE  TypeOK'
    BY <1>2 DEF TypeOK, AddDelayTask
<1>3. ASSUME NEW s \in Session, StartDelayTask(s) PROVE TypeOK'
    BY <1>3 DEF TypeOK, StartDelayTask
<1>4. ASSUME NEW s \in Session, StopDelayTask(s) PROVE TypeOK'
    BY <1>4 DEF TypeOK, StopDelayTask
<1>5. ASSUME NEW s \in Session, RestartDelayTask(s) PROVE TypeOK'
    BY <1>5 DEF TypeOK, RestartDelayTask
<1>6. ASSUME NEW s \in Session, RemoveDelayTask(s) PROVE TypeOK'
    BY <1>6 DEF TypeOK, RemoveDelayTask
<1>7. ASSUME NEW s \in Session, NEW i \in Interval, UpdateTaskInterval(s, i)
      PROVE  TypeOK'
    BY <1>7 DEF TypeOK, UpdateTaskInterval
<1>8. ASSUME NEW s \in Session, NEW shift \in Shift,
             ModifyTaskNextExpiredTimepoint(s, shift)
      PROVE  TypeOK'
    BY <1>8 DEF TypeOK, ModifyTaskNextExpiredTimepoint
<1>9. ASSUME NEW d \in Dispatcher, HandleEventBegin(d) PROVE TypeOK'
    BY <1>9 DEF TypeOK, HandleEventBegin
<1>10. ASSUME NEW d \in Dispatcher, HandleEventCollect(d) PROVE TypeOK'
    BY <1>10 DEF TypeOK, HandleEventCollect, Expired, ExpiredSessions, Repeats
<1>11. ASSUME NEW d \in Dispatcher, HandleEventRun(d) PROVE TypeOK'
    BY <1>11 DEF TypeOK, HandleEventRun
<1>12. ASSUME NEW d \in Dispatcher, HandleEventEnd(d) PROVE TypeOK'
    BY <1>12 DEF TypeOK, HandleEventEnd
<1>13. CASE UNCHANGED vars
    BY <1>13 DEF TypeOK, vars
<1> QED
    BY <1>1, <1>2, <1>3, <1>4, <1>5, <1>6, <1>7, <1>8, <1>9, <1>10, <1>11, SMTT(40),
       <1>12, <1>13 DEF Next, Call, AnnouncedCall, SilentCall, HandleEventStep

(* Every step keeps the map and the sessions in agreement.  A step on one   *)
(* session leaves the keys of the others alone, and a key names its session, *)
(* so erasing one key and entering another touches no other entry.          *)
LEMMA QueueStep ==
    TypeOK /\ QueueMatchesSessions /\ [Next]_vars => QueueMatchesSessions'
<1> SUFFICES ASSUME TypeOK, QueueMatchesSessions, [Next]_vars
             PROVE  QueueMatchesSessions'
    OBVIOUS
<1> USE DelayQueueAssumption DEF fields, locals, Key, QueueMatchesSessions
<1>1. CASE Tick
    BY <1>1 DEF Tick
<1>2. ASSUME NEW s \in Session, NEW i \in Interval, NEW single \in BOOLEAN,
             NEW auto \in BOOLEAN, AddDelayTask(s, i, single, auto)
      PROVE  QueueMatchesSessions'
    BY <1>2 DEF TypeOK, AddDelayTask
<1>3. ASSUME NEW s \in Session, StartDelayTask(s) PROVE QueueMatchesSessions'
    BY <1>3 DEF TypeOK, StartDelayTask
<1>4. ASSUME NEW s \in Session, StopDelayTask(s) PROVE QueueMatchesSessions'
    BY <1>4 DEF TypeOK, StopDelayTask
<1>5. ASSUME NEW s \in Session, RestartDelayTask(s) PROVE QueueMatchesSessions'
    BY <1>5 DEF TypeOK, RestartDelayTask
<1>6. ASSUME NEW s \in Session, RemoveDelayTask(s) PROVE QueueMatchesSessions'
    BY <1>6 DEF TypeOK, RemoveDelayTask
<1>7. ASSUME NEW s \in Session, NEW i \in Interval, UpdateTaskInterval(s, i)
      PROVE  QueueMatchesSessions'
    BY <1>7 DEF UpdateTaskInterval
<1>8. ASSUME NEW s \in Session, NEW shift \in Shift,
             ModifyTaskNextExpiredTimepoint(s, shift)
      PROVE  QueueMatchesSessions'
    BY <1>8 DEF TypeOK, ModifyTaskNextExpiredTimepoint
<1>9. ASSUME NEW d \in Dispatcher, HandleEventCollect(d)
      PROVE  QueueMatchesSessions'
  <2> DEFINE taken == ExpiredSessions(d)
             again == {s \in taken : Repeats(s)}
             left == {s \in taken \ again : bAutoReleased[s]}
  <2>1. taken = {s \in taskStorage : bWorking[s] /\ nextTimeout[s] <= now[d]}
    <3>1. ASSUME NEW e \in processingTasks, e[1] <= now[d]
          PROVE  e[2] \in taskStorage /\ bWorking[e[2]] /\ nextTimeout[e[2]] <= now[d]
      BY <3>1
    <3>2. ASSUME NEW s \in taskStorage, bWorking[s], nextTimeout[s] <= now[d]
          PROVE  Key(s) \in Expired(d) /\ Key(s)[2] = s
      BY <3>2 DEF Expired
    <3>3. \A e \in Expired(d) :
              e[2] \in taskStorage /\ bWorking[e[2]] /\ nextTimeout[e[2]] <= now[d]
      BY <3>1 DEF Expired
    <3>4. taken = {e[2] : e \in Expired(d)}
      BY DEF ExpiredSessions
    <3> HIDE DEF taken, QueueMatchesSessions, Key
    <3> QED
      BY <3>2, <3>3, <3>4, SMTT(40)
  <2>2. \A s \in Session :
            s \in taskStorage' /\ bWorking'[s] <=>
            s \in taskStorage /\ bWorking[s] /\ (s \in taken => ~bSingle[s])
    BY <1>9, <2>1 DEF TypeOK, HandleEventCollect, Repeats
  <2>3. \A s \in again : Key(s)' = <<clock + interval[s], s>>
    BY <1>9, <2>1 DEF TypeOK, HandleEventCollect
  <2>4. \A s \in taskStorage \ taken : Key(s)' = Key(s)
    BY <1>9 DEF TypeOK, HandleEventCollect
  <2>5. processingTasks \ Expired(d)
            = {Key(s) : s \in {x \in taskStorage \ taken : bWorking[x]}}
    BY <2>1 DEF TypeOK, Expired
  <2>6. processingTasks' =
            {Key(s) : s \in {x \in taskStorage \ taken : bWorking[x]}}
                \cup {<<clock + interval[s], s>> : s \in again}
    BY <1>9, <2>5, SMTT(40) DEF HandleEventCollect
  <2>7. {x \in taskStorage' : bWorking'[x]}
            = {x \in taskStorage \ taken : bWorking[x]} \cup again
    BY <1>9, <2>1, <2>2, SMTT(40) DEF TypeOK, HandleEventCollect, Repeats
  <2> HIDE DEF taken, again
  <2> QED
    BY <2>3, <2>4, <2>6, <2>7, SMTT(40)
<1>10. ASSUME NEW d \in Dispatcher,
              \/ HandleEventBegin(d) \/ HandleEventRun(d) \/ HandleEventEnd(d)
       PROVE  QueueMatchesSessions'
    BY <1>10 DEF HandleEventBegin, HandleEventRun, HandleEventEnd
<1>11. CASE UNCHANGED vars
    BY <1>11 DEF vars
<1> QED
    BY <1>1, <1>2, <1>3, <1>4, <1>5, <1>6, <1>7, <1>8, <1>9, <1>10, <1>11, Zenon
    DEF Next, Call, AnnouncedCall, SilentCall, HandleEventStep

(* The clock never runs backwards, so a copy of it is never ahead of it;    *)
(* HandleEvent returns only when it has run every callback it took.         *)
LEMMA LocalsStep ==
    Inv /\ [Next]_vars =>
        \A d \in Dispatcher : /\ now'[d] <= clock'
                              /\ pc'[d] # "run" => expiredTasks'[d] = {}
<1> SUFFICES ASSUME Inv, [Next]_vars, NEW d \in Dispatcher
             PROVE  /\ now'[d] <= clock'
                    /\ pc'[d] # "run" => expiredTasks'[d] = {}
    OBVIOUS
<1> USE DEF fields, locals, Inv, TypeOK
<1>1. CASE Tick
    BY <1>1 DEF Tick
<1>2. CASE Call
    BY <1>2, SMTT(40) DEF Call, AnnouncedCall, SilentCall, AddDelayTask,
       StartDelayTask, StopDelayTask, RestartDelayTask, RemoveDelayTask, UpdateTaskInterval,
       ModifyTaskNextExpiredTimepoint
<1>3. ASSUME NEW c \in Dispatcher, HandleEventStep(c)
      PROVE  /\ now'[d] <= clock'
             /\ pc'[d] # "run" => expiredTasks'[d] = {}
    BY <1>3 DEF HandleEventStep, HandleEventBegin, HandleEventCollect,
       HandleEventRun, HandleEventEnd
<1>4. CASE UNCHANGED vars
    BY <1>4 DEF vars
<1> QED
    BY <1>1, <1>2, <1>3, <1>4, SMTT(40) DEF Next

LEMMA InvStep == Inv /\ [Next]_vars => Inv'
<1> SUFFICES ASSUME Inv, [Next]_vars PROVE Inv'
    OBVIOUS
<1>1. TypeOK'
    BY TypeStep DEF Inv
<1>2. QueueMatchesSessions'
    BY QueueStep DEF Inv
<1>3. \A d \in Dispatcher : /\ now'[d] <= clock'
                            /\ pc'[d] # "run" => expiredTasks'[d] = {}
    BY LocalsStep
<1> QED
    BY <1>1, <1>2, <1>3 DEF Inv

(* The inductive invariant holds in every reachable state.                  *)
THEOREM Invariance == Spec => []Inv
BY InitInv, InvStep, PTL DEF Spec

(* delay_queue.cpp keeps its data well typed.                               *)
THEOREM TypeCorrect == Spec => []TypeOK
<1>1. Inv => TypeOK
    BY DEF Inv
<1> QED
    BY <1>1, Invariance, PTL

(* The entries of processingTasks are always exactly the keys of the live   *)
(* working sessions, whatever the API calls and however many threads.       *)
THEOREM QueueAgreement == Spec => []QueueMatchesSessions
<1>1. Inv => QueueMatchesSessions
    BY DEF Inv
<1> QED
    BY <1>1, Invariance, PTL

(* What the critical section of HandleEvent takes is due, and is left       *)
(* scheduled exactly as its kind demands.                                   *)
LEMMA CollectFiresDue ==
    ASSUME Inv, NEW d \in Dispatcher, HandleEventCollect(d),
           NEW s \in Session, NEW e \in expiredTasks'[d], e[2] = s
    PROVE  /\ s \in taskStorage /\ bWorking[s] /\ nextTimeout[s] <= clock
           /\ {f \in processingTasks' : f[2] = s}
                = IF bSingle[s] THEN {} ELSE {<<clock + interval[s], s>>}
<1> USE DEF Inv, TypeOK
<1>1. e \in processingTasks /\ e[1] <= now[d]
    BY DEF HandleEventCollect, Expired
<1>2. s \in taskStorage /\ bWorking[s] /\ e = Key(s)
    BY <1>1 DEF QueueMatchesSessions, Key
<1>3. nextTimeout[s] <= clock
    BY <1>1, <1>2 DEF Key
<1>4. s \in ExpiredSessions(d)
    BY <1>1 DEF ExpiredSessions, Expired
<1>5. \A f \in processingTasks : f[2] = s => f \in Expired(d)
    BY <1>1, <1>2, SMTT(40) DEF QueueMatchesSessions, Key, Expired
<1>6. {f \in processingTasks' : f[2] = s}
         = IF bSingle[s] THEN {} ELSE {<<clock + interval[s], s>>}
    BY <1>2, <1>4, <1>5 DEF HandleEventCollect, Repeats, ExpiredSessions, Expired
<1> QED
    BY <1>2, <1>3, <1>6, SMTT(40)

(* HandleEvent never fires a stopped, removed or spent task, nor one before *)
(* its time, and never enters a task twice.                                 *)
THEOREM FiringIsDue == Spec => FiresOnlyWhenDue
<1> DEFINE Fires == \A s \in Session : Taken(s) =>
              /\ s \in taskStorage /\ bWorking[s] /\ nextTimeout[s] <= clock
              /\ {e \in processingTasks' : e[2] = s}
                    = IF bSingle[s] THEN {} ELSE {<<clock + interval[s], s>>}
<1>1. Inv /\ [Next]_vars => [Fires]_vars
  <2> SUFFICES ASSUME Inv, Next, NEW s \in Session, NEW d \in Dispatcher,
                      pc[d] = "collect",
                      NEW e \in expiredTasks'[d], e[2] = s
               PROVE  /\ s \in taskStorage /\ bWorking[s] /\ nextTimeout[s] <= clock
                      /\ {f \in processingTasks' : f[2] = s}
                           = IF bSingle[s] THEN {} ELSE {<<clock + interval[s], s>>}
    BY DEF Taken
  <2>1. CASE HandleEventCollect(d)
    BY <2>1, CollectFiresDue, SMTT(40)
  <2>2. CASE Tick \/ Call
    BY <2>2, SMTT(40) DEF Inv, Tick, Call, AnnouncedCall, SilentCall, AddDelayTask,
       StartDelayTask, StopDelayTask, RestartDelayTask, RemoveDelayTask, UpdateTaskInterval,
       ModifyTaskNextExpiredTimepoint, locals
  <2>3. ASSUME NEW c \in Dispatcher, c # d \/ ~HandleEventCollect(d),
               HandleEventStep(c)
        PROVE  FALSE
    BY <2>3 DEF Inv, TypeOK, HandleEventStep, HandleEventBegin,
       HandleEventCollect, HandleEventRun, HandleEventEnd
  <2> QED
    BY <2>1, <2>2, <2>3, SMTT(40) DEF Next
<1> QED
    BY <1>1, Invariance, PTL DEF Spec, FiresOnlyWhenDue

-----------------------------------------------------------------------------
(* Only three kinds of step of the composition touch the delay queue.       *)
LEMMA LoopStepIsQueueStep == LoopNext => [Next]_vars
<1> SUFFICES ASSUME LoopNext PROVE [Next]_vars
    OBVIOUS
<1>1. LoopThread \in Dispatcher
    BY EventLoopAssumption DEF LoopThread
<1>2. CASE Time
    BY <1>2 DEF Time, Next
<1>3. CASE TimerModify
    BY <1>3 DEF TimerModify, Next, Call
<1>4. CASE TimerUpdateInterval
    BY <1>4 DEF TimerUpdateInterval, Next, Call
<1>5. CASE LoopHandleEvent
    BY <1>1, <1>5, SMTT(40) DEF LoopHandleEvent, Next
<1>6. CASE LoopStep /\ ~LoopHandleEvent
    BY <1>6 DEF LoopStep, LoopCheck, EventsTickOne, EventsTickEnd, LoopIsIdle,
       LoopGetNextTimeout, LoopWait, WakeAtDeadline
<1>7. CASE LoopStart \/ SpuriousWakeUp \/ TimerSignal
    BY <1>7 DEF LoopStart, SpuriousWakeUp, TimerSignal
<1>8. ASSUME NEW p \in Poster,
             \/ \E event \in {"task", "exit"} : PostBegin(p, event)
             \/ PostEnqueue(p)
             \/ ExitWakeUp(p)
      PROVE  UNCHANGED vars
    BY <1>8 DEF PostBegin, PostEnqueue, ExitWakeUp
<1> QED
    BY <1>2, <1>3, <1>4, <1>5, <1>6, <1>7, <1>8, SMTT(40) DEF LoopNext

(* The composition implements the delay queue's specification.              *)
THEOREM LoopUsesQueue == LoopSpec => Spec
<1>1. LoopInit => Init
    BY DEF LoopInit
<1>2. [LoopNext]_allVars => [Next]_vars
    BY LoopStepIsQueueStep DEF allVars
<1> QED
    BY <1>1, <1>2, PTL DEF LoopSpec, Spec

(* Inside the loop the entries of processingTasks are the keys of the live  *)
(* working sessions, so that HandleEvent dereferences only live ones and    *)
(* GetNextTimeoutMsec never sleeps past a task or on behalf of a dead one.  *)
THEOREM LoopQueueAgreement == LoopSpec => []QueueMatchesSessions
BY LoopUsesQueue, QueueAgreement, PTL

(* The loop fires only delay tasks that are due, each as its kind demands,  *)
(* although other threads change them between the parts of a tick.          *)
THEOREM LoopFiringIsDue == LoopSpec => FiresOnlyWhenDue
BY LoopUsesQueue, FiringIsDue, PTL

-----------------------------------------------------------------------------
(***************************************************************************)
(* The io_context loops: stop() of the pool returns only after every object *)
(* registered when it began has been released, for any number of waiters,   *)
(* stoppers and objects.                                                    *)
(***************************************************************************)

Timer == Waiter \cup Object \cup {None}
Handler == {"arm", "wake", "fire", "release"} \X Timer

(* The close sequence of o has been posted.                                 *)
Posted(o) == \E i \in 1..Len(handlers) : handlers[i] = <<"release", o>>

Places == {"idle", "wake", "returned"} \cup AfterWake

Types ==
    /\ IsFiniteSet(Waiter) /\ IsFiniteSet(Object)
    /\ handlers \in Seq(Handler)
    /\ spc \in [Stopper -> Places]
    /\ opc \in [Object -> {"new", "made", "up", "gone"}]
    /\ armed \subseteq Timer /\ timers_ \subseteq Timer /\ wait_stop_timer_ \in Timer
    /\ objects_ \subseteq Object /\ toDrive \subseteq Object /\ before \subseteq Object

(* One caller of stop() does the work, and the others return at once.       *)
OneStops ==
    /\ ~stopping_ => \A s \in Stopper : spc[s] = "idle"
    /\ \A s, r \in Stopper : spc[s] \notin {"idle", "returned"} /\ spc[r] \notin {"idle", "returned"} => s = r

(* The guard is given up after the objects have been driven, and only then  *)
(* can run() return, which the join waits for.                              *)
GuardLast ==
    /\ ~work_ => At({"join", "done"})
    /\ stopped => ~work_
    /\ At({"done"}) => stopped

(* An object of before is gone, or on its way: still registered, in the map *)
(* of drive_registered_objects, or with its close sequence posted.          *)
OnItsWay ==
    /\ ~stopping_ => before = {}
    /\ \A o \in before : \/ opc[o] = "gone"
                         \/ Posted(o)
                         \/ o \in toDrive /\ At({"call"})
                         \/ o \in objects_ /\ At({"wake", "drive"})
    /\ stopped => \A o \in before : opc[o] = "gone"

PoolInv == Types /\ OneStops /\ GuardLast /\ OnItsWay

LEMMA PoolInitInv == PoolInit => PoolInv
<1> SUFFICES ASSUME PoolInit PROVE PoolInv
    OBVIOUS
<1>1. Types
    BY IoContextPoolAssumption DEF PoolInit, Types, Timer, Places
<1>2. OneStops
    BY Zenon DEF PoolInit, OneStops
<1>3. GuardLast
    BY Zenon DEF PoolInit, GuardLast, At
<1>4. OnItsWay
    BY Zenon DEF PoolInit, OnItsWay
<1> QED BY <1>1, <1>2, <1>3, <1>4, Zenon DEF PoolInv

(* What a cancel queues is a sequence of handlers: there are finitely many  *)
(* timers.                                                                  *)
LEMMA CancelledType == ASSUME Types, NEW T PROVE Cancelled(T) \in Seq(Handler)
<1> DEFINE S == T \cap armed
           F == {<<"fire", t>> : t \in S}
           f == [t \in S |-> <<"fire", t>>]
<1>1. IsFiniteSet(Timer)
    BY FS_Singleton, FS_Union, Zenon DEF Types, Timer
<1>2. S \in SUBSET Timer
    BY Zenon DEF Types
<1>3. IsFiniteSet(S)
    BY <1>1, <1>2, FS_Subset, Zenon
<1>4. f \in Surjection(S, F)
    BY Zenon DEF Surjection
<1>5. IsFiniteSet(F)
    BY <1>3, <1>4, FS_Surjection, Zenon
<1>6. F \subseteq Handler
    BY <1>2 DEF Handler
<1>7. Cardinality(F) \in Nat /\ ExistsBijection(1..Cardinality(F), F)
    BY <1>5, FS_CardinalityType, Zenon
<1>8. \E g \in [1..Cardinality(F) -> F] : IsInjective(g)
    BY <1>7, Zenon DEF ExistsBijection, Bijection, Injection, IsInjective
<1>9. SetToSeq(F) \in [1..Cardinality(F) -> F]
    <2> HIDE DEF F
    <2> QED
        BY <1>8 DEF SetToSeq
<1>10. SetToSeq(F) \in [1..Cardinality(F) -> Handler]
    BY <1>6, <1>9, Zenon
<1>11. SetToSeq(F) \in Seq(Handler)
    BY <1>7, <1>10, SMTT(40)
<1> QED BY <1>11, Zenon DEF Cancelled

LEMMA AppendLast ==
    ASSUME NEW S, NEW q \in Seq(S), NEW x \in S
    PROVE  Len(Append(q, x)) = Len(q) + 1 /\ Len(q) \in Nat /\ Append(q, x)[Len(q) + 1] = x
OBVIOUS

(* Handlers that are appended leave the posted ones where they are, and a   *)
(* handler that is taken to run leaves the others.                          *)
LEMMA AppendKeeps ==
    ASSUME handlers \in Seq(Handler), NEW x \in Seq(Handler), handlers' = handlers \o x
    PROVE  handlers' \in Seq(Handler) /\ \A o : Posted(o) => Posted(o)'
<1>1. /\ handlers' \in Seq(Handler) /\ Len(handlers) \in Nat /\ Len(x) \in Nat
      /\ Len(handlers') = Len(handlers) + Len(x)
      /\ \A i \in 1..Len(handlers) : handlers'[i] = handlers[i]
    OBVIOUS
<1>2. \A i \in 1..Len(handlers) : i \in 1..Len(handlers')
    BY <1>1
<1> QED BY <1>1, <1>2, Zenon DEF Posted

LEMMA TailKeeps ==
    ASSUME handlers \in Seq(Handler), handlers # <<>>, NEW x \in Seq(Handler), handlers' = Tail(handlers) \o x
    PROVE  /\ handlers' \in Seq(Handler) /\ Head(handlers) \in Handler
           /\ \A o : Posted(o) => Posted(o)' \/ Head(handlers) = <<"release", o>>
<1>1. /\ Len(handlers) \in Nat \ {0} /\ Tail(handlers) \in Seq(Handler) /\ Len(Tail(handlers)) = Len(handlers) - 1
      /\ \A i \in 1..Len(Tail(handlers)) : Tail(handlers)[i] = handlers[i + 1]
      /\ Head(handlers) = handlers[1] /\ Head(handlers) \in Handler
    OBVIOUS
<1>2. /\ handlers' \in Seq(Handler) /\ Len(x) \in Nat /\ Len(handlers') = Len(Tail(handlers)) + Len(x)
      /\ \A i \in 1..Len(Tail(handlers)) : handlers'[i] = Tail(handlers)[i]
    BY <1>1
<1>3. \A i \in 1..Len(handlers) : i # 1 => /\ i - 1 \in 1..Len(Tail(handlers)) /\ i - 1 \in 1..Len(handlers')
                                           /\ (i - 1) + 1 = i
    BY <1>1, <1>2
<1>4. \A i \in 1..Len(handlers) : i # 1 => i - 1 \in 1..Len(handlers') /\ handlers'[i - 1] = handlers[i]
    BY <1>1, <1>2, <1>3, Zenon
<1> QED BY <1>1, <1>2, <1>4, Zenon DEF Posted

(* A step of a waiter, an object or the io thread: stop() stays where it    *)
(* is, and an object that is on its way stays on it or is gone.             *)
LEMMA QuietStep ==
    ASSUME PoolInv, Types', UNCHANGED <<stopping_, work_, stopped, spc, before, toDrive>>,
           \A o \in Object : opc[o] = "gone" => opc'[o] = "gone",
           \A o \in Object : Posted(o) => Posted(o)' \/ opc'[o] = "gone",
           \A o \in objects_ : o \in objects_' \/ opc'[o] = "gone"
    PROVE  PoolInv'
<1>1. OneStops'
    BY Zenon DEF PoolInv, OneStops
<1>2. \A P : At(P)' <=> At(P)
    BY Zenon DEF At
<1>3. GuardLast'
    BY <1>2, Zenon DEF PoolInv, GuardLast
<1>4. before \subseteq Object
    BY Zenon DEF PoolInv, Types
<1>5. OnItsWay'
    BY <1>2, <1>4, Zenon DEF PoolInv, OnItsWay
<1> QED BY <1>1, <1>3, <1>5, Zenon DEF PoolInv

LEMMA RunHandlerStep == ASSUME PoolInv, RunHandler PROVE PoolInv'
<1> DEFINE h == Head(handlers)
<1>1. /\ Types /\ handlers \in Seq(Handler) /\ handlers # <<>>
      /\ UNCHANGED <<stopping_, work_, stopped, spc, before, toDrive>>
    BY Zenon DEF PoolInv, Types, RunHandler, history
<1>2. PICK x \in Seq(Handler) : handlers' = Tail(handlers) \o x
    <2>1. <<>> \in Seq(Handler) /\ Tail(handlers) \o <<>> = Tail(handlers)
        BY <1>1
    <2> QED BY <1>1, <2>1, CancelledType, Zenon DEF RunHandler, RunArm, RunWake, RunFire, RunRelease
<1>3. /\ handlers' \in Seq(Handler) /\ h \in Handler
      /\ \A o : Posted(o) => Posted(o)' \/ h = <<"release", o>>
    BY <1>1, <1>2, TailKeeps, Zenon
<1>4. h[2] \in Timer
    BY <1>3, Zenon DEF Handler
<1>5. CASE h[1] # "release"
    <2>1. UNCHANGED <<opc, objects_>>
        BY <1>5, Zenon DEF RunHandler, RunArm, RunWake, RunFire, registries
    <2>2. armed' \subseteq Timer /\ timers_' \subseteq Timer /\ wait_stop_timer_' \in Timer
        BY <1>1, <1>4, <1>5, Zenon DEF RunHandler, RunArm, RunWake, RunFire, registries, timerState, Types, Timer
    <2>3. Types'
        BY <1>1, <1>3, <2>1, <2>2, Zenon DEF Types
    <2>4. \A o \in Object : Posted(o) => Posted(o)'
        BY <1>3, <1>5
    <2> QED BY <1>1, <2>1, <2>3, <2>4, QuietStep, Zenon
<1>6. CASE h[1] = "release"
    <2>1. RunRelease(h[2])
        BY <1>6, Zenon DEF RunHandler
    <2>2. Types'
        BY <1>1, <1>3, <2>1, Zenon DEF Types, RunRelease
    <2>3. \A o \in Object : (opc[o] = "gone" => opc'[o] = "gone") /\ (h[2] = o => opc'[o] = "gone")
        BY <1>1, <2>1, Zenon DEF Types, RunRelease
    <2>4. \A o \in Object : Posted(o) => Posted(o)' \/ opc'[o] = "gone"
        BY <1>3, <2>3
    <2>5. \A o \in objects_ : o \in objects_' \/ opc'[o] = "gone"
        BY <1>1, <2>1, <2>3, Zenon DEF RunRelease, Types
    <2> QED BY <1>1, <2>2, <2>3, <2>4, <2>5, QuietStep, Zenon
<1> QED BY <1>5, <1>6, Zenon

LEMMA WaitStepKeeps == ASSUME PoolInv, NEW w \in Waiter, WaitStep(w) PROVE PoolInv'
<1>1. Types /\ handlers \in Seq(Handler)
    BY Zenon DEF PoolInv, Types
<1>2. UNCHANGED <<stopping_, work_, stopped, spc, before, toDrive, opc, objects_, timers_, armed, wait_stop_timer_>>
    BY Zenon DEF WaitStep, WaitStopCheck, WaitStopPost, registries, timerState, history
<1>3. PICK x \in Seq(Handler) : handlers' = handlers \o x
    <2>1. handlers \o <<>> = handlers /\ <<>> \in Seq(Handler)
        BY <1>1
    <2>2. <<"arm", w>> \in Handler
        BY Zenon DEF Handler, Timer
    <2>3. Append(handlers, <<"arm", w>>) = handlers \o <<<<"arm", w>>>> /\ <<<<"arm", w>>>> \in Seq(Handler)
        BY <1>1, <2>2
    <2> QED BY <2>1, <2>3, Zenon DEF WaitStep, WaitStopCheck, WaitStopPost
<1>4. handlers' \in Seq(Handler) /\ \A o : Posted(o) => Posted(o)'
    BY <1>1, <1>3, AppendKeeps, Zenon
<1>5. Types'
    BY <1>1, <1>2, <1>4, Zenon DEF Types
<1> QED BY <1>2, <1>4, <1>5, QuietStep, Zenon

LEMMA ObjectStepKeeps == ASSUME PoolInv, NEW o \in Object, ObjectStep(o) PROVE PoolInv'
<1>1. Types /\ handlers \in Seq(Handler)
    BY Zenon DEF PoolInv, Types
<1>2. UNCHANGED <<stopping_, work_, stopped, spc, before, toDrive, wait_stop_timer_>>
    BY Zenon DEF ObjectStep, ObjectCreate, ObjectStart, ObjectRead, ObjectArmTimer, ObjectStop, registries, timerState, history
<1>3. PICK x \in Seq(Handler) : handlers' = handlers \o x
    <2>1. handlers \o <<>> = handlers /\ <<>> \in Seq(Handler)
        BY <1>1
    <2>2. <<"release", o>> \in Handler
        BY Zenon DEF Handler, Timer
    <2>3. Append(handlers, <<"release", o>>) = handlers \o <<<<"release", o>>>> /\ <<<<"release", o>>>> \in Seq(Handler)
        BY <1>1, <2>2, SMTT(40)
    <2> QED BY <2>1, <2>3, Zenon DEF ObjectStep, ObjectCreate, ObjectStart, ObjectRead, ObjectArmTimer, ObjectStop
<1>4. handlers' \in Seq(Handler) /\ \A p : Posted(p) => Posted(p)'
    BY <1>1, <1>3, AppendKeeps, Zenon
<1>5. /\ opc' \in [Object -> {"new", "made", "up", "gone"}] /\ objects_' \subseteq Object
      /\ (\A p \in Object : opc[p] = "gone" => opc'[p] = "gone") /\ objects_ \subseteq objects_'
    BY <1>1, Zenon DEF Types, ObjectStep, ObjectCreate, ObjectStart, ObjectRead, ObjectArmTimer, ObjectStop, registries
<1>6. armed' \subseteq Timer /\ timers_' \subseteq Timer
    BY <1>1, Zenon DEF Types, Timer, ObjectStep, ObjectCreate, ObjectStart, ObjectRead, ObjectArmTimer, ObjectStop, registries, timerState
<1>7. Types'
    BY <1>1, <1>2, <1>4, <1>5, <1>6, Zenon DEF Types
<1> QED BY <1>2, <1>4, <1>5, <1>7, QuietStep, Zenon

(* The caller that does the work goes on: it alone decides where stop() is. *)
LEMMA StopMoves ==
    ASSUME PoolInv, NEW s \in Stopper, spc[s] \notin {"idle", "returned"},
           NEW place \in AfterWake, spc' = [spc EXCEPT ![s] = place], UNCHANGED stopping_
    PROVE  /\ OneStops' /\ stopping_ /\ spc' \in [Stopper -> Places]
           /\ \A P \in SUBSET ({"wake"} \cup AfterWake) : (At(P) <=> spc[s] \in P) /\ (At(P)' <=> place \in P)
<1>1. /\ spc \in [Stopper -> Places] /\ place \in Places /\ place \notin {"idle", "returned"} /\ stopping_
      /\ \A r \in Stopper : r # s => spc[r] \in {"idle", "returned"}
    BY Zenon DEF PoolInv, Types, OneStops, Places, AfterWake
<1>2. spc' \in [Stopper -> Places] /\ spc'[s] = place /\ \A r \in Stopper : r # s => spc'[r] = spc[r]
    BY <1>1, Zenon
<1>3. OneStops'
    BY <1>1, <1>2, Zenon DEF OneStops
<1>4. \A P \in SUBSET ({"wake"} \cup AfterWake) : "idle" \notin P /\ "returned" \notin P
    BY Zenon DEF AfterWake
<1>5. ASSUME NEW P \in SUBSET ({"wake"} \cup AfterWake)
      PROVE  (At(P) <=> spc[s] \in P) /\ (At(P)' <=> place \in P)
    BY <1>1, <1>2, <1>4, Zenon DEF At
<1> QED BY <1>1, <1>2, <1>3, <1>5, Zenon

LEMMA StopBeginStep == ASSUME PoolInv, NEW s \in Stopper, StopBegin(s) PROVE PoolInv'
<1>1. /\ spc[s] = "idle" /\ stopping_' = TRUE /\ Types
      /\ UNCHANGED <<handlers, objects_, timers_, armed, wait_stop_timer_, work_, stopped, opc, toDrive>>
    BY Zenon DEF StopBegin, PoolInv, registries, timerState
<1>2. CASE stopping_
    <2>1. spc' = [spc EXCEPT ![s] = "returned"] /\ before' = before
        BY <1>2, Zenon DEF StopBegin
    <2>2. spc' \in [Stopper -> Places] /\ spc'[s] = "returned" /\ \A r \in Stopper : r # s => spc'[r] = spc[r]
        BY <1>1, <2>1, Zenon DEF Types, Places
    <2>3. Types'
        BY <1>1, <2>1, <2>2, Zenon DEF Types
    <2>4. OneStops'
        BY <1>1, <2>2, Zenon DEF PoolInv, OneStops
    <2>5. \A P : "idle" \notin P /\ "returned" \notin P => (At(P)' <=> At(P))
        BY <1>1, <2>2, Zenon DEF At
    <2>6. (At({"join", "done"})' <=> At({"join", "done"})) /\ (At({"done"})' <=> At({"done"}))
          /\ (At({"call"})' <=> At({"call"})) /\ (At({"wake", "drive"})' <=> At({"wake", "drive"}))
        BY <2>5, Zenon
    <2>7. GuardLast'
        BY <1>1, <2>6, Zenon DEF PoolInv, GuardLast
    <2>8. OnItsWay'
        BY <1>1, <1>2, <2>1, <2>6, Zenon DEF PoolInv, OnItsWay, Posted
    <2> QED BY <2>3, <2>4, <2>7, <2>8, Zenon DEF PoolInv
<1>3. CASE ~stopping_
    <2>1. spc' = [spc EXCEPT ![s] = "wake"] /\ before' = objects_ /\ \A r \in Stopper : spc[r] = "idle"
        BY <1>3, Zenon DEF StopBegin, PoolInv, OneStops
    <2>2. spc' \in [Stopper -> Places] /\ spc'[s] = "wake" /\ \A r \in Stopper : r # s => spc'[r] = "idle"
        BY <1>1, <2>1, Zenon DEF Types, Places
    <2>3. Types'
        BY <1>1, <2>1, <2>2, Zenon DEF Types
    <2>4. OneStops'
        BY <1>1, <2>2, Zenon DEF OneStops
    <2>5. ~At({"join", "done"}) /\ ~At({"done"})' /\ At({"wake", "drive"})'
        BY <2>1, <2>2, Zenon DEF At
    <2>6. work_ /\ ~stopped
        BY <2>5, Zenon DEF PoolInv, GuardLast
    <2>7. GuardLast'
        BY <1>1, <2>5, <2>6, Zenon DEF GuardLast
    <2>8. OnItsWay'
        BY <1>1, <2>1, <2>5, <2>6, Zenon DEF OnItsWay
    <2> QED BY <2>3, <2>4, <2>7, <2>8, Zenon DEF PoolInv
<1> QED BY <1>2, <1>3, Zenon

(* wake, drive and call: what is posted stays posted, and each step hands   *)
(* the objects on.                                                          *)
LEMMA StopDrivesStep ==
    ASSUME PoolInv, NEW s \in Stopper, StopWakeWaitStop(s) \/ StopDriveObjects(s) \/ StopCallOnStop(s) \/ StopCancelTimers(s)
    PROVE  PoolInv'
<1>1. /\ Types /\ handlers \in Seq(Handler) /\ spc \in [Stopper -> Places]
      /\ UNCHANGED <<stopping_, wait_stop_timer_, work_, stopped, opc, before>>
    BY Zenon DEF PoolInv, Types, StopWakeWaitStop, StopDriveObjects, StopCallOnStop, StopCancelTimers, registries, timerState, history
<1>2. spc[s] \in {"wake", "drive", "call"}
    BY Zenon DEF StopWakeWaitStop, StopDriveObjects, StopCallOnStop, StopCancelTimers
<1>3. PICK place \in {"drive", "call", "release"} :
          /\ spc' = [spc EXCEPT ![s] = place]
          /\ spc[s] = "wake" => place = "drive"
          /\ spc[s] = "drive" => place = "call"
          /\ spc[s] = "call" => (place = "call" /\ StopCallOnStop(s)) \/ (place = "release" /\ StopCancelTimers(s))
    <2>1. CASE StopWakeWaitStop(s)
        BY <2>1, Zenon DEF StopWakeWaitStop
    <2>2. CASE StopDriveObjects(s)
        BY <2>2, Zenon DEF StopDriveObjects
    <2>3. CASE StopCallOnStop(s)
        <3>1. spc' = [spc EXCEPT ![s] = "call"] /\ spc[s] = "call"
            BY <1>1, <2>3, Zenon DEF StopCallOnStop
        <3> QED BY <2>3, <3>1, Zenon
    <2>4. CASE StopCancelTimers(s)
        <3>1. spc' = [spc EXCEPT ![s] = "release"] /\ spc[s] = "call"
            BY <2>4, Zenon DEF StopCancelTimers
        <3> QED BY <2>4, <3>1, Zenon
    <2> QED BY <2>1, <2>2, <2>3, <2>4, Zenon
<1>4. /\ OneStops' /\ stopping_ /\ spc' \in [Stopper -> Places]
      /\ \A P \in SUBSET ({"wake"} \cup AfterWake) : (At(P) <=> spc[s] \in P) /\ (At(P)' <=> place \in P)
    <2>1. place \in AfterWake /\ spc[s] \notin {"idle", "returned"} /\ spc' = [spc EXCEPT ![s] = place]
        BY <1>2, <1>3, Zenon DEF AfterWake
    <2> QED BY <1>1, <2>1, StopMoves, Zenon
<1>5. /\ ~At({"join", "done"}) /\ ~At({"done"})'
      /\ (At({"call"}) <=> spc[s] = "call") /\ (At({"call"})' <=> place = "call")
      /\ (At({"wake", "drive"}) <=> spc[s] \in {"wake", "drive"}) /\ (At({"wake", "drive"})' <=> place = "drive")
    <2>1. /\ {"join", "done"} \in SUBSET ({"wake"} \cup AfterWake) /\ {"done"} \in SUBSET ({"wake"} \cup AfterWake)
          /\ {"call"} \in SUBSET ({"wake"} \cup AfterWake) /\ {"wake", "drive"} \in SUBSET ({"wake"} \cup AfterWake)
        BY Zenon DEF AfterWake
    <2> QED BY <1>2, <1>3, <1>4, <2>1, Zenon
<1>6. work_ /\ ~stopped
    BY <1>5, Zenon DEF PoolInv, GuardLast
<1>7. GuardLast'
    BY <1>1, <1>5, <1>6, Zenon DEF GuardLast
<1>8. PICK x \in Seq(Handler) : handlers' = handlers \o x
    <2>1. handlers \o <<>> = handlers /\ <<>> \in Seq(Handler)
        BY <1>1
    <2>2. \A y \in Handler : Append(handlers, y) = handlers \o <<y>> /\ <<y>> \in Seq(Handler)
        BY <1>1
    <2>3. <<"wake", None>> \in Handler /\ \A o \in toDrive : <<"release", o>> \in Handler
        BY <1>1, Zenon DEF Types, Handler, Timer
    <2> QED BY <1>1, <2>1, <2>2, <2>3, CancelledType, Zenon
            DEF StopWakeWaitStop, StopDriveObjects, StopCallOnStop, StopCancelTimers
<1>9. handlers' \in Seq(Handler) /\ \A o : Posted(o) => Posted(o)'
    BY <1>1, <1>8, AppendKeeps, Zenon
<1>10. /\ armed' \subseteq Timer /\ timers_' \subseteq Timer /\ objects_' \subseteq Object /\ toDrive' \subseteq Object
    BY <1>1, Zenon DEF Types, StopWakeWaitStop, StopDriveObjects, StopCallOnStop, StopCancelTimers, registries, timerState
<1>11. Types'
    BY <1>1, <1>4, <1>9, <1>10, Zenon DEF Types
<1>12. \A o \in before : opc[o] = "gone" \/ Posted(o)' \/ (o \in toDrive' /\ place = "call") \/ (o \in objects_' /\ place = "drive")
    <2> SUFFICES ASSUME NEW o \in before, opc[o] # "gone", ~Posted(o)'
                 PROVE  (o \in toDrive' /\ place = "call") \/ (o \in objects_' /\ place = "drive")
        BY Zenon
    <2>1. (o \in toDrive /\ spc[s] = "call") \/ (o \in objects_ /\ spc[s] \in {"wake", "drive"})
        BY <1>5, <1>9, Zenon DEF PoolInv, OnItsWay
    <2>2. CASE spc[s] = "wake"
        BY <1>3, <2>1, <2>2, Zenon DEF StopWakeWaitStop, StopDriveObjects, StopCallOnStop, StopCancelTimers, registries
    <2>3. CASE spc[s] = "drive"
        BY <1>3, <2>1, <2>3, Zenon DEF StopWakeWaitStop, StopDriveObjects, StopCallOnStop, StopCancelTimers
    <2>4. CASE spc[s] = "call" /\ StopCallOnStop(s) /\ place = "call"
        <3>1. PICK p \in toDrive : toDrive' = toDrive \ {p} /\ handlers' = Append(handlers, <<"release", p>>)
            BY <2>4, Zenon DEF StopCallOnStop
        <3>2. Posted(p)'
            <4>1. <<"release", p>> \in Handler
                BY <1>1, <3>1, Zenon DEF Types, Handler, Timer
            <4>2. Len(handlers') = Len(handlers) + 1 /\ Len(handlers) \in Nat /\ handlers'[Len(handlers) + 1] = <<"release", p>>
                BY <1>1, <3>1, <4>1, AppendLast, Zenon DEF Types
            <4>3. Len(handlers) + 1 \in 1..Len(handlers')
                BY <4>2
            <4> QED BY <4>2, <4>3, Zenon DEF Posted
        <3> QED BY <2>1, <2>4, <3>1, <3>2, Zenon
    <2>5. CASE spc[s] = "call" /\ StopCancelTimers(s)
        BY <2>1, <2>5, Zenon DEF StopCancelTimers
    <2> QED BY <1>2, <1>3, <2>2, <2>3, <2>4, <2>5, Zenon
<1>13. OnItsWay'
    BY <1>1, <1>4, <1>5, <1>6, <1>12, Zenon DEF OnItsWay
<1> QED BY <1>4, <1>7, <1>11, <1>13, Zenon DEF PoolInv

LEMMA StopEndsStep == ASSUME PoolInv, NEW s \in Stopper, StopReleaseWork(s) \/ StopJoin(s) PROVE PoolInv'
<1>1. /\ Types /\ spc \in [Stopper -> Places]
      /\ UNCHANGED <<stopping_, handlers, objects_, timers_, armed, wait_stop_timer_, stopped, opc, toDrive, before>>
    BY Zenon DEF PoolInv, Types, StopReleaseWork, StopJoin, registries, timerState, history
<1>2. spc[s] \in {"release", "join"}
    BY Zenon DEF StopReleaseWork, StopJoin
<1>3. PICK place \in {"join", "done"} :
          /\ spc' = [spc EXCEPT ![s] = place]
          /\ place = "done" => stopped /\ work_' = work_
    BY Zenon DEF StopReleaseWork, StopJoin
<1>4. /\ OneStops' /\ stopping_ /\ spc' \in [Stopper -> Places]
      /\ \A P \in SUBSET ({"wake"} \cup AfterWake) : (At(P) <=> spc[s] \in P) /\ (At(P)' <=> place \in P)
    <2>1. place \in AfterWake /\ spc[s] \notin {"idle", "returned"} /\ spc' = [spc EXCEPT ![s] = place]
        BY <1>2, <1>3, Zenon DEF AfterWake
    <2> QED BY <1>1, <2>1, StopMoves, Zenon
<1>5. /\ At({"join", "done"})' /\ (At({"done"})' <=> place = "done")
      /\ ~At({"call"}) /\ ~At({"wake", "drive"})
    <2>1. /\ {"join", "done"} \in SUBSET ({"wake"} \cup AfterWake) /\ {"done"} \in SUBSET ({"wake"} \cup AfterWake)
          /\ {"call"} \in SUBSET ({"wake"} \cup AfterWake) /\ {"wake", "drive"} \in SUBSET ({"wake"} \cup AfterWake)
        BY Zenon DEF AfterWake
    <2> QED BY <1>2, <1>3, <1>4, <2>1, Zenon
<1>6. stopped => ~work_'
    BY Zenon DEF PoolInv, GuardLast, StopReleaseWork, StopJoin
<1>7. GuardLast'
    BY <1>1, <1>3, <1>5, <1>6, Zenon DEF GuardLast
<1>8. Types'
    BY <1>1, <1>4, Zenon DEF Types
<1>9. OnItsWay'
    BY <1>1, <1>5, Zenon DEF PoolInv, OnItsWay, Posted
<1> QED BY <1>4, <1>7, <1>8, <1>9, Zenon DEF PoolInv

(* run() returns with nothing posted, after the guard has been given up.    *)
LEMMA RunReturnsStep == ASSUME PoolInv, RunReturns PROVE PoolInv'
<1>1. /\ ~work_ /\ handlers = <<>> /\ stopped' = TRUE
      /\ UNCHANGED <<stopping_, handlers, objects_, timers_, armed, wait_stop_timer_, work_, spc, opc, toDrive, before>>
    BY Zenon DEF RunReturns, registries, timerState, history
<1>2. PICK s \in Stopper : spc[s] \in {"join", "done"}
    BY <1>1, Zenon DEF PoolInv, GuardLast, At
<1>3. \A r \in Stopper : spc[r] \notin {"wake", "drive", "call"}
    BY <1>2, Zenon DEF PoolInv, OneStops
<1>4. \A o \in before : opc[o] = "gone"
    <2>1. \A o : ~Posted(o)
        BY <1>1 DEF Posted
    <2>2. ~At({"call"}) /\ ~At({"wake", "drive"})
        BY <1>3, Zenon DEF At
    <2> QED BY <2>1, <2>2, Zenon DEF PoolInv, OnItsWay
<1>5. Types'
    BY <1>1, Zenon DEF PoolInv, Types
<1>6. OneStops'
    BY <1>1, Zenon DEF PoolInv, OneStops
<1>7. GuardLast'
    BY <1>1, Zenon DEF PoolInv, GuardLast, At
<1>8. OnItsWay'
    BY <1>1, <1>4, Zenon DEF PoolInv, OnItsWay
<1> QED BY <1>5, <1>6, <1>7, <1>8, Zenon DEF PoolInv

LEMMA PoolStep == PoolInv /\ [PoolNext]_poolVars => PoolInv'
<1> SUFFICES ASSUME PoolInv, [PoolNext]_poolVars PROVE PoolInv'
    BY Zenon
<1>1. CASE RunHandler
    BY <1>1, RunHandlerStep, Zenon
<1>2. CASE RunReturns
    BY <1>2, RunReturnsStep, Zenon
<1>3. ASSUME NEW w \in Waiter, WaitStep(w) PROVE PoolInv'
    BY <1>3, WaitStepKeeps, Zenon
<1>4. ASSUME NEW s \in Stopper, StopStep(s) PROVE PoolInv'
    BY <1>4, StopBeginStep, StopDrivesStep, StopEndsStep, Zenon DEF StopStep
<1>5. ASSUME NEW o \in Object, ObjectStep(o) PROVE PoolInv'
    BY <1>5, ObjectStepKeeps, Zenon
<1>6. CASE UNCHANGED poolVars
    <2>1. UNCHANGED <<stopping_, handlers, objects_, timers_, armed, wait_stop_timer_, work_, stopped, spc, opc, toDrive, before>>
        BY <1>6, Zenon DEF poolVars, registries, timerState, history
    <2>2. Types'
        BY <2>1, Zenon DEF PoolInv, Types
    <2>3. \A o : Posted(o) => Posted(o)'
        BY <2>1, Zenon DEF Posted
    <2> QED BY <2>1, <2>2, <2>3, QuietStep, Zenon
<1> QED BY <1>1, <1>2, <1>3, <1>4, <1>5, <1>6, Zenon DEF PoolNext

(* io_context_pool.cpp, stop(): whatever the threads that wait and stop and *)
(* whatever the objects do, when stop() returns every object that was       *)
(* registered when it began has run its close sequence on the io thread.    *)
THEOREM StopIsOrderly == PoolSpec => []StopReleasesObjects
<1>1. PoolInv => StopReleasesObjects
    BY Zenon DEF PoolInv, GuardLast, OnItsWay, StopReleasesObjects
<1> QED
    BY <1>1, PoolInitInv, PoolStep, PTL DEF PoolSpec

=============================================================================
