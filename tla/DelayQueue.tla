----------------------------- MODULE DelayQueue -----------------------------
(***************************************************************************)
(* Fundamental::DelayQueue (src/fundamental/delay_queue): sessions created *)
(* by AddDelayTask live in taskStorage; the working ones are also entered  *)
(* in processingTasks, an ordered map keyed by (nextTimeout, token).       *)
(* Every operation below is one critical section under dataMutex, so it is *)
(* one action.  HandleEvent is not: it reads the clock before it takes the *)
(* mutex and runs the callbacks after it has released it, so each thread   *)
(* that calls it takes three kinds of step.                                *)
(*                                                                         *)
(* A session is named by its address.  A handle (a weak_ptr) of a released *)
(* session is expired for ever, so an operation on one returns early and   *)
(* changes nothing; it is a stuttering step and has no action.             *)
(***************************************************************************)
EXTENDS Integers, FiniteSets

CONSTANTS
    Session,      \* addresses a DelayTaskSession can have
    Interval,     \* values of intervalMs callers pass, negative ones included
    Shift,        \* values of modify_value_ms callers pass
    Dispatcher,   \* threads that call HandleEvent
    MaxTime,      \* bound: the last value of the steady clock
    MaxTimeout    \* bound: the largest |nextTimeout| a caller shifts to

ASSUME DelayQueueAssumption ==
    /\ Interval \subseteq Int
    /\ Shift \subseteq Int
    /\ MaxTime \in Nat
    /\ MaxTimeout \in Nat

VARIABLES
    taskStorage,      \* addresses of the live sessions
    processingTasks,  \* the keys <<nextTimeout, token>> of the ordered map
    interval, nextTimeout, bSingle, bWorking, bAutoReleased,  \* session fields
    clock,            \* Timer::GetTimeNow
    pc,               \* where each dispatcher stands in HandleEvent
    now,              \* HandleEvent's local copy of the clock
    expiredTasks      \* HandleEvent's local list: keys of the callbacks to run

fields == <<interval, nextTimeout, bSingle, bWorking, bAutoReleased>>
locals == <<pc, now, expiredTasks>>
vars == <<taskStorage, processingTasks, fields, clock, locals>>

Key(s) == <<nextTimeout[s], s>>

Init ==
    /\ taskStorage = {}
    /\ processingTasks = {}
    /\ interval = [s \in Session |-> 0]
    /\ nextTimeout = [s \in Session |-> 0]
    /\ bSingle = [s \in Session |-> FALSE]
    /\ bWorking = [s \in Session |-> FALSE]
    /\ bAutoReleased = [s \in Session |-> TRUE]
    /\ clock = 0
    /\ pc = [d \in Dispatcher |-> "idle"]
    /\ now = [d \in Dispatcher |-> 0]
    /\ expiredTasks = [d \in Dispatcher |-> {}]

-----------------------------------------------------------------------------
(* A session at an address no live session has; it does not start itself.  *)
AddDelayTask(s, i, single, auto) ==
    /\ i >= 0
    /\ s \notin taskStorage
    /\ taskStorage' = taskStorage \cup {s}
    /\ interval' = [interval EXCEPT ![s] = i]
    /\ nextTimeout' = [nextTimeout EXCEPT ![s] = 0]
    /\ bSingle' = [bSingle EXCEPT ![s] = single]
    /\ bWorking' = [bWorking EXCEPT ![s] = FALSE]
    /\ bAutoReleased' = [bAutoReleased EXCEPT ![s] = auto]
    /\ UNCHANGED <<processingTasks, clock, locals>>

StartDelayTask(s) ==
    /\ s \in taskStorage
    /\ ~bWorking[s]
    /\ bWorking' = [bWorking EXCEPT ![s] = TRUE]
    /\ nextTimeout' = [nextTimeout EXCEPT ![s] = clock + interval[s]]
    /\ processingTasks' = processingTasks \cup {<<clock + interval[s], s>>}
    /\ UNCHANGED <<taskStorage, interval, bSingle, bAutoReleased, clock, locals>>

StopDelayTask(s) ==
    /\ s \in taskStorage
    /\ bWorking[s]
    /\ bWorking' = [bWorking EXCEPT ![s] = FALSE]
    /\ processingTasks' = processingTasks \ {Key(s)}
    /\ taskStorage' = IF bAutoReleased[s] THEN taskStorage \ {s} ELSE taskStorage
    /\ UNCHANGED <<interval, nextTimeout, bSingle, bAutoReleased, clock, locals>>

RestartDelayTask(s) ==
    /\ s \in taskStorage
    /\ bWorking' = [bWorking EXCEPT ![s] = TRUE]
    /\ nextTimeout' = [nextTimeout EXCEPT ![s] = clock + interval[s]]
    /\ processingTasks' = (processingTasks \ {Key(s)})
                              \cup {<<clock + interval[s], s>>}
    /\ UNCHANGED <<taskStorage, interval, bSingle, bAutoReleased, clock, locals>>

RemoveStorageOnly(s) ==
    /\ s \in taskStorage
    /\ taskStorage' = taskStorage \ {s}
    /\ UNCHANGED <<processingTasks, fields, clock, locals>>

RemoveDelayTask(s) ==
    /\ s \in taskStorage
    /\ processingTasks' = processingTasks \ {Key(s)}
    /\ taskStorage' = taskStorage \ {s}
    /\ UNCHANGED <<fields, clock, locals>>

UpdateTaskInterval(s, i) ==
    /\ s \in taskStorage
    /\ interval' = [interval EXCEPT ![s] = i]
    /\ UNCHANGED <<taskStorage, processingTasks, nextTimeout, bSingle, bWorking,
                   bAutoReleased, clock, locals>>

ModifyTaskNextExpiredTimepoint(s, shift) ==
    /\ s \in taskStorage
    /\ bWorking[s]
    /\ nextTimeout[s] + shift \in -MaxTimeout..MaxTimeout
    /\ nextTimeout' = [nextTimeout EXCEPT ![s] = @ + shift]
    /\ processingTasks' = (processingTasks \ {Key(s)})
                              \cup {<<nextTimeout[s] + shift, s>>}
    /\ UNCHANGED <<taskStorage, interval, bSingle, bWorking, bAutoReleased,
                   clock, locals>>

-----------------------------------------------------------------------------
(* HandleEvent, step 1: the clock is read without the mutex. *)
HandleEventBegin(d) ==
    /\ pc[d] = "idle"
    /\ pc' = [pc EXCEPT ![d] = "collect"]
    /\ now' = [now EXCEPT ![d] = clock]
    /\ UNCHANGED <<taskStorage, processingTasks, fields, clock, expiredTasks>>

Expired(d) == {e \in processingTasks : e[1] <= now[d]}
ExpiredSessions(d) == {e[2] : e \in Expired(d)}
Repeats(s) == bWorking[s] /\ ~bSingle[s]

CollectKeepingSingle(d) ==
    /\ pc[d] = "collect"
    /\ LET again == ExpiredSessions(d) IN
       /\ nextTimeout' = [s \in Session |-> IF s \in again
                                            THEN clock + interval[s]
                                            ELSE nextTimeout[s]]
       /\ processingTasks' = (processingTasks \ Expired(d))
                              \cup {<<clock + interval[s], s>> : s \in again}
    /\ expiredTasks' = [expiredTasks EXCEPT ![d] = Expired(d)]
    /\ pc' = [pc EXCEPT ![d] = "run"]
    /\ UNCHANGED <<taskStorage, interval, bSingle, bWorking, bAutoReleased, clock, now>>

(* HandleEvent, step 2: one critical section takes every expired entry out  *)
(* of the map, re-enters the repeating sessions and releases the others.    *)
HandleEventCollect(d) ==
    LET taken == ExpiredSessions(d)
        again == {s \in taken : Repeats(s)} IN
    /\ pc[d] = "collect"
    /\ bWorking' = [s \in Session |-> bWorking[s] /\ ~(s \in taken /\ bSingle[s])]
    /\ nextTimeout' = [s \in Session |-> IF s \in again
                                         THEN clock + interval[s]
                                         ELSE nextTimeout[s]]
    /\ processingTasks' = (processingTasks \ Expired(d))
                              \cup {<<clock + interval[s], s>> : s \in again}
    /\ taskStorage' = taskStorage \ {s \in taken \ again : bAutoReleased[s]}
    /\ expiredTasks' = [expiredTasks EXCEPT ![d] = Expired(d)]
    /\ pc' = [pc EXCEPT ![d] = "run"]
    /\ UNCHANGED <<interval, bSingle, bAutoReleased, clock, now>>

(* HandleEvent, step 3: the callbacks run one by one, in the order of their *)
(* keys, without the mutex; ties are broken by address, which is arbitrary. *)
HandleEventRun(d) ==
    /\ pc[d] = "run"
    /\ \E e \in expiredTasks[d] :
          /\ \A f \in expiredTasks[d] : e[1] <= f[1]
          /\ expiredTasks' = [expiredTasks EXCEPT ![d] = @ \ {e}]
    /\ UNCHANGED <<taskStorage, processingTasks, fields, clock, pc, now>>

HandleEventEnd(d) ==
    /\ pc[d] = "run"
    /\ expiredTasks[d] = {}
    /\ pc' = [pc EXCEPT ![d] = "idle"]
    /\ now' = [now EXCEPT ![d] = 0]
    /\ UNCHANGED <<taskStorage, processingTasks, fields, clock, expiredTasks>>

HandleEventStep(d) ==
    \/ HandleEventBegin(d)
    \/ HandleEventCollect(d)
    \/ HandleEventRun(d)
    \/ HandleEventEnd(d)

Tick ==
    /\ clock < MaxTime
    /\ clock' = clock + 1
    /\ UNCHANGED <<taskStorage, processingTasks, fields, locals>>

(* What any thread, a callback included, may call.  The calls that may       *)
(* change the map announce themselves to stateCb before they take dataMutex. *)
AnnouncedCall ==
    \E s \in Session :
        \/ \E i \in Interval, single, auto \in BOOLEAN :
               AddDelayTask(s, i, single, auto)
        \/ StartDelayTask(s)
        \/ StopDelayTask(s)
        \/ RestartDelayTask(s)
        \/ RemoveDelayTask(s)
        \/ \E shift \in Shift : ModifyTaskNextExpiredTimepoint(s, shift)

SilentCall == \E s \in Session, i \in Interval : UpdateTaskInterval(s, i)

Call == AnnouncedCall \/ SilentCall

Next == Tick \/ Call \/ \E d \in Dispatcher : HandleEventStep(d)

Spec == Init /\ [][Next]_vars

-----------------------------------------------------------------------------
TypeOK ==
    /\ taskStorage \subseteq Session
    /\ processingTasks \subseteq Int \X Session
    /\ interval \in [Session -> Int]
    /\ nextTimeout \in [Session -> Int]
    /\ bSingle \in [Session -> BOOLEAN]
    /\ bWorking \in [Session -> BOOLEAN]
    /\ bAutoReleased \in [Session -> BOOLEAN]
    /\ clock \in Nat
    /\ pc \in [Dispatcher -> {"idle", "collect", "run"}]
    /\ now \in [Dispatcher -> Nat]
    /\ expiredTasks \in [Dispatcher -> SUBSET (Int \X Session)]

(* The map and the sessions agree: the entries of processingTasks are       *)
(* exactly the keys of the live working sessions.  HandleEvent dereferences *)
(* the session of every entry without a check (delay_queue.cpp:220), and    *)
(* every erase recomputes the key from nextTimeout, so an entry that        *)
(* outlived its session, or whose key went stale, would crash or never go.  *)
QueueMatchesSessions ==
    processingTasks = {Key(s) : s \in {x \in taskStorage : bWorking[x]}}

Taken(s) ==
    \E d \in Dispatcher : pc[d] = "collect" /\ \E e \in expiredTasks'[d] : e[2] = s

(* A callback is taken for execution only for a live working session whose  *)
(* time has come.  Taking it leaves a single-shot session out of the map    *)
(* and enters a repeating one exactly once, one interval after the time of  *)
(* the step: a stopped, removed or already fired single-shot task is never  *)
(* fired by HandleEvent, and a repeating one is not fired twice.            *)
FiresOnlyWhenDue ==
    [][\A s \in Session : Taken(s) =>
          /\ s \in taskStorage /\ bWorking[s] /\ nextTimeout[s] <= clock
          /\ {e \in processingTasks' : e[2] = s}
                = IF bSingle[s] THEN {} ELSE {<<clock + interval[s], s>>}
      ]_vars

Due(s) == s \in taskStorage /\ bWorking[s] /\ nextTimeout[s] <= clock

=============================================================================
