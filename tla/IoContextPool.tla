---------------------------- MODULE IoContextPool ----------------------------
(***************************************************************************)
(* network::io_context_pool: graceful stop of the io threads.  Threads     *)
(* block in wait_stop(), others call stop(), and asynchronous objects      *)
(* register their release callback (reg_object) and their timers           *)
(* (reg_timer) so that stop() can end them.                                *)
(*                                                                         *)
(* One io_context is modelled, the one wait_stop uses; its thread runs the *)
(* posted handlers in order.  A timer is named by its owner: a waiter's    *)
(* wait_stop_timer_ or an object's member.  An object's own operations are *)
(* a timer wait and a socket read, either of which keeps run() from        *)
(* returning; its release callback posts the close sequence.               *)
(***************************************************************************)
EXTENDS Naturals, Sequences, SequencesExt, FiniteSets

CONSTANTS
    Waiter,   \* threads that call wait_stop
    Stopper,  \* threads that call stop
    Object,   \* asynchronous objects
    None      \* no timer in wait_stop_timer_

ASSUME IoContextPoolAssumption ==
    /\ Waiter \cap Object = {} /\ None \notin Waiter
    /\ IsFiniteSet(Waiter) /\ IsFiniteSet(Object)

VARIABLES
    stopping_,
    handlers,          \* handlers posted to io_contexts_[0], oldest first
    wait_stop_timer_,  \* the waiter whose timer it holds, or None
    timers_,           \* the registry of timer pointers
    objects_,          \* the registry of objects
    live,              \* timers that exist
    armed,             \* timers with a wait outstanding
    reading,           \* objects with a read outstanding
    work_,             \* the work guard is held
    stopped,           \* io_context::stopped()
    wpc, spc, opc,     \* where the waiters, stoppers and objects stand
    toDrive,           \* the local map of drive_registered_objects
    before,            \* history: objects registered when stop() began
    late               \* history: an arrival stop() had already passed by

registries == <<timers_, objects_>>
timerState == <<wait_stop_timer_, live, armed>>
history == <<before, late>>
poolVars == <<stopping_, handlers, registries, timerState, reading, work_, stopped,
          wpc, spc, opc, toDrive, history>>

PoolInit ==
    /\ stopping_ = FALSE
    /\ handlers = <<>>
    /\ wait_stop_timer_ = None
    /\ timers_ = {} /\ objects_ = {}
    /\ live = {} /\ armed = {} /\ reading = {}
    /\ work_ = TRUE
    /\ stopped = FALSE
    /\ wpc = [w \in Waiter |-> "idle"]
    /\ spc = [s \in Stopper |-> "idle"]
    /\ opc = [o \in Object |-> "new"]
    /\ toDrive = {}
    /\ before = {}
    /\ late = FALSE

At(places) == \E s \in Stopper : spc[s] \in places
AfterWake == {"drive", "call", "release", "join", "done"}
AfterDrive == {"call", "release", "join", "done"}

(* The completion handlers a cancel of the timers T queues. *)
Cancelled(T) == SetToSeq({<<"fire", t>> : t \in T \cap armed})

-----------------------------------------------------------------------------
(* wait_stop *)
WaitStopCheck(w) ==
    /\ wpc[w] = "idle"
    /\ wpc' = [wpc EXCEPT ![w] = IF stopping_ THEN "returned" ELSE "checked"]
    /\ UNCHANGED <<stopping_, handlers, registries, timerState, reading, work_,
                   stopped, spc, opc, toDrive, history>>

WaitStopPost(w) ==
    /\ wpc[w] = "checked"
    /\ wpc' = [wpc EXCEPT ![w] = "blocked"]
    /\ handlers' = Append(handlers, <<"arm", w>>)
    /\ late' = (late \/ At(AfterWake))
    /\ UNCHANGED <<stopping_, registries, timerState, reading, work_, stopped,
                   spc, opc, toDrive, before>>

-----------------------------------------------------------------------------
(* The handlers the io thread runs. *)

(* wait_stop's handler replaces the timer; nobody unregisters the old one. *)
RunArm(w) ==
    LET old == {wait_stop_timer_} \ {None} IN
    /\ handlers' = Tail(handlers) \o Cancelled(old)
    /\ wait_stop_timer_' = w
    /\ live' = (live \ old) \cup {w}
    /\ armed' = (armed \ old) \cup {w}
    /\ timers_' = timers_ \cup {w}
    /\ UNCHANGED <<objects_, reading, wpc, opc>>

RunWake ==
    LET old == {wait_stop_timer_} \ {None} IN
    /\ handlers' = Tail(handlers) \o Cancelled(old)
    /\ wait_stop_timer_' = None
    /\ live' = live \ old
    /\ armed' = armed \ old
    /\ UNCHANGED <<registries, reading, wpc, opc>>

(* A waiter's future becomes ready; an object's handler sees the error.    *)
RunFire(t) ==
    /\ handlers' = Tail(handlers)
    /\ wpc' = IF t \in Waiter THEN [wpc EXCEPT ![t] = "returned"] ELSE wpc
    /\ UNCHANGED <<registries, timerState, reading, opc>>

(* The close sequence and the destructor of an object.                     *)
RunRelease(o) ==
    /\ handlers' = Tail(handlers) \o Cancelled({o})
    /\ opc' = [opc EXCEPT ![o] = "gone"]
    /\ objects_' = objects_ \ {o}
    /\ timers_' = timers_ \ {o}
    /\ live' = live \ {o}
    /\ armed' = armed \ {o}
    /\ reading' = reading \ {o}
    /\ UNCHANGED <<wait_stop_timer_, wpc>>

RunHandler ==
    /\ ~stopped
    /\ handlers # <<>>
    /\ LET h == Head(handlers) IN
       \/ h[1] = "arm" /\ RunArm(h[2])
       \/ h[1] = "wake" /\ RunWake
       \/ h[1] = "fire" /\ RunFire(h[2])
       \/ h[1] = "release" /\ RunRelease(h[2])
    /\ UNCHANGED <<stopping_, work_, stopped, spc, toDrive, history>>

(* run() returns when there is neither work guard nor work.                *)
RunReturns ==
    /\ ~stopped
    /\ ~work_
    /\ handlers = <<>> /\ armed = {} /\ reading = {}
    /\ stopped' = TRUE
    /\ UNCHANGED <<stopping_, handlers, registries, timerState, reading, work_,
                   wpc, spc, opc, toDrive, history>>

-----------------------------------------------------------------------------
(* Objects: the constructor registers the timer, start() the object.       *)
ObjectCreate(o) ==
    /\ opc[o] = "new"
    /\ opc' = [opc EXCEPT ![o] = "made"]
    /\ timers_' = timers_ \cup {o}
    /\ live' = live \cup {o}
    /\ UNCHANGED <<stopping_, handlers, wait_stop_timer_, objects_, armed,
                   reading, work_, stopped, wpc, spc, toDrive, history>>

ObjectStart(o) ==
    /\ opc[o] = "made"
    /\ opc' = [opc EXCEPT ![o] = "up"]
    /\ objects_' = objects_ \cup {o}
    /\ late' = (late \/ At(AfterDrive))
    /\ UNCHANGED <<stopping_, handlers, timers_, timerState, reading, work_,
                   stopped, wpc, spc, toDrive, before>>

ObjectRead(o) ==
    /\ opc[o] = "up"
    /\ reading' = reading \cup {o}
    /\ UNCHANGED <<stopping_, handlers, registries, timerState, work_, stopped,
                   wpc, spc, opc, toDrive, history>>

ObjectArmTimer(o) ==
    /\ opc[o] = "up"
    /\ armed' = armed \cup {o}
    /\ UNCHANGED <<stopping_, handlers, registries, wait_stop_timer_, live,
                   reading, work_, stopped, wpc, spc, opc, toDrive, history>>

(* An object that ends by itself posts the same close sequence.            *)
ObjectStop(o) ==
    /\ opc[o] = "up"
    /\ <<"release", o>> \notin ToSet(handlers)
    /\ handlers' = Append(handlers, <<"release", o>>)
    /\ UNCHANGED <<stopping_, registries, timerState, reading, work_, stopped,
                   wpc, spc, opc, toDrive, history>>

-----------------------------------------------------------------------------
(* stop(): the caller that wins the exchange does the work, step by step.  *)
StopBegin(s) ==
    /\ spc[s] = "idle"
    /\ spc' = [spc EXCEPT ![s] = IF stopping_ THEN "returned" ELSE "wake"]
    /\ stopping_' = TRUE
    /\ before' = IF stopping_ THEN before ELSE objects_
    /\ UNCHANGED <<handlers, registries, timerState, reading, work_, stopped,
                   wpc, opc, toDrive, late>>

StopWakeWaitStop(s) ==
    /\ spc[s] = "wake"
    /\ spc' = [spc EXCEPT ![s] = "drive"]
    /\ handlers' = Append(handlers, <<"wake", None>>)
    /\ UNCHANGED <<stopping_, registries, timerState, reading, work_, stopped,
                   wpc, opc, toDrive, history>>

DriveWithoutGuard(s) ==
    /\ spc[s] = "drive"
    /\ spc' = [spc EXCEPT ![s] = "call"]
    /\ toDrive' = objects_
    /\ objects_' = {}
    /\ work_' = FALSE
    /\ UNCHANGED <<stopping_, handlers, timers_, timerState, reading, stopped,
                   wpc, opc, history>>

StopDriveObjects(s) ==
    /\ spc[s] = "drive"
    /\ spc' = [spc EXCEPT ![s] = "call"]
    /\ toDrive' = objects_
    /\ objects_' = {}
    /\ UNCHANGED <<stopping_, handlers, timers_, timerState, reading, work_,
                   stopped, wpc, opc, history>>

StopCallOnStop(s) ==
    /\ spc[s] = "call"
    /\ \E o \in toDrive :
          /\ toDrive' = toDrive \ {o}
          /\ handlers' = Append(handlers, <<"release", o>>)
    /\ UNCHANGED <<stopping_, registries, timerState, reading, work_, stopped,
                   wpc, spc, opc, history>>

StopCancelTimers(s) ==
    /\ spc[s] = "call"
    /\ toDrive = {}
    /\ spc' = [spc EXCEPT ![s] = "release"]
    /\ handlers' = handlers \o Cancelled(timers_)
    /\ armed' = armed \ timers_
    /\ timers_' = {}
    /\ UNCHANGED <<stopping_, objects_, wait_stop_timer_, live, reading, work_,
                   stopped, wpc, opc, toDrive, history>>

StopKeepsWork(s) ==
    /\ spc[s] = "release"
    /\ spc' = [spc EXCEPT ![s] = "join"]
    /\ UNCHANGED <<stopping_, handlers, registries, timerState, reading, work_,
                   stopped, wpc, opc, toDrive, history>>

StopReleaseWork(s) ==
    /\ spc[s] = "release"
    /\ spc' = [spc EXCEPT ![s] = "join"]
    /\ work_' = FALSE
    /\ UNCHANGED <<stopping_, handlers, registries, timerState, reading,
                   stopped, wpc, opc, toDrive, history>>

StopJoin(s) ==
    /\ spc[s] = "join"
    /\ stopped
    /\ spc' = [spc EXCEPT ![s] = "done"]
    /\ UNCHANGED <<stopping_, handlers, registries, timerState, reading, work_,
                   stopped, wpc, opc, toDrive, history>>

StopStep(s) ==
    \/ StopBegin(s)
    \/ StopWakeWaitStop(s)
    \/ StopDriveObjects(s)
    \/ StopCallOnStop(s)
    \/ StopCancelTimers(s)
    \/ StopReleaseWork(s)
    \/ StopJoin(s)

WaitStep(w) == WaitStopCheck(w) \/ WaitStopPost(w)

ObjectStep(o) ==
    \/ ObjectCreate(o)
    \/ ObjectStart(o)
    \/ ObjectRead(o)
    \/ ObjectArmTimer(o)
    \/ ObjectStop(o)

PoolNext ==
    \/ RunHandler
    \/ RunReturns
    \/ \E w \in Waiter : WaitStep(w)
    \/ \E s \in Stopper : StopStep(s)
    \/ \E o \in Object : ObjectStep(o)

PoolSpec == PoolInit /\ [][PoolNext]_poolVars

(* The io thread runs, and a stop() that has begun goes on; whether anyone  *)
(* waits, stops or starts an object is up to the application.               *)
FairPoolSpec ==
    /\ PoolSpec
    /\ WF_poolVars(RunHandler \/ RunReturns)
    /\ \A s \in Stopper : WF_poolVars(spc[s] # "idle" /\ StopStep(s))

-----------------------------------------------------------------------------
PoolTypeOK ==
    /\ stopping_ \in BOOLEAN
    /\ \A i \in 1..Len(handlers) :
          \/ handlers[i][1] = "arm" /\ handlers[i][2] \in Waiter
          \/ handlers[i][1] = "wake"
          \/ handlers[i][1] = "fire" /\ handlers[i][2] \in Waiter \cup Object
          \/ handlers[i][1] = "release" /\ handlers[i][2] \in Object
    /\ wait_stop_timer_ \in Waiter \cup {None}
    /\ timers_ \subseteq Waiter \cup Object
    /\ objects_ \subseteq Object
    /\ armed \subseteq live /\ live \subseteq Waiter \cup Object
    /\ reading \subseteq Object
    /\ work_ \in BOOLEAN /\ stopped \in BOOLEAN
    /\ wpc \in [Waiter -> {"idle", "checked", "blocked", "returned"}]
    /\ spc \in [Stopper -> {"idle", "wake", "returned"} \cup AfterWake]
    /\ opc \in [Object -> {"new", "made", "up", "gone"}]
    /\ toDrive \subseteq Object
    /\ before \subseteq Object /\ late \in BOOLEAN

(* docs/asio-async-standards.md 9.5: on_stop is driven before the guard is  *)
(* given up, so when stop() returns every object that was registered when   *)
(* it began has run its close sequence on the io thread.                    *)
StopReleasesObjects ==
    At({"done"}) => \A o \in before : opc[o] = "gone"

(* If no thread enters wait_stop and no object starts behind stop()'s back, *)
(* stop() returns: nothing is left that would keep run() from returning.    *)
StopReturns ==
    [](~late) => \A s \in Stopper : (spc[s] = "wake") ~> (spc[s] = "done")

=============================================================================
