------------------------------ MODULE EventLoop ------------------------------
(***************************************************************************)
(* The application loop: Application::Loop drives EventsHandler::Tick,     *)
(* which dispatches queued events (EventSystem::EventsTick), runs the      *)
(* expired delay tasks (DelayQueue::HandleEvent) and then sleeps on a      *)
(* condition variable until the next timer or a WakeUp.  Other threads     *)
(* post events, call Exit, and change the delay queue; each of them first  *)
(* wakes the loop and only then makes the change it announces.             *)
(*                                                                         *)
(* The delay queue is the module DelayQueue with the loop thread as its    *)
(* only dispatcher.  Once the bounded clock stands at MaxTime, every later *)
(* point of time has come, so a sleep whose deadline lies beyond it ends.  *)
(***************************************************************************)
EXTENDS DelayQueue, Sequences

CONSTANTS
    Poster,        \* threads that call PostProcessEvent and Exit
    IdleWait,      \* what GetNextTimeoutMsec returns for an empty map (100)
    TickLimit,     \* EventsTick's default maxProcessTimeMsec (20)
    MaxQueue       \* bound: events waiting in the queue

ASSUME EventLoopAssumption ==
    /\ Dispatcher # {}
    /\ IdleWait \in Nat \ {0}
    /\ TickLimit \in Nat
    /\ MaxQueue \in Nat

VARIABLES
    queue,        \* m_syncer: events enqueued and not yet dispatched
    bRunning,     \* Application::bRunning
    lpc,          \* where the loop thread stands
    proceedNums,  \* EventsTick's count of events dispatched in this tick
    tickStart,    \* EventsTick's startTimeMsec
    waitTime,     \* Tick's waitTimeMsec
    deadline,     \* when the sleep of the loop thread times out
    ppc, posting, \* where each poster stands and what it posts
    tpc,          \* where the thread that changes the delay queue stands
    exits         \* how often exitStarted was emitted

running == <<bRunning, exits>>
tick == <<proceedNums, tickStart>>
sleep == <<waitTime, deadline>>
poster == <<ppc, posting>>
allVars == <<vars, queue, running, lpc, tick, sleep, poster, tpc>>

LoopThread == CHOOSE d \in Dispatcher : TRUE

LoopInit ==
    /\ Init
    /\ queue = <<>>
    /\ bRunning = FALSE
    /\ lpc = "off"
    /\ proceedNums = 0
    /\ tickStart = 0
    /\ waitTime = 0
    /\ deadline = 0
    /\ ppc = [p \in Poster |-> "idle"]
    /\ posting = [p \in Poster |-> "task"]
    /\ tpc = "idle"
    /\ exits = 0

-----------------------------------------------------------------------------
(* notify_one: it wakes the loop thread only if that thread is in wait_for; *)
(* there is no predicate, so a notification at any other time is lost.      *)
WakeUp == lpc' = IF lpc = "waiting" THEN "check" ELSE lpc

(* Exit does nothing while the loop is not running. *)
PostBegin(p, event) ==
    /\ ppc[p] = "idle"
    /\ event = "exit" => bRunning
    /\ WakeUp
    /\ ppc' = [ppc EXCEPT ![p] = "enqueue"]
    /\ posting' = [posting EXCEPT ![p] = event]
    /\ UNCHANGED <<vars, queue, running, tick, sleep, tpc>>

PostEnqueue(p) ==
    /\ ppc[p] = "enqueue"
    /\ Len(queue) < MaxQueue
    /\ queue' = Append(queue, posting[p])
    /\ ppc' = [ppc EXCEPT ![p] = IF posting[p] = "exit" THEN "wake" ELSE "idle"]
    /\ UNCHANGED <<vars, running, lpc, tick, sleep, posting, tpc>>

(* Exit calls WakeUp once more after it has posted its event. *)
ExitWakeUp(p) ==
    /\ ppc[p] = "wake"
    /\ WakeUp
    /\ ppc' = [ppc EXCEPT ![p] = "idle"]
    /\ UNCHANGED <<vars, queue, running, tick, sleep, posting, tpc>>

(* stateCb runs before the operation takes dataMutex. *)
TimerSignal ==
    /\ tpc = "idle"
    /\ tpc' = "modify"
    /\ WakeUp
    /\ UNCHANGED <<vars, queue, running, tick, sleep, poster>>

(* The operation stateCb announced; one that changes nothing also returns.  *)
TimerModify ==
    /\ tpc = "modify"
    /\ tpc' = "idle"
    /\ AnnouncedCall \/ UNCHANGED vars
    /\ UNCHANGED <<queue, running, lpc, tick, sleep, poster>>

TimerUpdateInterval ==
    /\ tpc = "idle"
    /\ SilentCall
    /\ UNCHANGED <<queue, running, lpc, tick, sleep, poster, tpc>>

-----------------------------------------------------------------------------
LoopStart ==
    /\ lpc = "off"
    /\ bRunning' = TRUE
    /\ lpc' = "check"
    /\ UNCHANGED <<vars, queue, tick, sleep, poster, tpc, exits>>

(* A new tick begins: the locals of the last one are gone. *)
LoopCheck ==
    /\ lpc = "check"
    /\ lpc' = IF bRunning THEN "events" ELSE "finished"
    /\ proceedNums' = 0
    /\ tickStart' = clock
    /\ waitTime' = 0
    /\ deadline' = 0
    /\ UNCHANGED <<vars, queue, running, poster, tpc>>

(* The closure Exit posts runs its body for one caller only. *)
Dispatch(event) ==
    IF event = "exit" /\ bRunning
    THEN bRunning' = FALSE /\ exits' = exits + 1
    ELSE UNCHANGED <<running>>

EventsTickUnlimited ==
    /\ lpc = "events"
    /\ queue # <<>>
    /\ Dispatch(Head(queue))
    /\ queue' = Tail(queue)
    /\ UNCHANGED <<vars, lpc, tick, sleep, poster, tpc>>

(* One round of EventsTick: maxProcessTimeMsec is what is counted down, and *)
(* what is left of it is compared with the time the tick has taken.         *)
EventsTickOne ==
    /\ lpc = "events"
    /\ proceedNums < TickLimit
    /\ queue # <<>>
    /\ Dispatch(Head(queue))
    /\ queue' = Tail(queue)
    /\ proceedNums' = proceedNums + 1
    /\ LET left == TickLimit - proceedNums' IN
       IF left > 0 /\ clock - tickStart > left
       THEN lpc' = "delay" /\ tickStart' = 0
       ELSE UNCHANGED <<lpc, tickStart>>
    /\ UNCHANGED <<vars, sleep, poster, tpc>>

EventsTickEnd ==
    /\ lpc = "events"
    /\ proceedNums = TickLimit \/ queue = <<>>
    /\ lpc' = "delay"
    /\ tickStart' = 0
    /\ UNCHANGED <<vars, queue, running, proceedNums, sleep, poster, tpc>>

LoopHandleEvent ==
    /\ lpc = "delay"
    /\ HandleEventStep(LoopThread)
    /\ lpc' = IF pc'[LoopThread] = "idle" THEN "idle" ELSE "delay"
    /\ UNCHANGED <<queue, running, tick, sleep, poster, tpc>>

LoopIsIdle ==
    /\ lpc = "idle"
    /\ lpc' = IF queue = <<>> THEN "timeout" ELSE "check"
    /\ UNCHANGED <<vars, queue, running, tick, sleep, poster, tpc>>

NextTimeout == IF processingTasks = {}
               THEN clock + IdleWait
               ELSE CHOOSE t \in {e[1] : e \in processingTasks} :
                        \A e \in processingTasks : t <= e[1]

LoopGetNextTimeout ==
    /\ lpc = "timeout"
    /\ waitTime' = NextTimeout - clock
    /\ lpc' = "wait"
    /\ UNCHANGED <<vars, queue, running, tick, deadline, poster, tpc>>

(* wait_for counts from the moment it is called; a wait of no time returns. *)
LoopWait ==
    /\ lpc = "wait"
    /\ IF waitTime > 0
       THEN lpc' = "waiting" /\ deadline' = clock + waitTime
       ELSE lpc' = "check" /\ UNCHANGED deadline
    /\ waitTime' = 0
    /\ UNCHANGED <<vars, queue, running, tick, poster, tpc>>

NeverTimesOut == FALSE /\ UNCHANGED allVars

WakeAtDeadline ==
    /\ lpc = "waiting"
    /\ clock >= deadline \/ clock = MaxTime
    /\ lpc' = "check"
    /\ UNCHANGED <<vars, queue, running, tick, sleep, poster, tpc>>

SpuriousWakeUp ==
    /\ lpc = "waiting"
    /\ lpc' = "check"
    /\ UNCHANGED <<vars, queue, running, tick, sleep, poster, tpc>>

-----------------------------------------------------------------------------
LoopStep ==
    \/ LoopCheck
    \/ EventsTickOne
    \/ EventsTickEnd
    \/ LoopHandleEvent
    \/ LoopIsIdle
    \/ LoopGetNextTimeout
    \/ LoopWait
    \/ WakeAtDeadline

Time == Tick /\ UNCHANGED <<queue, running, lpc, tick, sleep, poster, tpc>>

LoopNext ==
    \/ Time
    \/ LoopStart
    \/ LoopStep
    \/ SpuriousWakeUp
    \/ TimerSignal
    \/ TimerModify
    \/ TimerUpdateInterval
    \/ \E p \in Poster :
          \/ \E event \in {"task", "exit"} : PostBegin(p, event)
          \/ PostEnqueue(p)
          \/ ExitWakeUp(p)

LoopSpec == LoopInit /\ [][LoopNext]_allVars

(* The loop thread keeps running and time keeps passing; the posters and    *)
(* the thread that changes timers may stop anywhere.                        *)
LoopFairSpec == LoopSpec /\ WF_allVars(LoopStep) /\ WF_allVars(Time)

-----------------------------------------------------------------------------
LoopTypeOK ==
    /\ TypeOK
    /\ queue \in Seq({"task", "exit"}) /\ Len(queue) <= MaxQueue
    /\ bRunning \in BOOLEAN
    /\ lpc \in {"off", "check", "events", "delay", "idle", "timeout", "wait",
                "waiting", "finished"}
    /\ proceedNums \in 0..TickLimit
    /\ tickStart \in Nat
    /\ waitTime \in Int
    /\ deadline \in Int
    /\ ppc \in [Poster -> {"idle", "enqueue", "wake"}]
    /\ posting \in [Poster -> {"task", "exit"}]
    /\ tpc \in {"idle", "modify"}
    /\ exits \in Nat

(* Once an exit event is queued the loop ends, although every wake-up may   *)
(* come at a moment when it is lost: the sleep is always bounded.           *)
ExitEndsLoop ==
    (\E i \in 1..Len(queue) : queue[i] = "exit") ~> (lpc = "finished")

(* Delay tasks are not starved by events: even when threads post without    *)
(* end, a due task is taken or changed, because a tick dispatches a bounded *)
(* number of events before it turns to the delay queue.                     *)
TimersNotStarved ==
    \A s \in Session :
        (Due(s) /\ bRunning)
            ~> (~Due(s) \/ interval[s] <= 0 \/ lpc = "finished")

=============================================================================
