-------------------------- MODULE SerializedWriter --------------------------
(***************************************************************************)
(* network::serialized_writer: the write queue of one socket, in its owner   *)
(* relay_data_channel.  push() posts do_push to the io thread; do_write      *)
(* hands the front of the queue to the launcher, whose completion pops it    *)
(* and writes the next.  The close sequence of the owner runs on the io      *)
(* thread too, posted by release_obj or called by the error handler.         *)
(*                                                                           *)
(* Packets are numbered in the order of their push.                          *)
(*****************************************************************************)
EXTENDS Naturals, Sequences

CONSTANT MaxPush   \* bound: packets pushed

ASSUME SerializedWriterAssumption == MaxPush \in Nat

VARIABLES
    queue_,     \* the deque
    writing_,
    handlers,   \* what is posted to the io thread, oldest first
    inFlight,   \* packets handed to async_write that has not finished
    wire,       \* packets the socket has accepted, in order
    pushed,     \* packets pushed so far
    open,       \* the socket is open
    cleared,    \* clear() has run
    popped      \* what the last pop_front met: "ok" or "empty"

writerVars == <<queue_, writing_, handlers, inFlight, wire, pushed, open, cleared, popped>>

WriterInit ==
    /\ queue_ = <<>> /\ writing_ = FALSE
    /\ handlers = <<>> /\ inFlight = {} /\ wire = <<>>
    /\ pushed = 0
    /\ open = TRUE /\ cleared = FALSE
    /\ popped = "ok"

Push ==
    /\ pushed < MaxPush
    /\ pushed' = pushed + 1
    /\ handlers' = Append(handlers, <<"push", pushed + 1>>)
    /\ UNCHANGED <<queue_, writing_, inFlight, wire, open, cleared, popped>>

(* do_write: hand q's front, if there is one, to the launcher.  The launcher *)
(* (relay_data_channel::init_kcp) writes to the socket that is open; when    *)
(* none is it completes at once with not_connected, and after the close the  *)
(* error handler is gone.                                                    *)
DoWrite(q) ==
    /\ queue_' = q
    /\ writing_' = (q # <<>> /\ open)
    /\ inFlight' = IF q # <<>> /\ open THEN inFlight \cup {Head(q)} ELSE inFlight

DoPushUnchecked(m) ==
    DoWrite(Append(queue_, m)) /\ UNCHANGED <<open, cleared, popped>>

DoPush(m) ==
    /\ IF writing_
       THEN queue_' = Append(queue_, m) /\ UNCHANGED <<writing_, inFlight>>
       ELSE DoWrite(Append(queue_, m))
    /\ UNCHANGED <<open, cleared, popped>>

(* The owner's close: clear() and the close of the socket, once.            *)
CloseOwner ==
    /\ open' = FALSE /\ cleared' = TRUE
    /\ IF cleared THEN UNCHANGED <<queue_, writing_>>
                  ELSE queue_' = <<>> /\ writing_' = FALSE
    /\ UNCHANGED <<inFlight, popped>>

CompletedWithoutNext ==
    /\ queue_' = IF queue_ = <<>> THEN <<>> ELSE Tail(queue_)
    /\ writing_' = FALSE
    /\ UNCHANGED <<inFlight, open, cleared, popped>>

(* The completion of a successful write.  pop_front of an empty deque is    *)
(* undefined; the behaviour is not followed beyond it.                      *)
Completed ==
    /\ UNCHANGED <<open, cleared>>
    /\ IF queue_ = <<>>
       THEN popped' = "empty" /\ UNCHANGED <<queue_, writing_, inFlight>>
       ELSE DoWrite(Tail(queue_)) /\ UNCHANGED popped

(* The completion of a failed write: the error handler, if it is still set, *)
(* closes the owner, and clear() drops the packet that failed.              *)
Failed ==
    IF cleared THEN writing_' = FALSE /\ UNCHANGED <<queue_, inFlight, open, cleared, popped>>
               ELSE CloseOwner

RunHandler ==
    /\ handlers # <<>>
    /\ popped = "ok"
    /\ handlers' = Tail(handlers)
    /\ LET h == Head(handlers) IN
       \/ h[1] = "push" /\ DoPush(h[2])
       \/ h[1] = "done" /\ Completed
       \/ h[1] = "failed" /\ Failed
       \/ h[1] = "close" /\ CloseOwner
    /\ UNCHANGED <<wire, pushed>>

(* The socket takes a packet, or the write fails; a closed one only fails.  *)
SocketWrites(m) ==
    /\ m \in inFlight
    /\ inFlight' = inFlight \ {m}
    /\ \/ /\ open
          /\ wire' = Append(wire, m)
          /\ handlers' = Append(handlers, <<"done", m>>)
       \/ /\ handlers' = Append(handlers, <<"failed", m>>)
          /\ UNCHANGED wire
    /\ UNCHANGED <<queue_, writing_, pushed, open, cleared, popped>>

(* release_obj from another thread: the close sequence is posted.           *)
ReleaseObj ==
    /\ \A i \in DOMAIN handlers : handlers[i] # <<"close", 0>>
    /\ ~cleared
    /\ handlers' = Append(handlers, <<"close", 0>>)
    /\ UNCHANGED <<queue_, writing_, inFlight, wire, pushed, open, cleared, popped>>

WriterNext ==
    \/ Push
    \/ RunHandler
    \/ ReleaseObj
    \/ \E m \in 1..MaxPush : SocketWrites(m)

WriterSpec == WriterInit /\ [][WriterNext]_writerVars

(* The io thread runs its handlers and every write ends some day.           *)
FairWriterSpec ==
    /\ WriterSpec
    /\ WF_writerVars(RunHandler)
    /\ \A m \in 1..MaxPush : WF_writerVars(SocketWrites(m))

-----------------------------------------------------------------------------
(* The types of the state, and that the flag writing_ is up only while the   *)
(* packet being written is still at the front of the queue.                  *)
WriterTypeOK ==
    /\ writing_ => queue_ # <<>>
    /\ queue_ \in Seq(1..MaxPush)
    /\ writing_ \in BOOLEAN /\ open \in BOOLEAN /\ cleared \in BOOLEAN
    /\ inFlight \subseteq 1..MaxPush
    /\ wire \in Seq(1..MaxPush)
    /\ pushed \in 0..MaxPush
    /\ popped \in {"ok", "empty"}

(* async_utils.hpp:155: a socket has at most one async_write in flight, and  *)
(* it gets the packets in the order of their push, each once, whatever the   *)
(* order of pushes, completions and the close sequence on the io thread.     *)
OneWriteInFlight ==
    /\ wire = [i \in 1..Len(wire) |-> i]
    /\ inFlight \subseteq {Len(wire) + 1}

(* No packet is forgotten: every packet that is pushed reaches the socket   *)
(* unless the connection is closed.                                         *)
PushedIsWritten ==
    \A m \in 1..MaxPush : (pushed >= m) ~> (Len(wire) >= m \/ cleared)

(* async_utils.hpp:184-185: a completion in flight holds its own copies, so *)
(* clearing the members does not affect it.                                 *)
CompletionSurvivesClear == popped = "ok"
=============================================================================
