------------------------------ MODULE RpcStream ------------------------------
(* The two ends of an upgraded RPC connection: ClientStreamReadWriter and      *)
(* ServerStreamReadWriter.  At each end a user thread calls Write, WriteDone,  *)
(* Read and Finish and blocks in them, and one io thread runs the handlers:    *)
(* what the user has posted, the read loop with its pause, the write queue     *)
(* with its tokens, and the timer.                                             *)
(*                                                                             *)
(* A frame travels whole: the size, the type and the data are read and written *)
(* by loops that keep a single operation in flight.  Two reads in flight would *)
(* tear frames apart; the model stops there (overlapped).                      *)
EXTENDS Integers, Sequences

CONSTANTS Scripts,     \* the calls the users of the two ends make
          WriteMax,    \* write_queue_max_size_
          ReadMax,     \* read_queue_max_size_
          MaxWire,     \* frames a connection holds in each direction
          MaxBeats     \* bound on the heartbeats the client sends

End == {"client", "server"}
Peer(e) == IF e = "client" THEN "server" ELSE "client"

Call == {"write", "done", "read", "finish", "release"}

ASSUME RpcStreamAssumption ==
    /\ Scripts \subseteq [End -> Seq(Call)]
    /\ WriteMax \in Nat \ {0} /\ ReadMax \in [End -> Nat] /\ MaxWire \in Nat \ {0} /\ MaxBeats \in Nat

\* The user of e keeps to what WriteDone announces: no Write comes after it.
WriteDoneIsLast(e) ==
    \A s \in Scripts : \A i, j \in 1..Len(s[e]) : i < j /\ s[e][i] = "done" => s[e][j] # "write"

ASSUME ClientContract == WriteDoneIsLast("client")

\* rpc_stream_data_status, in its order.
none == 0
heartbeat == 1
data == 2
write_done == 3
finish == 4
failed == 5

\* A frame: the type, and the number of the sender's message a data frame carries.
Frame == [type : heartbeat..finish, message : Nat]
FrameOf(type) == [type |-> type, message |-> 0]

\* What is posted is a frame to queue, or one of two handlers.
resume == 6
release == 7
Item == [type : heartbeat..release, message : Nat]

VARIABLES status,     \* last_data_status_
          success,    \* last_err_ is rpc_success
          valid,      \* reference_ is valid
          posted,     \* what is posted to the executor: frames, "resume", "release"
          write_cache,
          writing,    \* a write is in flight
          tokens,     \* write_token_nums
          reading,    \* a read is in flight
          io,         \* where the io thread is in the handler of a data frame
          current,    \* the message it has just read
          cache,      \* request_cache_ / response_cache_
          pausing,    \* is_reading_pausing
          finishing,  \* is_request_finishing
          waiting,    \* b_wait_any_data / b_waiting_process_any_data
          beats,      \* how many heartbeats the client has sent
          script,     \* the calls the user thread has left; it is in the first one
          written,    \* how many messages Write has accepted
          received,   \* what Read has returned
          wire,       \* frames on their way from an end
          open,       \* the socket of an end
          overlapped  \* a second read was started

readSide == <<reading, io, current, cache, pausing, overlapped>>
writeSide == <<write_cache, writing, tokens>>
ended == <<status, success, valid>>
calls == <<script, written, received, finishing>>
net == <<wire, open>>
vars == <<ended, posted, writeSide, readSide, waiting, beats, calls, net>>

TypeOK ==
    /\ status \in [End -> none..failed] /\ success \in [End -> BOOLEAN] /\ valid \in [End -> BOOLEAN]
    /\ posted \in [End -> Seq(Item)] /\ write_cache \in [End -> Seq(Frame)] /\ wire \in [End -> Seq(Frame)]
    /\ writing \in [End -> BOOLEAN] /\ tokens \in [End -> 0..WriteMax]
    /\ reading \in [End -> BOOLEAN] /\ io \in [End -> {"free", "check", "next"}]
    /\ current \in [End -> Nat] /\ cache \in [End -> Seq(Nat)] /\ received \in [End -> Seq(Nat)]
    /\ pausing \in [End -> BOOLEAN] /\ finishing \in [End -> BOOLEAN] /\ waiting \in [End -> BOOLEAN]
    /\ beats \in 0..MaxBeats /\ written \in [End -> Nat]
    /\ script \in [End -> Seq(Call \cup {"post", "wait"})]
    /\ open \in [End -> BOOLEAN] /\ overlapped \in BOOLEAN

Init ==
    /\ status = [e \in End |-> none] /\ success = [e \in End |-> FALSE] /\ valid = [e \in End |-> TRUE]
    /\ posted = [e \in End |-> <<>>] /\ write_cache = [e \in End |-> <<>>]
    /\ writing = [e \in End |-> FALSE] /\ tokens = [e \in End |-> WriteMax]
    /\ reading = [e \in End |-> TRUE] /\ io = [e \in End |-> "free"] /\ current = [e \in End |-> 0]
    /\ cache = [e \in End |-> <<>>]
    /\ pausing = [e \in End |-> FALSE] /\ finishing = [e \in End |-> FALSE] /\ waiting = [e \in End |-> FALSE]
    /\ beats = 0
    /\ script \in Scripts
    /\ written = [e \in End |-> 0] /\ received = [e \in End |-> <<>>]
    /\ wire = [e \in End |-> <<>>] /\ open = [e \in End |-> TRUE] /\ overlapped = FALSE

Over(e) == status[e] >= finish

Post(e, items) == posted' = [posted EXCEPT ![e] = @ \o items]

-----------------------------------------------------------------------------
(* Ending. *)

\* set_status: the first end wins; ending releases the stream, which posts the
\* rest of release_obj behind whatever is posted already.
SetStatus(e, new, ok) ==
    IF Over(e) THEN UNCHANGED <<ended, posted>>
    ELSE /\ status' = [status EXCEPT ![e] = new]
         /\ success' = [success EXCEPT ![e] = ok]
         /\ valid' = [valid EXCEPT ![e] = @ /\ new < finish]
         /\ Post(e, IF new >= finish THEN <<FrameOf(release)>> ELSE <<>>)

\* The posted half of release_obj: a stream that has not ended ends, and the
\* socket is closed, which completes the operations in flight; their handlers, and
\* whatever else is posted, find the reference invalid and return.  A write in
\* flight may have reached the socket; closing over unread frames resets the
\* connection, and what was sent last may be lost.
Release(e) ==
    /\ status' = [status EXCEPT ![e] = IF Over(e) THEN @ ELSE IF e = "server" THEN finish ELSE failed]
    /\ open' = [open EXCEPT ![e] = FALSE]
    /\ \E left \in {wire[e]} \cup (IF writing[e] /\ Len(wire[e]) < MaxWire
                                 THEN {Append(wire[e], Head(write_cache[e]))} ELSE {})
                            \cup (IF wire[Peer(e)] # <<>> THEN {<<>>} ELSE {}) :
          wire' = [wire EXCEPT ![e] = left]
    /\ posted' = [posted EXCEPT ![e] = <<>>]
    /\ write_cache' = [write_cache EXCEPT ![e] = <<>>]
    /\ writing' = [writing EXCEPT ![e] = FALSE]
    /\ reading' = [reading EXCEPT ![e] = FALSE]

-----------------------------------------------------------------------------
(* Writing. *)

\* handle_write: an ended stream writes nothing more, and the server drops what is left.
HandleWrite(e, queue) ==
    /\ write_cache' = [write_cache EXCEPT ![e] = IF Over(e) /\ e = "server" THEN <<>> ELSE queue]
    /\ writing' = [writing EXCEPT ![e] = queue # <<>> /\ ~Over(e)]

EnqueueFirst(e, frame) ==
    IF write_cache[e] = <<>> THEN HandleWrite(e, <<frame>>)
    ELSE /\ write_cache' = [write_cache EXCEPT ![e] = <<frame>> \o @]
         /\ UNCHANGED writing

EnqueueOneMessage(e, frame) ==
    IF write_cache[e] = <<>> THEN HandleWrite(e, <<frame>>)
    ELSE /\ write_cache' = [write_cache EXCEPT ![e] = IF frame.type = data /\ @[Len(@)].type = data THEN @
                                                     ELSE Append(@, frame)]
         /\ UNCHANGED writing

\* A frame is appended; only a queue that was empty starts a write.
Enqueue(e, frame) ==
    IF write_cache[e] = <<>> THEN HandleWrite(e, <<frame>>)
    ELSE /\ write_cache' = [write_cache EXCEPT ![e] = Append(@, frame)]
         /\ UNCHANGED writing

\* The tokens a completed write leaves: those taken by posts that have not run
\* yet are handed out again.
TokensAfter(queue) == IF Len(queue) < WriteMax THEN WriteMax - Len(queue) ELSE 0

\* A write in flight fails when the connection is gone.
WriteFails(e) ==
    /\ io[e] = "free" /\ writing[e] /\ valid[e] /\ ~open[Peer(e)]
    /\ SetStatus(e, failed, FALSE)
    /\ writing' = [writing EXCEPT ![e] = FALSE]
    /\ UNCHANGED <<beats, write_cache, tokens, waiting, readSide, calls, net>>

\* The socket takes the frame; a peer that has closed answers with a reset, which may
\* discard what it sent.  The client ends when its finish frame is out.
Written(e) ==
    LET frame == Head(write_cache[e])
        rest == Tail(write_cache[e])
    IN /\ io[e] = "free" /\ writing[e] /\ valid[e] /\ open[e]
       /\ \/ /\ open[Peer(e)] /\ Len(wire[e]) < MaxWire
             /\ wire' = [wire EXCEPT ![e] = Append(@, frame)]
          \/ /\ ~open[Peer(e)]
             /\ \E left \in {wire[Peer(e)], <<>>} : wire' = [wire EXCEPT ![Peer(e)] = left]
       /\ waiting' = [waiting EXCEPT ![e] = FALSE]
       /\ IF e = "client" /\ frame.type = finish
          THEN /\ SetStatus(e, finish, TRUE)
               /\ write_cache' = [write_cache EXCEPT ![e] = <<>>]
               /\ writing' = [writing EXCEPT ![e] = FALSE]
               /\ tokens' = [tokens EXCEPT ![e] = TokensAfter(<<>>)]
          ELSE /\ HandleWrite(e, rest)
               /\ tokens' = [tokens EXCEPT ![e] = TokensAfter(rest)]
               /\ UNCHANGED <<ended, posted>>
       /\ UNCHANGED <<beats, readSide, calls, open>>

-----------------------------------------------------------------------------
(* Reading. *)

\* read_head, when not paused: a read is in flight, or a second one is.
ReadHead(e) ==
    /\ reading' = [reading EXCEPT ![e] = @ \/ ~pausing[e]]
    /\ overlapped' = (overlapped \/ (reading[e] /\ ~pausing[e]))

\* The frames a status admits: heartbeats always, the others never backwards, and
\* only the server takes a finish.
Admits(e, frame) ==
    \/ frame.type = heartbeat
    \/ frame.type >= status[e] /\ (frame.type < finish \/ e = "server")

\* A finish ends the stream well only behind a write_done.
FinishesWell(e) == status[e] = write_done

\* A frame arrives.  A heartbeat is answered by the server; a data frame leaves the
\* handler at check_pause_read, which a finishing stream skips.
ReadFrame(e) ==
    LET frame == Head(wire[Peer(e)])
        more == reading' = reading /\ overlapped' = overlapped
        stop == reading' = [reading EXCEPT ![e] = FALSE] /\ overlapped' = overlapped
    IN /\ io[e] = "free" /\ reading[e] /\ valid[e] /\ ~Over(e) /\ open[e] /\ wire[Peer(e)] # <<>>
       /\ wire' = [wire EXCEPT ![Peer(e)] = Tail(@)]
       /\ waiting' = [waiting EXCEPT ![e] = FALSE]
       /\ \/ /\ ~Admits(e, frame)
             /\ SetStatus(e, failed, FALSE) /\ stop
             /\ UNCHANGED <<writeSide, io, current>>
          \/ /\ Admits(e, frame) /\ frame.type = heartbeat
             /\ IF e = "server" THEN Enqueue(e, frame) ELSE UNCHANGED <<write_cache, writing>>
             /\ more /\ UNCHANGED <<ended, posted, tokens, io, current>>
          \/ /\ Admits(e, frame) /\ frame.type = data
             /\ status' = [status EXCEPT ![e] = data]
             /\ current' = [current EXCEPT ![e] = frame.message]
             /\ io' = [io EXCEPT ![e] = IF finishing[e] THEN "next" ELSE "check"]
             /\ stop /\ UNCHANGED <<success, valid, posted, writeSide>>
          \/ /\ Admits(e, frame) /\ frame.type = write_done
             /\ SetStatus(e, write_done, TRUE)
             /\ more /\ UNCHANGED <<writeSide, io, current>>
          \/ /\ Admits(e, frame) /\ frame.type = finish
             /\ IF FinishesWell(e) THEN SetStatus(e, finish, TRUE) ELSE SetStatus(e, failed, FALSE)
             /\ stop /\ UNCHANGED <<writeSide, io, current>>
       /\ UNCHANGED <<beats, cache, pausing, calls, open>>

\* The read fails: the peer is gone and nothing is left to read.
ReadFails(e) ==
    /\ io[e] = "free" /\ reading[e] /\ valid[e] /\ ~open[Peer(e)] /\ wire[Peer(e)] = <<>>
    /\ reading' = [reading EXCEPT ![e] = FALSE]
    /\ SetStatus(e, failed, FALSE)
    /\ UNCHANGED <<beats, writeSide, io, current, cache, pausing, overlapped, waiting, calls, net>>

FullNever(e) == FALSE

\* check_pause_read: the server pauses a full cache, the client one that has
\* overrun.
Full(e) == IF e = "server" THEN Len(cache[e]) >= ReadMax[e] ELSE Len(cache[e]) > ReadMax[e]

CheckPauseRead(e) ==
    /\ io[e] = "check"
    /\ pausing' = [pausing EXCEPT ![e] = @ \/ Full(e)]
    /\ io' = [io EXCEPT ![e] = "next"]
    /\ UNCHANGED <<beats, ended, posted, writeSide, reading, current, cache, overlapped, waiting, calls, net>>

\* The next read_head, then the message is cached unless Finish has been called;
\* the handler of that read cannot run before this one is over.
ReadNext(e) ==
    /\ io[e] = "next"
    /\ ReadHead(e)
    /\ cache' = [cache EXCEPT ![e] = IF finishing[e] THEN @ ELSE Append(@, current[e])]
    /\ io' = [io EXCEPT ![e] = "free"]
    /\ current' = [current EXCEPT ![e] = 0]
    /\ UNCHANGED <<beats, ended, posted, writeSide, pausing, waiting, calls, net>>

-----------------------------------------------------------------------------
(* What is posted, and the timer. *)

RunPosted(e) ==
    /\ io[e] = "free" /\ posted[e] # <<>>
    /\ LET item == Head(posted[e])
           rest == posted' = [posted EXCEPT ![e] = Tail(@)]
       IN \/ /\ item.type = release
             /\ Release(e)
             /\ UNCHANGED <<success, valid, tokens, overlapped>>
          \/ /\ item.type = resume
             /\ rest
             /\ IF valid[e] THEN ReadHead(e) ELSE UNCHANGED <<reading, overlapped>>
             /\ UNCHANGED <<ended, writeSide, net>>
          \/ /\ item.type <= finish
             /\ rest
             /\ IF valid[e] THEN Enqueue(e, item) ELSE UNCHANGED <<write_cache, writing>>
             /\ UNCHANGED <<ended, tokens, reading, overlapped, net>>
    /\ UNCHANGED <<beats, io, current, cache, pausing, waiting, calls>>

TimerNeverFails(e) ==
    /\ io[e] = "free" /\ valid[e] /\ ~Over(e)
    /\ waiting' = [waiting EXCEPT ![e] = TRUE]
    /\ IF e = "client" /\ beats < MaxBeats
       THEN Enqueue(e, FrameOf(heartbeat)) /\ beats' = beats + 1
       ELSE UNCHANGED <<write_cache, writing, beats>>
    /\ UNCHANGED <<ended, posted, tokens, readSide, calls, net>>

\* reset_timer: a period without a read or a write ends the stream; the client
\* sends a heartbeat at the end of the others.
TimerFires(e) ==
    /\ io[e] = "free" /\ valid[e] /\ ~Over(e)
    /\ IF waiting[e]
       THEN SetStatus(e, failed, FALSE) /\ UNCHANGED <<write_cache, writing, waiting, beats>>
       ELSE /\ waiting' = [waiting EXCEPT ![e] = TRUE]
            /\ IF e = "client" /\ beats < MaxBeats
               THEN Enqueue(e, FrameOf(heartbeat)) /\ beats' = beats + 1
               ELSE UNCHANGED <<write_cache, writing, beats>>
            /\ UNCHANGED <<ended, posted>>
    /\ UNCHANGED <<tokens, readSide, calls, net>>

-----------------------------------------------------------------------------
(* The user threads. *)

\* The call the user of e is in, and its return.
In(e, call) == script[e] # <<>> /\ Head(script[e]) = call
Return(e) == script' = [script EXCEPT ![e] = Tail(@)]

\* wait_write_token, then the post; an ended stream refuses.
Write(e) ==
    /\ In(e, "write") /\ (tokens[e] > 0 \/ Over(e))
    /\ Return(e)
    /\ IF Over(e) THEN UNCHANGED <<tokens, written, posted>>
       ELSE /\ tokens' = [tokens EXCEPT ![e] = @ - 1]
            /\ written' = [written EXCEPT ![e] = @ + 1]
            /\ Post(e, <<[type |-> data, message |-> written'[e]]>>)
    /\ UNCHANGED <<beats, ended, write_cache, writing, readSide, waiting, received, finishing, net>>

WriteDone(e) ==
    /\ In(e, "done")
    /\ Return(e)
    /\ Post(e, IF Over(e) THEN <<>> ELSE <<FrameOf(write_done)>>)
    /\ UNCHANGED <<beats, ended, writeSide, readSide, waiting, written, received, finishing, net>>

\* try_resume_read: the exchange of the flag, then the post.
ResumePosts(e) == IF pausing[e] THEN <<FrameOf(resume)>> ELSE <<>>
ClearPausing(e) == pausing' = [pausing EXCEPT ![e] = FALSE]

\* Read returns a message, or nothing when the peer has written its last.
Read(e) ==
    /\ In(e, "read") /\ (cache[e] # <<>> \/ status[e] >= write_done)
    /\ Return(e)
    /\ IF cache[e] = <<>> THEN UNCHANGED <<cache, received, pausing, posted>>
       ELSE /\ received' = [received EXCEPT ![e] = Append(@, Head(cache[e]))]
            /\ cache' = [cache EXCEPT ![e] = Tail(@)]
            /\ IF Over(e) THEN UNCHANGED <<pausing, posted>>
               ELSE ClearPausing(e) /\ Post(e, ResumePosts(e))
    /\ UNCHANGED <<beats, ended, writeSide, reading, io, current, overlapped, waiting, written, finishing, net>>

\* Finish: the exchange of is_request_finishing; at the client an ended stream returns.
Finish(e) ==
    /\ In(e, "finish")
    /\ finishing' = [finishing EXCEPT ![e] = TRUE]
    /\ script' = [script EXCEPT ![e] = (IF Over(e) /\ e = "client" THEN <<>> ELSE <<"post">>) \o Tail(@)]
    /\ UNCHANGED <<beats, ended, posted, writeSide, readSide, waiting, written, received, net>>

\* The client posts its finish frame; both resume a paused read and wait.
PostFinish(e) ==
    /\ In(e, "post")
    /\ script' = [script EXCEPT ![e] = <<"wait">> \o Tail(@)]
    /\ ClearPausing(e)
    /\ Post(e, (IF e = "client" THEN <<FrameOf(finish)>> ELSE <<>>) \o ResumePosts(e))
    /\ UNCHANGED <<beats, ended, writeSide, reading, io, current, cache, overlapped, waiting, written,
                   received, finishing, net>>

EndFinish(e) ==
    /\ In(e, "wait") /\ Over(e)
    /\ Return(e)
    /\ UNCHANGED <<beats, ended, posted, writeSide, readSide, waiting, written, received, finishing, net>>

\* release_obj, called by the user before the stream has ended.
ReleaseObj(e) ==
    /\ In(e, "release")
    /\ Return(e)
    /\ valid' = [valid EXCEPT ![e] = FALSE]
    /\ Post(e, <<FrameOf(release)>>)
    /\ UNCHANGED <<beats, status, success, writeSide, readSide, waiting, written, received, finishing, net>>

-----------------------------------------------------------------------------
\* The network loses the connection.
Break ==
    /\ open["client"] \/ open["server"]
    /\ open' = [e \in End |-> FALSE] /\ wire' = [e \in End |-> <<>>]
    /\ UNCHANGED <<beats, ended, posted, writeSide, readSide, waiting, calls>>

Io(e) ==
    \/ RunPosted(e) \/ Written(e) \/ WriteFails(e) \/ ReadFrame(e) \/ ReadFails(e)
    \/ CheckPauseRead(e) \/ ReadNext(e)

User(e) ==
    \/ Write(e) \/ WriteDone(e) \/ Read(e) \/ Finish(e) \/ PostFinish(e) \/ EndFinish(e)
    \/ ReleaseObj(e)

Next ==
    /\ ~overlapped
    /\ \/ \E e \in End : Io(e) \/ TimerFires(e) \/ User(e)
       \/ Break

Spec == Init /\ [][Next]_vars

\* The io threads run what is ready, the timers fire, and a user thread whose wait
\* is over returns.
FairSpec ==
    /\ Spec
    /\ \A e \in End : /\ WF_vars(~overlapped /\ Io(e))
                      /\ WF_vars(~overlapped /\ TimerFires(e))
                      /\ WF_vars(~overlapped /\ User(e))

-----------------------------------------------------------------------------
(* What the stream promises. *)

\* One to n, in order.
Upto(n) == [i \in 1..n |-> i]

\* Through posts, queue, wire and cache, pausing and resuming, the reader gets the
\* peer's messages in order, each once and none skipped.
InOrder ==
    \A e \in End :
        LET seen == received[e] \o cache[e]
        IN seen = Upto(Len(seen)) /\ Len(seen) <= written[Peer(e)]

\* The pause holds the cache of an end that nobody reads to one message beyond the
\* limit at the server, and two at the client.
CacheBounded ==
    \A e \in End : ~overlapped => Len(cache[e]) <= ReadMax[e] + (IF e = "server" THEN 1 ELSE 2)

\* A server stream that ended with success has every message the client wrote
\* before WriteDone, as long as its own user has not given up on them by Finish.
SuccessIsComplete ==
    status["server"] = finish /\ success["server"] /\ ~finishing["server"] =>
        Len(received["server"] \o cache["server"]) >= written["client"]

\* When one end has ended, whatever the reason, no user stays blocked in Write, Read
\* or Finish at either end, not even behind a paused read.
EndReleasesUsers ==
    (\E e \in End : Over(e)) ~> overlapped \/ \A e \in End : script[e] = <<>>

=============================================================================
