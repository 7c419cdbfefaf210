-------------------------- MODULE ForwardConnection --------------------------
(* rpc_forward_connection, started as transparent_proxy_connection: it         *)
(* resolves and connects to a server and forwards bytes both ways between that *)
(* socket and the connection it was created for (the upstream).  Every handler *)
(* runs on one io thread, so a handler is one step; what interleaves is the    *)
(* order in which the operations in flight complete.                           *)
(*                                                                             *)
(* The two directions run the same code on the two halves of the state, and    *)
(* are one definition here: "c2s" is client2server, "s2c" server2client.  The  *)
(* unit of data is a chunk; the chunks of a direction are numbered from 1.     *)
EXTENDS Integers, Sequences

CONSTANTS kMaxForwardCacheNums,  \* buffers a cache may have before reading stops
          BufferChunks,          \* chunks a buffer holds (kCacheBufferSize)
          SpeedLimit,            \* config_control_window_size in chunks, 0: none
          kMaxReconnectCnts,
          Preread,               \* chunks read from the client before
          Tls,                   \* whether proxy_by_ssl() may be true
          MaxUp, MaxDown         \* bounds on what the client and the server send

ASSUME ForwardAssumption ==
    /\ kMaxForwardCacheNums \in Nat \ {0, 1} /\ BufferChunks \in Nat \ {0}
    /\ SpeedLimit \in Nat /\ kMaxReconnectCnts \in Nat /\ Tls \subseteq BOOLEAN
    /\ Preread \in 0..BufferChunks /\ MaxUp \in Nat /\ MaxDown \in Nat

Dir == {"c2s", "s2c"}
Side == {"client", "server"}
Source(d) == IF d = "c2s" THEN "client" ELSE "server"
Target(d) == IF d = "c2s" THEN "server" ELSE "client"
MaxChunks(d) == IF d = "c2s" THEN MaxUp ELSE MaxDown

\* TrafficProxyStatusMask: a direction's reading and writing end, on the socket they use.
Reading(d) == IF d = "c2s" THEN "UpstreamReading" ELSE "DownstreamReading"
Writing(d) == IF d = "c2s" THEN "DownstreamWriting" ELSE "UpstreamWriting"
UpstreamBits == {"UpstreamReading", "UpstreamWriting"}
DownstreamBits == {"DownstreamReading", "DownstreamWriting"}
TrafficProxyCloseAll == UpstreamBits \cup DownstreamBits \cup {"ProxyDnsResolving", "ServerConnecting"}

VARIABLES conn,       \* the connection object and its operations in flight
          total,      \* chunks each source sends
          ends,       \* whether a source then closes its sending half
          broken,     \* ends whose connection was reset
          taken,      \* chunks of a source that have been read
          delivered,  \* chunks each target has been sent, in order
          aborted     \* something other than the end of a stream ended the forwarding

script == <<total, ends>>
data == <<taken, delivered>>
vars == <<conn, script, broken, data, aborted>>

Operation == {"none", "pending", "doomed"}
Phase == {"none", "resolving", "connecting", "established", "refused", "waiting", "handshaking", "failed", "forwarding"}
Buffer == [data : Seq(Nat), sent : Nat]
Connection ==
    [status : SUBSET TrafficProxyCloseAll, valid : BOOLEAN, cache : [Dir -> Seq(Buffer)],
     is_writing : [Dir -> BOOLEAN], delay_read_more : [Dir -> BOOLEAN],
     window : {0, SpeedLimit}, recv_window : [Dir -> 0..SpeedLimit],
     read : [Dir -> Operation], write : [Dir -> Operation], out : [Dir -> Seq(Nat)],
     idle : BOOLEAN, traffic : BOOLEAN, connect : Phase, tries : 0..kMaxReconnectCnts, tls : BOOLEAN,
     fin : SUBSET Side, closed : SUBSET Side, releasing : BOOLEAN, closing : BOOLEAN, overlapped : BOOLEAN]

TypeOK ==
    /\ conn \in Connection
    /\ \A d \in Dir : \A i \in 1..Len(conn.cache[d]) :
          Len(conn.cache[d][i].data) <= BufferChunks /\ conn.cache[d][i].sent <= Len(conn.cache[d][i].data)
    /\ total \in [Dir -> Nat] /\ ends \in [Dir -> BOOLEAN] /\ taken \in [Dir -> Nat]
    /\ delivered \in [Dir -> Seq(Nat)] /\ broken \subseteq Side /\ aborted \in BOOLEAN

-----------------------------------------------------------------------------
\* proxy_buffer.cpp: readOffset is Len(data), writeOffset is sent.
NewBuffer == [data |-> <<>>, sent |-> 0]
Drained(b) == b.sent = Len(b.data)

PrepareReadCache(cache) ==
    IF cache = <<>> \/ Len(cache[Len(cache)].data) = BufferChunks THEN Append(cache, NewBuffer) ELSE cache

UpdateReadBuffer(cache, chunk) == [cache EXCEPT ![Len(cache)].data = Append(@, chunk)]

UpdateWriteBufferWhole(cache, n) == [cache EXCEPT ![1].sent = Len(cache[1].data)]
UpdateWriteBuffer(cache, n) == [cache EXCEPT ![1].sent = @ + n]

\* The loop of PrepareWriteCache: drained buffers leave, but the last one stays.
DropDrained(cache) ==
    LET keep == {i \in DOMAIN cache : i = Len(cache) \/ ~Drained(cache[i])}
    IN  SubSeq(cache, CHOOSE i \in keep : \A j \in keep : i <= j, Len(cache))

\* What PrepareWriteCache returns for the cache that its loop leaves.
NeedWrite(cache, is_writing) == ~(Len(cache) = 1 /\ Drained(cache[1])) /\ ~is_writing

GetWriteBuffer(cache) == SubSeq(cache[1].data, cache[1].sent + 1, Len(cache[1].data))

\* All that a cache holds and no write has taken.
Unsent(cache) ==
    LET RestOf(i) == SubSeq(cache[i].data, cache[i].sent + 1, Len(cache[i].data))
        rest[i \in 0..Len(cache)] == IF i = 0 THEN <<>> ELSE rest[i - 1] \o RestOf(i)
    IN  rest[Len(cache)]

-----------------------------------------------------------------------------
\* The code's functions, as functions of the connection's state.  Then(c, F) is F(c), with
\* c evaluated once however often F uses it.
Then(c, F(_)) == CHOOSE r \in {F(x) : x \in {c}} : TRUE

HasReachSpeedLimit(c, d) == c.window > 0 /\ c.recv_window[d] = 0

\* StartClientRead, StartServerRead.  On a closed socket the read can only fail.
StartRead(c0, d) == Then(c0, LAMBDA c :
    IF Reading(d) \notin c.status THEN c
    ELSE [c EXCEPT !.cache[d] = PrepareReadCache(@),
                   !.overlapped = @ \/ c.read[d] /= "none",
                   !.read[d] = IF Source(d) \in c.closed THEN "doomed" ELSE "pending"])

\* What StartClient2ServerWrite, StartServer2ClientWrite and resume_traffic_control_read
\* do for a reader that was stopped.
ResumeReadTwice(c0, d) == Then(c0, LAMBDA c : IF c.delay_read_more[d] THEN StartRead(c, d) ELSE c)
ResumeRead(c0, d) == Then(c0, LAMBDA c :
    IF c.delay_read_more[d] /\ Len(c.cache[d]) < kMaxForwardCacheNums /\ ~HasReachSpeedLimit(c, d)
    THEN StartRead([c EXCEPT !.delay_read_more[d] = FALSE], d)
    ELSE c)

\* expires_after cancels the wait that is pending; its handler returns on the error.
RestartTimeoutIdleCheck(c) == [c EXCEPT !.idle = FALSE]

\* Phases in which proxy_socket_ is connected; shutdown fails in the others.
HasPeer == {"established", "handshaking", "failed", "forwarding"}

\* HandleDisconnect, in the order of its parts: the reading ends that die.
HalfClose(c0, mask) == Then(c0, LAMBDA c :
    LET dying == {d \in Dir : Reading(d) \in mask}
        reached == {Target(d) : d \in dying} \ (IF c.connect \in HasPeer THEN {} ELSE {"server"})
        limitless == [c EXCEPT !.fin = @ \cup reached, !.traffic = FALSE, !.window = 0]
    IN  IF dying = {} THEN c
        ELSE RestartTimeoutIdleCheck(ResumeRead(ResumeRead(limitless, "c2s"), "s2c")))

\* The upstream's ends; upstream->release_obj() posts its close.
CloseUpstreamEnds(c0, mask) == Then(c0, LAMBDA c :
    LET left == c.status \ (mask \cap UpstreamBits)
        last == c.status \cap UpstreamBits /= {} /\ left \cap UpstreamBits = {}
    IN  [c EXCEPT !.status = left, !.closing = @ \/ last])

\* The server's ends.  delay_reconnect_timer.cancel() gives up a reconnect that waits.
CloseDownstreamEnds(c0, mask) == Then(c0, LAMBDA c :
    LET bits == DownstreamBits \cup {"ServerConnecting"}
        left == c.status \ (mask \cap bits)
        last == c.status \cap bits /= {} /\ left \cap bits = {}
    IN  [c EXCEPT !.status = left,
                  !.connect = IF mask \cap bits /= {} /\ @ = "waiting" THEN "none" ELSE @,
                  !.closed = IF last THEN @ \cup {"server"} ELSE @,
                  !.fin = IF last THEN @ \cup {"server"} ELSE @])

HasReader(c) == \E d \in Dir : Reading(d) \in c.status

\* With a TLS stream the function returns as soon as the socket is closed.
StopTimers(c0, closedBefore) == Then(c0, LAMBDA c :
    IF c.tls /\ "server" \in c.closed \ closedBefore THEN c
    ELSE [c EXCEPT !.idle = @ /\ c.status \cap (UpstreamBits \cup DownstreamBits) /= {},
                   !.traffic = @ /\ HasReader(c)])

Disconnect(c0, mask) == Then(CloseUpstreamEnds(HalfClose(c0, mask), mask), LAMBDA c :
    LET undns == [c EXCEPT !.status = @ \ (mask \cap {"ProxyDnsResolving"})]
    IN  StopTimers(CloseDownstreamEnds(undns, mask), c.closed))

\* A writing end that dies takes the reading end of its direction along.
HandleDisconnectBothWays(c, closeMask) == Disconnect(c, TrafficProxyCloseAll)
HandleDisconnect(c, closeMask) ==
    Disconnect(c, closeMask \cup {Reading(d) : d \in {e \in Dir : Writing(e) \in closeMask}})

\* StartClient2ServerWrite, StartServer2ClientWrite.  A write that follows the end of
\* the sending half, or the close, can only fail.
IssueWrite(c0, d) == Then(c0, LAMBDA c :
    [c EXCEPT !.overlapped = @ \/ c.write[d] /= "none",
              !.write[d] = IF Target(d) \in c.fin \cup c.closed THEN "doomed" ELSE "pending",
              !.out[d] = GetWriteBuffer(c.cache[d])])

StartWriteUnfinished(c0, d) == Then(c0, LAMBDA c :
    LET cache == DropDrained(c.cache[d])
        need == NeedWrite(cache, c.is_writing[d])
        ready == ResumeRead([c EXCEPT !.cache[d] = cache, !.is_writing[d] = @ \/ need], d)
    IN  CASE Writing(d) \notin c.status -> c
          [] Writing(d) \in c.status /\ need -> IssueWrite(ready, d)
          [] OTHER -> ready)

StartWrite(c0, d) == Then(c0, LAMBDA c :
    LET cache == DropDrained(c.cache[d])
        need == NeedWrite(cache, c.is_writing[d])
        ready == ResumeRead([c EXCEPT !.cache[d] = cache, !.is_writing[d] = @ \/ need], d)
    IN  CASE Writing(d) \notin c.status -> c
          [] Writing(d) \in c.status /\ need -> IssueWrite(ready, d)
          [] Writing(d) \in c.status /\ ~need /\ Reading(d) \notin c.status ->
                HandleDisconnect(ready, {Writing(d)})
          [] OTHER -> ready)

\* StartForward, with start_forward_traffic_control.
StartForward(c) ==
    LET toggled == IF "ServerConnecting" \in c.status THEN c.status \ {"ServerConnecting"}
                   ELSE c.status \cup {"ServerConnecting"}
        open == [c EXCEPT !.status = toggled \cup DownstreamBits, !.connect = "forwarding",
                          !.window = SpeedLimit, !.recv_window = [d \in Dir |-> SpeedLimit],
                          !.traffic = SpeedLimit > 0]
    IN  StartWrite(StartRead(open, "s2c"), "c2s")

-----------------------------------------------------------------------------
\* The constructor with the data read before, and start() up to process_protocal:
\* the idle check is armed, the name is being resolved and the client is being read.
Init ==
    /\ \E tls \in Tls :
          LET first == [data |-> [i \in 1..Preread |-> i], sent |-> 0]
              c == [status |-> UpstreamBits \cup {"ProxyDnsResolving"}, valid |-> TRUE,
                    cache |-> [d \in Dir |-> IF d = "c2s" THEN <<first>> ELSE <<>>],
                    is_writing |-> [d \in Dir |-> FALSE], delay_read_more |-> [d \in Dir |-> FALSE],
                    window |-> 0, recv_window |-> [d \in Dir |-> 0],
                    read |-> [d \in Dir |-> "none"], write |-> [d \in Dir |-> "none"],
                    out |-> [d \in Dir |-> <<>>], idle |-> TRUE, traffic |-> FALSE,
                    connect |-> "resolving", tries |-> 0, tls |-> tls, fin |-> {}, closed |-> {},
                    releasing |-> FALSE, closing |-> FALSE, overlapped |-> FALSE]
          IN  /\ conn = StartRead(c, "c2s")
              /\ taken = [d \in Dir |-> IF d = "c2s" THEN Preread ELSE 0]
    /\ ends \in [Dir -> BOOLEAN]
    /\ total \in {f \in [Dir -> 0..MaxUp + MaxDown] :
                    \A d \in Dir : f[d] \in (IF ends[d] THEN taken[d] ELSE MaxChunks(d))..MaxChunks(d)}
    /\ broken = {} /\ delivered = [d \in Dir |-> <<>>]
    /\ aborted = FALSE

\* A handler that finds reference_ invalid returns; its operation is over all the same.
Handle(c, over) == conn' = IF conn.valid THEN c ELSE over

\* The handler of async_resolve.
Resolved ==
    LET over == [conn EXCEPT !.connect = "none"]
        c == [over EXCEPT !.status = IF "ProxyDnsResolving" \in @ THEN @ \ {"ProxyDnsResolving"}
                                     ELSE @ \cup {"ProxyDnsResolving"}]
    IN  /\ conn.connect = "resolving"
        /\ \/ /\ Handle(IF UpstreamBits \subseteq c.status
                        THEN [c EXCEPT !.status = @ \cup {"ServerConnecting"}, !.connect = "connecting"]
                        ELSE c, over)
              /\ UNCHANGED aborted
           \/ /\ Handle(HandleDisconnect(c, TrafficProxyCloseAll), over)
              /\ aborted' = TRUE
        /\ UNCHANGED <<script, broken, data>>

\* The kernel completes a connect; its handler is queued.
Establish ==
    /\ conn.connect = "connecting" /\ "server" \notin conn.closed
    /\ \E result \in {"established", "refused"} : conn' = [conn EXCEPT !.connect = result]
    /\ UNCHANGED <<script, broken, data, aborted>>

\* The handler of async_connect: HandleConnectSuccess; DoDelayReconnect, with its bound,
\* for an error worth another attempt; HandleDisconnect for the others.
Connected ==
    LET over == [conn EXCEPT !.connect = "none"]
        retry == conn.tries + 1 < kMaxReconnectCnts
    IN  /\ \/ /\ conn.connect = "established"
              /\ Handle(IF conn.tls THEN [conn EXCEPT !.connect = "handshaking"] ELSE StartForward(conn), over)
              /\ UNCHANGED aborted
           \/ /\ conn.connect = "refused" /\ retry
              /\ Handle([conn EXCEPT !.connect = "waiting", !.tries = @ + 1], over)
              /\ UNCHANGED aborted
           \/ /\ conn.connect = "connecting" \/ (conn.connect = "refused" /\ ~retry)
              /\ Handle(HandleDisconnect(over, TrafficProxyCloseAll), over)
              /\ aborted' = TRUE
        /\ UNCHANGED <<script, broken, data>>

\* delay_reconnect_timer expires: DoProxyConnect opens the socket anew.
Reconnect ==
    /\ conn.connect = "waiting"
    /\ Handle([conn EXCEPT !.connect = "connecting", !.closed = @ \ {"server"}, !.fin = @ \ {"server"}],
              [conn EXCEPT !.connect = "none"])
    /\ UNCHANGED <<script, broken, data, aborted>>

\* ssl_handshake: an error leaves the connection as it is.
Handshaken ==
    /\ conn.connect = "handshaking"
    /\ \/ /\ Handle(StartForward(conn), [conn EXCEPT !.connect = "none"])
          /\ UNCHANGED aborted
       \/ /\ conn' = [conn EXCEPT !.connect = "failed"]
          /\ aborted' = TRUE
    /\ UNCHANGED <<script, broken, data>>

\* The end of the read handler, which the ScopeGuard makes the start of a write.
ReadMore(c, d) ==
    IF Len(c.cache[d]) >= kMaxForwardCacheNums \/ HasReachSpeedLimit(c, d)
    THEN [c EXCEPT !.delay_read_more[d] = TRUE]
    ELSE StartRead(c, d)

\* The handler of a read that has got a chunk.
ReadSome(d) ==
    LET over == [conn EXCEPT !.read[d] = "none"]
        c == [RestartTimeoutIdleCheck(over) EXCEPT
                  !.cache[d] = UpdateReadBuffer(@, taken[d] + 1),
                  !.recv_window[d] = IF @ > 0 THEN @ - 1 ELSE 0]
    IN  /\ conn.read[d] = "pending" /\ taken[d] < total[d]
        /\ taken' = [taken EXCEPT ![d] = @ + 1]
        /\ Handle(StartWrite(ReadMore(c, d), d), over)
        /\ UNCHANGED <<script, broken, delivered, aborted>>

\* The handler of a read that has failed: the end of the stream, a reset, a closed socket.
ReadEnds(d) ==
    LET over == [conn EXCEPT !.read[d] = "none"]
        c == RestartTimeoutIdleCheck(over)
    IN  /\ \/ conn.read[d] = "doomed"
           \/ conn.read[d] = "pending" /\ (Source(d) \in conn.closed \cup broken \/ (ends[d] /\ taken[d] = total[d]))
        /\ Handle(StartWrite(HandleDisconnect(c, {Reading(d)}), d), over)
        /\ UNCHANGED <<script, broken, data, aborted>>

\* The handler of a write that has taken n chunks.
WriteSome(d, n) ==
    LET over == [conn EXCEPT !.write[d] = "none", !.out[d] = <<>>]
        c == [RestartTimeoutIdleCheck(over) EXCEPT !.is_writing[d] = FALSE, !.cache[d] = UpdateWriteBuffer(@, n)]
    IN  /\ conn.write[d] = "pending" /\ n \in 1..Len(conn.out[d])
        /\ delivered' = [delivered EXCEPT ![d] = @ \o SubSeq(conn.out[d], 1, n)]
        /\ Handle(StartWrite(c, d), over)
        /\ UNCHANGED <<script, broken, taken, aborted>>

\* The handler of a write that has failed.
WriteFails(d) ==
    LET over == [conn EXCEPT !.write[d] = "none", !.out[d] = <<>>]
    IN  /\ \/ conn.write[d] = "doomed"
           \/ conn.write[d] = "pending" /\ Target(d) \in conn.fin \cup conn.closed \cup broken
        /\ Handle(HandleDisconnect(over, {Writing(d)}), over)
        /\ UNCHANGED <<script, broken, data, aborted>>

\* RestartTrafficControlUpdate's handler: the next second begins.
TrafficTick ==
    LET over == [conn EXCEPT !.traffic = FALSE]
        c == [conn EXCEPT !.recv_window = [d \in Dir |-> conn.window]]
    IN  /\ conn.traffic
        /\ Handle(IF HasReader(conn) THEN ResumeRead(ResumeRead(c, "c2s"), "s2c") ELSE over,
                  over)
        /\ UNCHANGED <<script, broken, data, aborted>>

\* The idle check of start().
IdleExpires ==
    LET over == [conn EXCEPT !.idle = FALSE]
    IN  /\ conn.idle
        /\ Handle(HandleDisconnect(over, TrafficProxyCloseAll), over)
        /\ aborted' = TRUE
        /\ UNCHANGED <<script, broken, data>>

\* release_obj, called by the pool that stops, and what it posts.
ReleaseObj ==
    /\ conn.valid
    /\ conn' = [conn EXCEPT !.valid = FALSE, !.releasing = TRUE]
    /\ aborted' = TRUE
    /\ UNCHANGED <<script, broken, data>>

Release ==
    /\ conn.releasing
    /\ conn' = HandleDisconnect([conn EXCEPT !.releasing = FALSE], TrafficProxyCloseAll)
    /\ UNCHANGED <<script, broken, data, aborted>>

\* What the upstream's release_obj has posted: rpc_connection::close.
CloseUpstream ==
    /\ conn.closing
    /\ conn' = [conn EXCEPT !.closing = FALSE, !.closed = @ \cup {"client"}, !.fin = @ \cup {"client"}]
    /\ UNCHANGED <<script, broken, data, aborted>>

-----------------------------------------------------------------------------
\* One of the two connections is reset.
PeerBreaks(s) ==
    /\ broken = {} /\ s \notin conn.closed /\ (s = "server" => conn.connect \in HasPeer)
    /\ broken' = {s} /\ aborted' = TRUE
    /\ UNCHANGED <<conn, script, data>>

Next ==
    \/ Resolved \/ Establish \/ Connected \/ Reconnect \/ Handshaken
    \/ TrafficTick \/ IdleExpires \/ ReleaseObj \/ Release \/ CloseUpstream
    \/ \E d \in Dir : ReadSome(d) \/ ReadEnds(d) \/ WriteFails(d)
    \/ \E d \in Dir, n \in 1..BufferChunks : WriteSome(d, n)
    \/ \E s \in Side : PeerBreaks(s)

\* asio completes the operations and the timers that are started, and runs what is
\* posted; a target that has not ended its connection reads.
Fairness ==
    /\ WF_vars(Resolved) /\ WF_vars(Establish) /\ WF_vars(Connected) /\ WF_vars(Reconnect) /\ WF_vars(Handshaken)
    /\ WF_vars(TrafficTick) /\ WF_vars(Release) /\ WF_vars(CloseUpstream)
    /\ \A d \in Dir : /\ WF_vars(ReadSome(d) \/ ReadEnds(d))
                      /\ WF_vars(WriteFails(d) \/ \E n \in 1..BufferChunks : WriteSome(d, n))

Spec == Init /\ [][Next]_vars /\ Fairness

-----------------------------------------------------------------------------
\* What a direction has read is what it has delivered and what it holds, in order, for
\* as long as reference_ is valid: the buffers, the partial writes and the reads that extend a
\* buffer while it is being written neither lose, repeat nor reorder a chunk.
NothingLostInside ==
    \A d \in Dir :
        /\ delivered[d] = [i \in 1..Len(delivered[d]) |-> i]
        /\ conn.valid => delivered[d] \o Unsent(conn.cache[d]) = [i \in 1..taken[d] |-> i]

\* One read and one write at most are in flight on each socket, whichever of the
\* handlers, the speed control and a half close restarts a reader that was stopped.
OneOperationEach == ~conn.overlapped

\* What a source that does not end its stream sends reaches the other end, whatever
\* becomes of the opposite direction: a half close does not stop the surviving one, and
\* a reader that was stopped is started again.
SurvivingDirectionDelivers ==
    \A d \in Dir : ~ends[d] /\ conn.connect = "forwarding" ~> Len(delivered[d]) = total[d] \/ aborted

\* Once forwarding, the ends of both streams take the connection down: both sockets are
\* closed without the help of the idle check.
BothEndsTearDown ==
    /\ conn.connect = "forwarding" /\ "ServerConnecting" \notin conn.status
    /\ \A d \in Dir : ends[d] \/ Source(d) \in broken
    ~> conn.closed = Side
=============================================================================
