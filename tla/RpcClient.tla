------------------------------ MODULE RpcClient ------------------------------
(* rpc_client over plain TCP: connecting, reconnecting, the calls with their   *)
(* timeouts, the outbox, the read loop, the deadline timer and the release.    *)
(* User threads make calls; everything else runs on one io thread, as what has *)
(* been posted to it or as the handler of an asynchronous operation.  A closed *)
(* socket does not take its operations' handlers back: each carries the epoch  *)
(* of the connection it was started for.                                       *)
(*                                                                             *)
(* The server answers the requests of a connection in any order, or not at     *)
(* all.  A message is read and written whole.                                  *)
EXTENDS Integers, Sequences

CONSTANTS Call,         \* calls the users make
          MaxAttempts,  \* bound on connection attempts
          MaxBeats      \* bound on heartbeats

\* A heartbeat has request id 0; it belongs to no call.
beat == "beat"
Message == Call \cup {beat}

ASSUME RpcClientAssumption == MaxAttempts \in Nat \ {0} /\ MaxBeats \in Nat /\ beat \notin Call

VARIABLES client,           \* what only the io thread touches, and the two it shares:
                            \*   status and map (under rpc_calls_mtx_)
          enable_reconnect,
          reference,        \* reference_ is valid
          posted,           \* what is posted to the io thread, in order
          armed,            \* calls whose timer is running
          result,           \* how a call has finished
          stage,            \* where the user is in a call
          b_wait_any_data,
          dropped,          \* the deadline timer closed the connection
          attempts, beats,  \* how often do_async_connect and the heartbeat have run
          requests,         \* what the server has got over the current connection
          responses,        \* what it has sent and nobody has read
          sent              \* how often a call was written to a socket

server == <<requests, responses>>
finished == <<armed, result>>
idle == <<b_wait_any_data, dropped, beats>>
user == <<stage, enable_reconnect>>
vars == <<client, reference, posted, attempts, sent, finished, idle, user, server>>

\* Each attempt ends with a close and a new socket at most, and the client with a close.
Epoch == 0..2 * MaxAttempts + 1
Op == [kind : {"resolve", "connect", "read", "write", "delay"}, epoch : Epoch, message : Message]
Item == [kind : {"connect", "release", "arm", "write"}, message : Message]

TypeOK ==
    /\ client.status \in {"wait_connecting", "dns_resolving", "tcp_handshaking", "ready", "closed"}
    /\ client.epoch \in Epoch /\ client.peer \in {"none", "up", "down"}
    /\ DOMAIN client.ops \subseteq Op /\ \A op \in DOMAIN client.ops : client.ops[op] \in Nat \ {0}
    /\ \A i \in DOMAIN client.outbox : client.outbox[i] \in Message
    /\ client.map \subseteq Call /\ armed \subseteq Call
    /\ enable_reconnect \in BOOLEAN /\ reference \in BOOLEAN
    /\ \A i \in DOMAIN posted : posted[i] \in Item
    /\ result \in [Call -> {"none", "answer", "timeout", "broken"}]
    /\ stage \in [Call -> {"idle", "begun", "mapped", "asked"}]
    /\ b_wait_any_data \in BOOLEAN /\ dropped \in BOOLEAN
    /\ attempts \in 0..MaxAttempts /\ beats \in 0..MaxBeats
    /\ requests \subseteq Message /\ responses \subseteq Message
    /\ sent \in [Call -> Nat]

\* The client before connect; enable_auto_reconnect, if it is used, has been called.
Init ==
    /\ client = [status |-> "closed", epoch |-> 0, peer |-> "none", ops |-> <<>>, outbox |-> <<>>,
                 map |-> {}]
    /\ enable_reconnect \in BOOLEAN /\ reference = TRUE /\ posted = <<>>
    /\ armed = {} /\ result = [c \in Call |-> "none"] /\ stage = [c \in Call |-> "idle"]
    /\ b_wait_any_data = FALSE /\ dropped = FALSE /\ attempts = 0 /\ beats = 0
    /\ requests = {} /\ responses = {} /\ sent = [c \in Call |-> 0]

Post(kind, message) == posted' = Append(posted, [kind |-> kind, message |-> message])

\* rpc_request_context::finish: the first result stands, and the timer is cancelled.
Finish(done, how) ==
    /\ result' = [c \in Call |-> IF c \in done /\ result[c] = "none" THEN how ELSE result[c]]
    /\ armed' = armed \ done

-----------------------------------------------------------------------------
(* The functions the handlers are made of, on the state s of the client.       *)

\* One operation more or less in flight: ops is a bag, a function to how many there are.
Plus(ops, op) ==
    IF op \in DOMAIN ops THEN [ops EXCEPT ![op] = @ + 1]
    ELSE [o \in DOMAIN ops \cup {op} |-> IF o = op THEN 1 ELSE ops[o]]
Minus(ops, op) ==
    IF ops[op] = 1 THEN [o \in DOMAIN ops \ {op} |-> ops[o]] ELSE [ops EXCEPT ![op] = @ - 1]

Has_connected(s) == s.status = "ready"

\* An operation is started for the current connection; a write carries its message.
StartedWith(s, kind, message) ==
    [s EXCEPT !.ops = Plus(@, [kind |-> kind, epoch |-> s.epoch, message |-> message])]
Started(s, kind) == StartedWith(s, kind, beat)

\* close, with clear_cache: the calls it takes out of the map are finished by whoever
\* applies the new state.
Close(s, forced) ==
    IF ~Has_connected(s) /\ ~forced THEN s
    ELSE [s EXCEPT !.status = "closed", !.epoch = @ + 1, !.peer = "none", !.outbox = <<>>, !.map = {}]

\* async_reconnect, with reset_socket: only from closed.
AsyncReconnect(s) ==
    IF ~reference \/ s.status # "closed" THEN s
    ELSE Started([s EXCEPT !.epoch = @ + 1, !.peer = "none", !.status = "wait_connecting"], "delay")

ErrorCallback(s) == IF enable_reconnect THEN AsyncReconnect(s) ELSE s

DoAsyncConnect(s) == Started([s EXCEPT !.status = "dns_resolving"], "resolve")

\* error_handle_func on an error; enable_auto_reconnect makes reconnect_cnt_ unlimited,
\* and without it none is left.
ConnectFails(s) ==
    IF enable_reconnect THEN AsyncReconnect([s EXCEPT !.status = "closed"]) ELSE [s EXCEPT !.status = "closed"]

DoRead(s) == Started(s, "read")

DoWrite(s) == IF s.outbox = <<>> \/ ~Has_connected(s) THEN s ELSE StartedWith(s, "write", Head(s.outbox))

QueueAlwaysWrites(s, message) == DoWrite([s EXCEPT !.outbox = Append(@, message)])

\* The write handler's post: only an outbox that was empty starts a write.
Queue(s, message) ==
    LET queued == [s EXCEPT !.outbox = Append(@, message)]
    IN IF Len(queued.outbox) > 1 THEN queued ELSE DoWrite(queued)

\* handle_connect_success without a proxy or TLS, and rpc_protocal_ready; nobody has
\* subscribed.
Ready(s) == DoWrite(DoRead([s EXCEPT !.status = "ready", !.peer = "up"]))

BecomesSilently(s) == client' = s /\ UNCHANGED finished

\* The client's new state, with the calls clear_cache has taken out of the map.
Becomes(s) ==
    /\ client' = s
    /\ Finish(client.map \ s.map, "broken")

-----------------------------------------------------------------------------
(* The users. *)

\* connect, called once, by a user who has not released the client.
Connect ==
    /\ attempts = 0 /\ posted = <<>> /\ client.status = "closed" /\ reference
    /\ client' = [client EXCEPT !.status = "wait_connecting"]
    /\ Post("connect", beat)
    /\ UNCHANGED <<reference, attempts, sent, finished, idle, user, server>>

\* EmplaceNewCall posts the arming of the timer, and then enters the call in the map.
Begin(c) ==
    /\ stage[c] = "idle"
    /\ stage' = [stage EXCEPT ![c] = "begun"]
    /\ Post("arm", c)
    /\ UNCHANGED <<client, reference, attempts, sent, finished, idle, enable_reconnect, server>>

Emplace(c) ==
    /\ stage[c] = "begun"
    /\ stage' = [stage EXCEPT ![c] = "mapped"]
    /\ client' = [client EXCEPT !.map = @ \cup {c}]
    /\ UNCHANGED <<reference, posted, attempts, sent, finished, idle, enable_reconnect, server>>

\* The request is posted, by the caller or when its result_context is destroyed.
Ask(c) ==
    /\ stage[c] = "mapped"
    /\ stage' = [stage EXCEPT ![c] = "asked"]
    /\ Post("write", c)
    /\ UNCHANGED <<client, reference, attempts, sent, finished, idle, enable_reconnect, server>>

\* release_obj.
ReleaseObj ==
    /\ reference
    /\ reference' = FALSE
    /\ Post("release", beat)
    /\ UNCHANGED <<client, attempts, sent, finished, idle, user, server>>

-----------------------------------------------------------------------------
(* The io thread: what is posted. *)

RunPosted ==
    /\ posted # <<>> /\ posted' = Tail(posted)
    /\ LET item == Head(posted)
       IN \/ /\ item.kind = "connect"
             /\ Becomes(DoAsyncConnect(client)) /\ attempts' = attempts + 1
          \/ /\ item.kind = "release"
             /\ Becomes(Close(client, TRUE)) /\ UNCHANGED attempts
          \/ /\ item.kind = "arm"
             /\ armed' = IF reference /\ result[item.message] = "none" THEN armed \cup {item.message} ELSE armed
             /\ UNCHANGED <<client, result, attempts>>
          \/ /\ item.kind = "write"
             /\ Becomes(IF reference THEN Queue(client, item.message) ELSE client)
             /\ UNCHANGED attempts
    /\ UNCHANGED <<reference, sent, idle, user, server>>

-----------------------------------------------------------------------------
(* The io thread: the handlers. *)

\* A handler runs: its operation is over.  It does nothing more once the client is
\* released or the connection is another one.
Pending(kind) == {op \in DOMAIN client.ops : op.kind = kind}
Over(op) == [client EXCEPT !.ops = Minus(@, op)]
Stale(op) == ~reference \/ op.epoch # client.epoch

Discarded ==
    /\ \E kind \in {"resolve", "connect", "read", "write"} :
       \E op \in Pending(kind) : Stale(op) /\ client' = Over(op)
    /\ UNCHANGED <<reference, posted, attempts, sent, finished, idle, user, server>>

Resolved ==
    /\ \E op \in Pending("resolve") :
          /\ ~Stale(op)
          /\ Becomes(IF Has_connected(client) THEN Over(op)
                   ELSE Started([Over(op) EXCEPT !.status = "tcp_handshaking"], "connect"))
    /\ UNCHANGED <<reference, posted, attempts, sent, idle, user, server>>

Connected ==
    /\ \E op \in Pending("connect") :
          /\ ~Stale(op)
          /\ Becomes(IF Has_connected(client) THEN Over(op) ELSE Ready(Over(op)))
    /\ requests' = {} /\ responses' = {}
    /\ UNCHANGED <<reference, posted, attempts, sent, idle, user>>

\* The name is not resolved, or nobody accepts.
Refused ==
    /\ \E op \in Pending("resolve") \cup Pending("connect") :
          /\ ~Stale(op)
          /\ Becomes(IF Has_connected(client) THEN Over(op) ELSE ConnectFails(Over(op)))
    /\ UNCHANGED <<reference, posted, attempts, sent, idle, user, server>>

\* The delay timer looks at the reference alone.
DelayOver ==
    /\ attempts < MaxAttempts
    /\ \E op \in Pending("delay") :
          IF reference THEN Becomes(DoAsyncConnect(Over(op))) /\ attempts' = attempts + 1
          ELSE Becomes(Over(op)) /\ UNCHANGED attempts
    /\ UNCHANGED <<reference, posted, sent, idle, user, server>>

\* What a completed write tells the server, or nobody when it has just gone.
Delivers(message) ==
    /\ requests' = IF client.peer = "up" THEN requests \cup {message} ELSE requests
    /\ sent' = [c \in Call |-> IF c = message THEN sent[c] + 1 ELSE sent[c]]

WriteDoneKeepsLast ==
    /\ \E op \in Pending("write") :
          /\ ~Stale(op) /\ client.outbox # <<>>
          /\ client' = DoWrite([Over(op) EXCEPT !.outbox = IF Len(@) > 1 THEN Tail(@) ELSE @])
          /\ Delivers(op.message)
    /\ b_wait_any_data' = FALSE
    /\ UNCHANGED <<reference, posted, attempts, finished, dropped, beats, user, responses>>

\* A message is written; the next one follows.
WriteDone ==
    /\ \E op \in Pending("write") :
          /\ ~Stale(op) /\ client.outbox # <<>>
          /\ client' = DoWrite([Over(op) EXCEPT !.outbox = Tail(@)])
          /\ Delivers(op.message)
    /\ b_wait_any_data' = FALSE
    /\ UNCHANGED <<reference, posted, attempts, finished, dropped, beats, user, responses>>

\* An answer is read: call_back takes the call out of the map, if it is still there.
ReadDone ==
    /\ \E op \in Pending("read"), message \in responses :
          /\ ~Stale(op)
          /\ client' = DoRead([Over(op) EXCEPT !.map = @ \ {message}])
          /\ Finish(client.map \cap {message}, "answer")
          /\ responses' = responses \ {message}
    /\ b_wait_any_data' = FALSE
    /\ UNCHANGED <<reference, posted, attempts, sent, dropped, beats, user, requests>>

TransferFailsReportsFirst ==
    /\ \E op \in Pending("read") \cup Pending("write") :
          /\ ~Stale(op) /\ client.peer = "down"
          /\ Becomes(Close(ErrorCallback(Over(op)), FALSE))
    /\ UNCHANGED <<reference, posted, attempts, sent, idle, user, server>>

\* A read or a write fails once the server is gone: close and error_callback.
TransferFails ==
    /\ \E op \in Pending("read") \cup Pending("write") :
          /\ ~Stale(op) /\ client.peer = "down"
          /\ Becomes(ErrorCallback(Close(Over(op), FALSE)))
    /\ UNCHANGED <<reference, posted, attempts, sent, idle, user, server>>

-----------------------------------------------------------------------------
(* The io thread: the timers. *)

\* The timer of a call finishes it and takes it out of the map.
CallTimeout(c) ==
    /\ c \in armed
    /\ IF reference THEN Finish({c}, "timeout") /\ client' = [client EXCEPT !.map = @ \ {c}]
       ELSE armed' = armed \ {c} /\ UNCHANGED <<client, result>>
    /\ UNCHANGED <<reference, posted, attempts, sent, idle, user, server>>

\* reset_deadline_timer: a period without a read or a write closes the connection, and
\* no more; the others send a heartbeat.
Deadline ==
    /\ reference /\ beats < MaxBeats
    /\ IF ~Has_connected(client)
       THEN b_wait_any_data' = FALSE /\ UNCHANGED <<client, finished, posted, dropped, beats>>
       ELSE IF b_wait_any_data
       THEN /\ Becomes(Close(client, FALSE))
            /\ b_wait_any_data' = FALSE /\ dropped' = TRUE
            /\ UNCHANGED <<posted, beats>>
       ELSE /\ b_wait_any_data' = TRUE /\ beats' = beats + 1
            /\ Post("write", beat)
            /\ UNCHANGED <<client, finished, dropped>>
    /\ UNCHANGED <<reference, attempts, sent, user, server>>

-----------------------------------------------------------------------------
(* The server and the network. *)

Serve ==
    /\ client.peer = "up"
    /\ \E message \in requests :
          requests' = requests \ {message} /\ responses' = responses \cup {message}
    /\ UNCHANGED <<client, reference, posted, attempts, sent, finished, idle, user>>

\* The server closes the connection; what it has not sent is lost.
ServerGone ==
    /\ client.peer = "up"
    /\ client' = [client EXCEPT !.peer = "down"]
    /\ requests' = {}
    /\ UNCHANGED <<reference, posted, attempts, sent, finished, idle, user, responses>>

-----------------------------------------------------------------------------
Io ==
    \/ RunPosted \/ Discarded \/ Resolved \/ Connected \/ Refused \/ DelayOver
    \/ WriteDone \/ ReadDone \/ TransferFails

Next ==
    \/ Io \/ Deadline \/ (\E c \in Call : CallTimeout(c))
    \/ Connect \/ ReleaseObj \/ (\E c \in Call : Begin(c) \/ Emplace(c) \/ Ask(c))
    \/ Serve \/ ServerGone

Spec == Init /\ [][Next]_vars

\* The io thread runs what is ready, and the timer of a call expires.
FairSpec == Spec /\ WF_vars(Io) /\ \A c \in Call : WF_vars(CallTimeout(c))

-----------------------------------------------------------------------------
(* What the client promises. *)

Live(kind) == {op \in Pending(kind) : ~Stale(op)}
Single(kind) == \E op \in Live(kind) : Live(kind) = {op} /\ client.ops[op] = 1

\* However connections come and go, one that is ready has exactly one read loop, and a
\* write in flight exactly when there is something to write.
OneLoop ==
    reference => /\ IF Has_connected(client) THEN Single("read") ELSE Live("read") = {}
                 /\ IF Has_connected(client) /\ client.outbox # <<>> THEN Single("write") ELSE Live("write") = {}

\* A request is written once at most, over all the connections the client makes.
SentOnce == \A c \in Call : sent[c] <= 1

\* A client with automatic reconnection is connected, or something that will make it try
\* again is on its way, unless the deadline timer has closed it: no epoch check and no
\* status check throws away the last operation.
KeepsTrying ==
    enable_reconnect /\ reference /\ attempts > 0 /\ ~dropped =>
        Has_connected(client) \/ Live("resolve") # {} \/ Live("connect") # {} \/ Pending("delay") # {}

\* A call that is in the map of a client that is not released finishes: by an answer, by
\* its timer or with the connection.
CallsFinish == \A c \in Call : c \in client.map /\ reference ~> result[c] # "none"

=============================================================================
