--------------------------- MODULE RudpHandshake ---------------------------
(***************************************************************************)
(* The connection set-up of RUDP (asio_rudp.cpp) over a network that loses, *)
(* repeats and reorders datagrams: SYN, SYN_ACK and SYN_ACK2 with their     *)
(* resend timer, RST, and the listening server with its table of pending    *)
(* connections, its list of connected ones and its acceptors.               *)
(*                                                                          *)
(* A client endpoint (an address with its port) makes one socket after the  *)
(* other; only its current one exists.  Every socket is touched by the io   *)
(* thread it belongs to, so a handler is one step; what a handler posts is  *)
(* a step of its own, taken in the order of the posts.                      *)
(***************************************************************************)
EXTENDS Naturals, Sequences, SequencesExt, FiniteSets

CONSTANTS
    Endpoints,      \* where clients connect from
    StreamModes,    \* the stream modes clients ask for; the server has FALSE
    MaxClients,     \* bound: sockets an endpoint makes
    MaxSessions,    \* bound: sessions the server makes
    MaxAccepts,     \* bound: calls of async_rudp_accept
    MaxPosted,      \* bound: handlers posted when the listener takes a frame
    MaxTry,         \* command_max_try_cnt
    MaxPending      \* max_pending_connections

ASSUME RudpAssumption ==
    /\ {MaxClients, MaxSessions, MaxAccepts, MaxPosted, MaxTry} \subseteq Nat
    /\ MaxPending \in 1..4096
    /\ StreamModes \subseteq BOOLEAN

Magic == 0          \* kControlMagicNum: no id yet
Sessions == 1..MaxSessions
Statuses == {"UNUSED", "INIT", "SYN_SENT", "SYN_RECV", "CONNECTED", "CLOSED"}
Commands == {"SYN", "SYN_ACK", "SYN_ACK2", "RST"}

VARIABLES
    net,            \* the frames sent so far: any of them may arrive at any time
    cl,             \* [Endpoints -> the client context of the current socket]
    history,        \* <<e, id, remote>> of the clients that were ever connected
    made,           \* [Endpoints -> sockets made]
    clPosted,       \* [Endpoints -> what is posted to the io thread of the client]
    ss,             \* [Sessions -> the client context of a session]
    recv_dic,       \* [Endpoints -> the session being set up, or 0]
    filter_table,   \* [Endpoints -> the session the listener hands frames to, or 0]
    connected_list, \* sessions connected and not accepted, oldest first
    accept_list,    \* acceptors waiting
    accepted,       \* sessions handed to the user
    accepts,        \* calls of async_rudp_accept so far
    listening,      \* listen_flag
    ids,            \* [storage |-> ids in use, id |-> the counter id_] of the server
    posted          \* what is posted to the io thread of the server

clVars == <<cl, history, made, clPosted>>
tables == <<recv_dic, filter_table, connected_list>>
acceptVars == <<accept_list, accepted, accepts, listening>>
rudpVars == <<net, clVars, ss, tables, acceptVars, ids, posted>>

Frame(to, e, cmd, c) == [to |-> to, e |-> e, cmd |-> cmd, src |-> c.id,
                         dst |-> c.remote, stream |-> c.stream]

NoContext == [status |-> "UNUSED", id |-> Magic, remote |-> Magic,
              check |-> "NONE", tries |-> 0, cb |-> "none", e |-> "none",
              stream |-> FALSE]

RudpInit ==
    /\ net = {}
    /\ cl = [e \in Endpoints |-> NoContext]
    /\ history = {}
    /\ made = [e \in Endpoints |-> 0]
    /\ clPosted = [e \in Endpoints |-> <<>>]
    /\ ss = [s \in Sessions |-> NoContext]
    /\ recv_dic = [e \in Endpoints |-> 0]
    /\ filter_table = [e \in Endpoints |-> 0]
    /\ connected_list = <<>>
    /\ accept_list = 0 /\ accepted = {} /\ accepts = 0 /\ listening = TRUE
    /\ ids = [storage |-> {1}, id |-> 1]     \* the listening socket
    /\ posted = <<>>

-----------------------------------------------------------------------------
(* What is the same on both sides: the operators take a context and give    *)
(* the context after the call, the frames it sends and whether it calls     *)
(* socket_ref->destroy, which posts the destruction.                        *)

Result(c, frames, destroy) == [c |-> c, frames |-> frames, destroy |-> destroy]

(* supported_commands *)
Supported(status) ==
    CASE status = "CONNECTED" -> {"SYN_ACK", "RST"}
      [] status = "SYN_RECV" -> {"SYN", "SYN_ACK2", "RST"}
      [] status = "SYN_SENT" -> {"SYN_ACK", "RST"}
      [] OTHER -> {}

SendSyn(c) ==
    IF c.status # "SYN_SENT" THEN Result(c, {}, FALSE)
    ELSE Result([c EXCEPT !.check = "SYN_ACK"], {Frame("server", c.e, "SYN", c)}, FALSE)

SendAck(c) ==
    IF c.status \in {"CONNECTED", "CLOSED"} THEN Result(c, {}, FALSE)
    ELSE Result([c EXCEPT !.check = "SYN_ACK2"], {Frame("client", c.e, "SYN_ACK", c)}, FALSE)

StatusTimerForEver(c) ==
    IF c.check = "SYN_ACK" THEN SendSyn(c) ELSE SendAck(c)

(* The handler of the status timer: send the command again, or give up (the *)
(* count stops at the value that gives up).                                 *)
StatusTimer(c) ==
    LET d == [c EXCEPT !.tries = IF @ > MaxTry THEN @ ELSE @ + 1] IN
    IF d.tries > MaxTry THEN Result([d EXCEPT !.check = "EXPIRED"], {}, TRUE)
    ELSE IF d.check = "SYN_ACK" THEN SendSyn(d) ELSE SendAck(d)

Connected(c) == [c EXCEPT !.status = "CONNECTED", !.check = "NONE", !.tries = 0,
                          !.cb = IF @ = "set" THEN "ok" ELSE @]

HandleSynAck(c, f) ==
    IF f.dst # c.id THEN Result(c, {}, FALSE)
    ELSE LET d == IF c.status = "SYN_SENT" THEN Connected([c EXCEPT !.remote = f.src]) ELSE c
         IN  Result(d, {Frame("server", c.e, "SYN_ACK2", d)}, FALSE)

HandleSynAck2(c, f) ==
    Result(IF c.status = "SYN_RECV" THEN Connected(c) ELSE c, {}, FALSE)

HandleRst(c, f) ==
    Result(c, {}, /\ f.dst = c.id
                  /\ c.remote # Magic => f.src = c.remote)

ProcessControlFrameUnverified(c, f) ==
    IF f.cmd \notin Supported(c.status) THEN Result(c, {}, FALSE) ELSE
    CASE f.cmd = "SYN" -> SendAck(c)
      [] f.cmd = "SYN_ACK" -> HandleSynAck(c, f)
      [] f.cmd = "SYN_ACK2" -> HandleSynAck2(c, f)
      [] f.cmd = "RST" -> HandleRst(c, f)

ProcessControlFrame(c, f) ==
    IF f.cmd \notin Supported(c.status) THEN Result(c, {}, FALSE) ELSE
    CASE f.cmd = "SYN" -> SendAck(c)
      [] f.cmd = "SYN_ACK" -> HandleSynAck(c, f)
      [] f.cmd = "SYN_ACK2" ->
            IF f.src = c.remote /\ f.dst = c.id THEN HandleSynAck2(c, f)
                                                ELSE Result(c, {}, FALSE)
      [] f.cmd = "RST" -> HandleRst(c, f)

-----------------------------------------------------------------------------
(* The client side.                                                         *)

(* A client socket of e does what r says. *)
ClientDoes(e, r) ==
    /\ cl' = [cl EXCEPT ![e] = r.c]
    /\ net' = net \cup r.frames
    /\ history' = IF r.c.status = "CONNECTED" THEN history \cup {<<e, r.c.id, r.c.remote>>}
                                              ELSE history

ServerUnchanged == UNCHANGED <<ss, tables, acceptVars, ids, posted>>

(* rudp_create, rudp_bind and rudp_async_connect.  The id of a socket that  *)
(* is gone is given again unless another socket of the process took it.     *)
ClientConnect(e) ==
    /\ made[e] < MaxClients
    /\ cl[e].status \in {"UNUSED", "CLOSED"}
    /\ made' = [made EXCEPT ![e] = @ + 1]
    /\ \E id \in {cl[e].id, cl[e].id + 1} \ {Magic}, stream \in StreamModes :
          cl' = [cl EXCEPT ![e] = [NoContext EXCEPT !.status = "SYN_SENT", !.id = id,
                                     !.cb = "set", !.e = e, !.stream = stream]]
    /\ clPosted' = [clPosted EXCEPT ![e] = <<"send_syn">>]
    /\ UNCHANGED <<net, history>> /\ ServerUnchanged

(* Post the destruction of a client socket, from wherever it is asked for.  *)
PostIf(queue, destroy, what) == IF destroy THEN Append(queue, what) ELSE queue

ClientTimer(e) ==
    /\ cl[e].check = "SYN_ACK" /\ cl[e].status # "CLOSED"
    /\ LET r == StatusTimer(cl[e]) IN
       /\ ClientDoes(e, r)
       /\ clPosted' = [clPosted EXCEPT ![e] = PostIf(@, r.destroy, "destroy")]
    /\ UNCHANGED made /\ ServerUnchanged

ClientRecv(e, f) ==
    /\ f.to = "client" /\ f.e = e
    /\ LET r == ProcessControlFrame(cl[e], f) IN
       /\ ClientDoes(e, r)
       /\ clPosted' = [clPosted EXCEPT
             ![e] = PostIf(@, r.destroy /\ "destroy" \notin ToSet(@), "destroy")]
    /\ UNCHANGED made /\ ServerUnchanged

(* The user gives up the handle. *)
ClientClose(e) ==
    /\ cl[e].status \notin {"UNUSED", "CLOSED"}
    /\ "destroy" \notin ToSet(clPosted[e])
    /\ clPosted' = [clPosted EXCEPT ![e] = Append(@, "destroy")]
    /\ UNCHANGED <<net, cl, history, made>> /\ ServerUnchanged

(* rudp_client_context_imp::destroy, with set_status(CLOSED) and its RST.   *)
Closed(c) == [c EXCEPT !.status = "CLOSED", !.check = "NONE",
                       !.cb = IF @ = "set" THEN "error" ELSE @]

RstFrames(to, c) == IF c.remote = Magic THEN {} ELSE {Frame(to, c.e, "RST", c)}

ClientPosted(e) ==
    /\ clPosted[e] # <<>>
    /\ LET c == cl[e]
           r == IF Head(clPosted[e]) = "send_syn" THEN SendSyn(c)
                ELSE Result(Closed(c), RstFrames("server", c), FALSE)
       IN  ClientDoes(e, r)
    /\ clPosted' = [clPosted EXCEPT ![e] = IF Head(@) = "destroy" THEN <<>> ELSE Tail(@)]
    /\ UNCHANGED made /\ ServerUnchanged

-----------------------------------------------------------------------------
(* The sessions of the server.  A session that connects or closes calls     *)
(* on_connection_status_changed, which posts.                               *)

StatusEvent(s, c, d) ==
    IF s \in accepted
    THEN IF c.status # "CLOSED" /\ d.status = "CLOSED" THEN <<<<"unfilter", s>>>> ELSE <<>>
    ELSE IF c.status # "CONNECTED" /\ d.status = "CONNECTED" THEN <<<<"connected", s>>>>
    ELSE IF c.status # "CLOSED" /\ d.status = "CLOSED"
    THEN (IF c.cb = "set" THEN <<<<"error", s>>>> ELSE <<>>) \o <<<<"error", s>>>>
    ELSE <<>>

SessionDoes(s, r) ==
    /\ ss' = [ss EXCEPT ![s] = r.c]
    /\ net' = net \cup r.frames
    /\ ids' = IF r.destroy THEN [ids EXCEPT !.storage = @ \ {r.c.id}] ELSE ids
    /\ posted' = posted \o StatusEvent(s, ss[s], r.c)
                        \o IF r.destroy /\ <<"destroy", s>> \notin ToSet(posted)
                           THEN <<<<"destroy", s>>>> ELSE <<>>

(* The server's tables, the user and a posted destruction hold a session;  *)
(* everybody else has a weak reference.                                    *)
Alive(s) ==
    \/ \E e \in Endpoints : recv_dic[e] = s
    \/ s \in ToSet(connected_list) \cup accepted
    \/ <<"destroy", s>> \in ToSet(posted)

SessionTimer(s) ==
    /\ Alive(s)
    /\ ss[s].check = "SYN_ACK2" /\ ss[s].status # "CLOSED"
    /\ SessionDoes(s, StatusTimer(ss[s]))
    /\ UNCHANGED <<clVars, tables, acceptVars>>

SessionRecv(s, f) ==
    /\ Alive(s)
    /\ f.to = "server" /\ f.e = ss[s].e
    /\ SessionDoes(s, ProcessControlFrame(ss[s], f))
    /\ UNCHANGED <<clVars, tables, acceptVars>>

(* The user gives up the handle of an accepted connection. *)
SessionClose(s) ==
    /\ s \in accepted /\ ss[s].status # "CLOSED"
    /\ SessionDoes(s, Result(ss[s], {}, TRUE))
    /\ UNCHANGED <<clVars, tables, acceptVars>>

-----------------------------------------------------------------------------
(* The listening server.                                                    *)

Used == {s \in Sessions : ss[s].status # "UNUSED"}
Pending == {e \in Endpoints : recv_dic[e] # 0}

(* rudp_kernel::create_socket: the counter stops at the first free id. *)
NewId == CHOOSE i \in ids.id..(ids.id + Cardinality(ids.storage)) :
            /\ i \notin ids.storage
            /\ \A j \in ids.id..(i - 1) : j \in ids.storage

(* filter_data hands the frame to a session that is alive: it then comes to *)
(* SessionRecv.                                                             *)
Forwarded(e) ==
    /\ filter_table[e] # 0
    /\ Alive(filter_table[e]) /\ ss[filter_table[e]].status # "CLOSED"

(* handle_syn for an endpoint without a session: make one, passive_connect. *)
NewSession(e, f) ==
    /\ recv_dic[e] = 0
    /\ \E s \in Sessions :
        /\ s = Cardinality(Used) + 1
        /\ recv_dic' = [recv_dic EXCEPT ![e] = s]
        /\ filter_table' = [filter_table EXCEPT ![e] = s]
        /\ ids' = [storage |-> ids.storage \cup {NewId}, id |-> NewId]
        /\ LET c == [NoContext EXCEPT !.id = NewId, !.remote = f.src, !.e = e] IN
           IF f.stream
           THEN /\ ss' = [ss EXCEPT ![s] = [c EXCEPT !.status = "INIT"]]
                /\ net' = net \cup RstFrames("client", c)
                /\ posted' = Append(posted, <<"error", s>>)
           ELSE /\ ss' = [ss EXCEPT ![s] = [c EXCEPT !.status = "SYN_RECV", !.cb = "set"]]
                /\ posted' = Append(posted, <<"send_ack", s>>)
                /\ UNCHANGED net

(* handle_syn for an endpoint with a session: passive_connect again. *)
KnownSession(e, f) ==
    /\ recv_dic[e] # 0
    /\ filter_table' = [filter_table EXCEPT ![e] = 0]
    /\ LET s == recv_dic[e] IN
       /\ ss[s].remote = f.src
       /\ posted' = Append(posted, IF ss[s].status = "SYN_RECV" THEN <<"send_ack", s>>
                                                               ELSE <<"error", s>>)
    /\ UNCHANGED <<net, ss, ids, recv_dic>>

HasRoom == Cardinality(Pending) + Len(connected_list) < MaxPending

ListenSyn(f) ==
    /\ f.to = "server" /\ f.cmd = "SYN"
    /\ listening /\ ~Forwarded(f.e) /\ Len(posted) < MaxPosted
    /\ HasRoom
    /\ NewSession(f.e, f) \/ KnownSession(f.e, f)
    /\ UNCHANGED <<clVars, connected_list, acceptVars>>

(* accept_connection: pair the oldest connection with an acceptor.          *)
AcceptConnection(list, n) ==
    LET pair == list # <<>> /\ n > 0 IN
    /\ connected_list' = IF pair THEN Tail(list) ELSE list
    /\ accept_list' = IF pair THEN n - 1 ELSE n
    /\ accepted' = IF pair THEN accepted \cup {Head(list)} ELSE accepted

AsyncRudpAccept ==
    /\ accepts < MaxAccepts /\ listening
    /\ accepts' = accepts + 1
    /\ AcceptConnection(connected_list, accept_list + 1)
    /\ UNCHANGED <<listening, net, clVars, ss, recv_dic, filter_table, ids, posted>>

(* on_connection_status_changed: the tables are kept by endpoint.           *)
OnConnected(s) ==
    /\ recv_dic' = [recv_dic EXCEPT ![ss[s].e] = 0]
    /\ AcceptConnection(Append(connected_list, s), accept_list)
    /\ UNCHANGED <<filter_table, accepts, listening>>

OnError(s) ==
    /\ recv_dic' = [recv_dic EXCEPT ![ss[s].e] = 0]
    /\ filter_table' = [filter_table EXCEPT ![ss[s].e] = 0]
    /\ connected_list' = SelectSeq(connected_list, LAMBDA t : t # s)
    /\ UNCHANGED acceptVars

ServerDestroyKeepsConnected ==
    LET doomed == {s \in Sessions : \E e \in Endpoints : recv_dic[e] = s}
    IN
    /\ listening /\ listening' = FALSE
    /\ recv_dic' = [e \in Endpoints |-> 0]
    /\ accept_list' = 0
    /\ posted' = posted \o SetToSeq({<<"destroy", s>> : s \in doomed} \ ToSet(posted))
    /\ ids' = [ids EXCEPT !.storage = @ \ {ss[s].id : s \in doomed}]
    /\ UNCHANGED <<net, clVars, ss, connected_list, filter_table, accepted, accepts>>

(* rudp_server_context_imp::destroy: every unaccepted session is destroyed   *)
(* and every acceptor completes with an error.                               *)
ServerDestroy ==
    LET doomed == {s \in Sessions : \/ \E e \in Endpoints : recv_dic[e] = s
                                    \/ s \in ToSet(connected_list)}
        open   == {s \in doomed : ss[s].status # "CLOSED"}
    IN
    /\ listening /\ listening' = FALSE
    /\ recv_dic' = [e \in Endpoints |-> 0]
    /\ connected_list' = <<>>
    /\ accept_list' = 0
    /\ posted' = posted \o SetToSeq({<<"destroy", s>> : s \in open} \ ToSet(posted))
    /\ ids' = [ids EXCEPT !.storage = @ \ {ss[s].id : s \in open}]
    /\ UNCHANGED <<net, clVars, ss, filter_table, accepted, accepts>>

(* The io thread of the server runs what is posted, in order; the           *)
(* destruction of an accepted session is run by the thread it moved to.     *)
ServerPosted(i) ==
    /\ i \in 1..Len(posted)
    /\ i = 1 \/ (posted[i][1] = "destroy" /\ posted[i][2] \in accepted)
    /\ LET what == posted[i][1]
           s    == posted[i][2]
           rest == RemoveAt(posted, i)
       IN
       \/ /\ ~Alive(s)
          /\ posted' = rest
          /\ UNCHANGED <<net, ss, tables, acceptVars, ids>>
       \/ /\ what = "send_ack" /\ Alive(s)
          /\ LET r == SendAck(ss[s]) IN
             ss' = [ss EXCEPT ![s] = r.c] /\ net' = net \cup r.frames
          /\ posted' = rest
          /\ UNCHANGED <<tables, acceptVars, ids>>
       \/ /\ what = "destroy"
          /\ LET d == Closed(ss[s]) IN
             /\ ss' = [ss EXCEPT ![s] = d]
             /\ net' = net \cup RstFrames("client", ss[s])
             /\ posted' = rest \o StatusEvent(s, ss[s], d)
          /\ UNCHANGED <<tables, acceptVars, ids>>
       \/ /\ what = "connected" /\ Alive(s) /\ OnConnected(s)
          /\ posted' = rest /\ UNCHANGED <<net, ss, ids>>
       \/ /\ what = "error" /\ Alive(s) /\ OnError(s)
          /\ posted' = rest /\ UNCHANGED <<net, ss, ids>>
       \/ /\ what = "unfilter" /\ Alive(s)
          /\ filter_table' = [filter_table EXCEPT ![ss[s].e] = 0]
          /\ posted' = rest
          /\ UNCHANGED <<net, ss, recv_dic, connected_list, acceptVars, ids>>
    /\ UNCHANGED clVars

RudpNext ==
    \/ \E e \in Endpoints :
          \/ ClientConnect(e) \/ ClientTimer(e) \/ ClientClose(e) \/ ClientPosted(e)
          \/ \E f \in net : ClientRecv(e, f)
    \/ \E s \in Sessions :
          \/ SessionTimer(s) \/ SessionClose(s)
          \/ \E f \in net : SessionRecv(s, f)
    \/ \E f \in net : ListenSyn(f)
    \/ AsyncRudpAccept
    \/ ServerDestroy
    \/ \E i \in 1..Len(posted) : ServerPosted(i)

RudpSpec == RudpInit /\ [][RudpNext]_rudpVars

(* Armed timers fire and posted handlers run.                               *)
FairRudpSpec ==
    /\ RudpSpec
    /\ \A e \in Endpoints : WF_rudpVars(ClientTimer(e)) /\ WF_rudpVars(ClientPosted(e))
    /\ \A s \in Sessions : WF_rudpVars(SessionTimer(s))
    /\ WF_rudpVars(ServerPosted(1))

-----------------------------------------------------------------------------
(* The types of the state, and that a connected socket has no command whose  *)
(* resend could still run out of tries.                                      *)
RudpTypeOK ==
    /\ net \subseteq [to : {"client", "server"}, e : Endpoints, cmd : Commands,
                      src : Nat, dst : Nat, stream : BOOLEAN]
    /\ \A c \in Range(cl) \cup Range(ss) :
          /\ c.status \in Statuses /\ c.tries \in 0..(MaxTry + 1)
          /\ c.status = "CONNECTED" => c.check = "NONE"
    /\ recv_dic \in [Endpoints -> 0..MaxSessions]
    /\ filter_table \in [Endpoints -> 0..MaxSessions]
    /\ connected_list \in Seq(Sessions)
    /\ listening \in BOOLEAN
    /\ accept_list \in Nat /\ accepted \subseteq Sessions

(* A session is connected only after a client of that endpoint connected to  *)
(* it: both sides hold each other's id and thus the same KCP conversation,   *)
(* whatever old, repeated or reordered frames the network delivers.          *)
ServerAgreesWithClient ==
    \A s \in Sessions : ss[s].status = "CONNECTED" =>
        <<ss[s].e, ss[s].remote, ss[s].id>> \in history

(* rudp_async_connect always completes: by SYN_ACK, by RST, by too many      *)
(* tries or by the close of the handle.                                      *)
ConnectCompletes ==
    \A e \in Endpoints : (cl[e].cb = "set") ~> (cl[e].cb # "set")

(* A session does not stay in the table of pending connections: it connects  *)
(* or it is dropped, and its place in the backlog is free again.             *)
PendingSettles ==
    \A e \in Endpoints, s \in Sessions : (recv_dic[e] = s) ~> (recv_dic[e] # s)

(* Once the server is destroyed no session stays open but the accepted ones: *)
(* a client whose set-up was under way is told, or its retries run out.      *)
ServerCloseClosesSessions ==
    ~listening ~> \A s \in Used \ accepted : Alive(s) => ss[s].status = "CLOSED"
=============================================================================
