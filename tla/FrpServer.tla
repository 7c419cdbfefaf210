----------------------------- MODULE FrpServer ------------------------------
(* frp_public_server and its frp_signal_sessions: signalling sessions that     *)
(* register the services of a client, data sessions that are paired into a     *)
(* relay, and the sessions_by_uuid_ and allowed_register_keys_cache tables     *)
(* that a mutex guards.  The sessions run on different io threads: a handler   *)
(* is a step, split where it lets go of the mutex, and a close sequence is     *)
(* posted to the session's own thread.                                         *)
(*                                                                             *)
(* The clients are what frp_signal_client and the two roles do: they connect,  *)
(* authenticate, register, and connect again when the session is closed or the *)
(* network breaks it, which the server may notice much later.  The accessor    *)
(* opens one channel and the provider answers it.  One register key is used;   *)
(* a service is its name.                                                      *)
EXTENDS Integers, Sequences

CONSTANTS Accessor, Provider,   \* the uuids of the two clients
          Conn,                 \* the connection_uuid of the channel
          Service,              \* service names
          Sessions,             \* bound on the session objects at a time
          MaxBreaks,            \* bound on the connections the network breaks
          MaxBad                \* kMaxBadCommandCount

Client == {Accessor, Provider}
OtherClient(u) == IF u = Accessor THEN Provider ELSE Accessor
NoId == "no id"
Session == 1..Sessions

ASSUME ServerAssumption ==
    /\ Accessor /= Provider /\ Conn \notin Client /\ NoId \notin Client \cup {Conn}
    /\ Sessions \in Nat /\ MaxBreaks \in Nat /\ MaxBad \in Nat \ {0}

VARIABLES session,           \* the session objects
          sessions_by_uuid,  \* per client: connection_uuid -> session
          names_cache,       \* allowed_register_keys_cache
          offers,            \* services each client registers
          link,              \* the signalling session a client uses, 0: none
          data,              \* the data session a client uses, 0: none
          opened,            \* the accessor has opened its channel
          offered,           \* the signalling session that has been sent the open
          breaks

tables == <<sessions_by_uuid, names_cache>>
client == <<offers, link, data, opened, offered, breaks>>
vars == <<session, tables, client>>

Free == [phase |-> "free", by |-> NoId, uuid |-> NoId, connection_uuid |-> NoId, valid |-> FALSE, posted |-> <<>>,
         groups |-> {}, ok |-> FALSE, reading |-> FALSE, release_cb |-> NoId, forward |-> 0, bad |-> 0]

Phase == {"free", "initial", "hello", "authenticated", "registering", "data", "closed"}
SessionObject ==
    [phase : Phase, by : Client \cup {NoId}, uuid : Client \cup {NoId}, connection_uuid : Client \cup {Conn, NoId},
     valid : BOOLEAN, posted : {<<>>, <<"close">>, <<"upgrade">>, <<"close", "upgrade">>, <<"upgrade", "close">>},
     groups : SUBSET Service, ok : BOOLEAN, reading : BOOLEAN, release_cb : Client \cup {NoId},
     forward : 0..Sessions, bad : 0..MaxBad]

TypeOK ==
    /\ session \in [Session -> SessionObject]
    /\ \A u \in Client : /\ DOMAIN sessions_by_uuid[u] \subseteq {u, Conn}
                         /\ \A k \in DOMAIN sessions_by_uuid[u] : sessions_by_uuid[u][k] \in Session
    /\ names_cache \subseteq Service /\ offers \in [Client -> SUBSET Service]
    /\ link \in [Client -> 0..Sessions] /\ data \in [Client -> 0..Sessions]
    /\ opened \in BOOLEAN /\ offered \in 0..Sessions /\ breaks \in 0..MaxBreaks

-----------------------------------------------------------------------------
\* release_obj: the first call posts the close sequence.
ReleaseObj(ss, i) ==
    IF ss[i].valid THEN [ss EXCEPT ![i].valid = FALSE, ![i].posted = Append(@, "close")] ELSE ss

ReleaseAll(ss, removed) ==
    [i \in Session |-> IF i \in removed THEN ReleaseObj(ss, i)[i] ELSE ss[i]]

\* std::map's emplace, which keeps what is there, and erase.
Emplaced(f, k, i) == [x \in DOMAIN f \cup {k} |-> IF x \in DOMAIN f THEN f[x] ELSE i]
Without(f, k) == [x \in DOMAIN f \ {k} |-> f[x]]

\* remove_session(uuid, connection_uuid), on the state t = [session, map, names].
RemoveGroupKeepsNames(t, uuid) ==
    [session |-> ReleaseAll(t.session, {t.map[uuid][k] : k \in DOMAIN t.map[uuid]}),
     map |-> [t.map EXCEPT ![uuid] = <<>>], names |-> t.names]
RemoveGroupSignalOnly(t, uuid) ==
    [session |-> ReleaseAll(t.session, {t.map[uuid][uuid]}),
     map |-> [t.map EXCEPT ![uuid] = <<>>], names |-> t.names \ t.session[t.map[uuid][uuid]].groups]
RemoveGroup(t, uuid) ==
    [session |-> ReleaseAll(t.session, {t.map[uuid][k] : k \in DOMAIN t.map[uuid]}),
     map |-> [t.map EXCEPT ![uuid] = <<>>], names |-> t.names \ t.session[t.map[uuid][uuid]].groups]

RemoveOne(t, uuid, conn) ==
    [t EXCEPT !.session = ReleaseAll(t.session, {t.map[uuid][conn]}), !.map[uuid] = Without(@, conn)]

RemoveSession(t, uuid, conn) ==
    CASE uuid \in Client /\ conn = uuid /\ DOMAIN t.map[uuid] /= {} -> RemoveGroup(t, uuid)
      [] uuid \in Client /\ conn /= uuid /\ conn \in DOMAIN t.map[uuid] -> RemoveOne(t, uuid, conn)
      [] OTHER -> t

Tables == [session |-> session, map |-> sessions_by_uuid, names |-> names_cache]
SetTables(t) == session' = t.session /\ sessions_by_uuid' = t.map /\ names_cache' = t.names

-----------------------------------------------------------------------------
Init ==
    /\ session = [i \in Session |-> Free]
    /\ sessions_by_uuid = [u \in Client |-> <<>>] /\ names_cache = {}
    /\ offers \in [Client -> SUBSET Service] /\ offers[Provider] /= {}
    /\ link = [u \in Client |-> 0] /\ data = [u \in Client |-> 0]
    /\ opened = FALSE /\ offered = 0 /\ breaks = 0

\* do_accept and start(), for a session that the client u has connected.
FirstFree(i) == session[i].phase = "free" /\ \A k \in 1..(i - 1) : session[k].phase /= "free"
Accepted(u, phase) == [Free EXCEPT !.phase = phase, !.by = u, !.valid = TRUE, !.reading = TRUE]

Connect(u) ==
    /\ link[u] = 0
    /\ \E i \in Session : /\ FirstFree(i)
                          /\ session' = [session EXCEPT ![i] = Accepted(u, "initial")]
                          /\ link' = [link EXCEPT ![u] = i]
    /\ UNCHANGED <<tables, offers, data, opened, offered, breaks>>

\* A command is handled by a session that is valid and whose client is still there.
Handles(i, phase) ==
    /\ session[i].phase = phase /\ session[i].valid /\ link[session[i].by] = i

\* handle_initial_phase: signal_open.
SignalOpen(i) ==
    /\ Handles(i, "initial")
    /\ session' = [session EXCEPT ![i].phase = "hello"]
    /\ UNCHANGED <<tables, client>>

\* handle_server_hello_phase: the digest is right, or the session is released.
AuthRequest(i) ==
    /\ Handles(i, "hello")
    /\ \/ session' = [session EXCEPT ![i].phase = "authenticated"]
       \/ session' = ReleaseObj(session, i) /\ breaks < MaxBreaks
    /\ breaks' = IF session'[i].valid THEN breaks ELSE breaks + 1
    /\ UNCHANGED <<tables, offers, link, data, opened, offered>>

\* handle_unknown_command.
UnknownCommand(i) ==
    LET last == session[i].bad + 1 >= MaxBad
    IN  /\ Handles(i, "initial") \/ Handles(i, "authenticated")
        /\ breaks < MaxBreaks
        /\ session' = [(IF last THEN ReleaseObj(session, i) ELSE session) EXCEPT ![i].bad = @ + 1]
        /\ breaks' = IF last THEN breaks + 1 ELSE breaks
        /\ UNCHANGED <<tables, offers, link, data, opened, offered>>

\* register_client_services: remove_session, and then, with the mutex taken again, the
\* names are checked and the session is listed.  A client registers once it has been
\* authenticated; a NAT probe that outlives its connection makes it register again.
\* The gap between the two is far shorter than the two seconds before a client
\* connects again, so that two sessions of one client are not in it together.
RegisterBegin(i) ==
    LET u == session[i].by
    IN  /\ Handles(i, "authenticated")
        /\ session[i].uuid = NoId \/ breaks < MaxBreaks
        /\ \A k \in Session : ~(session[k].phase = "registering" /\ session[k].by = u)
        /\ SetTables([RemoveSession(Tables, u, u) EXCEPT !.session[i].phase = "registering"])
        /\ breaks' = IF session[i].uuid = NoId THEN breaks ELSE breaks + 1
        /\ UNCHANGED <<offers, link, data, opened, offered>>

Listed(i) ==
    LET u == session[i].by
    IN  /\ names_cache' = names_cache \cup offers[u]
        /\ sessions_by_uuid' = [sessions_by_uuid EXCEPT ![u] = Emplaced(@, u, i)]

RegisterEnd(i) ==
    LET u == session[i].by
        ok == offers[u] \cap names_cache = {}
    IN  /\ session[i].phase = "registering"
        /\ session' = [session EXCEPT ![i].phase = "authenticated", ![i].uuid = u, ![i].connection_uuid = u,
                                      ![i].groups = offers[u], ![i].ok = ok]
        /\ IF ok THEN Listed(i) ELSE UNCHANGED tables
        /\ UNCHANGED client

-----------------------------------------------------------------------------
\* A client connects for its half of the channel: the accessor once it is registered,
\* the provider when the open has reached it on its signalling session.
ConnectData(u) ==
    /\ data[u] = 0 /\ link[u] /= 0
    /\ IF u = Accessor THEN ~opened /\ session[link[u]].ok ELSE offered = link[u] /\ session[offered].valid
    /\ \E i \in Session : /\ FirstFree(i)
                          /\ session' = [session EXCEPT ![i] = Accepted(u, "initial")]
                          /\ data' = [data EXCEPT ![u] = i]
    /\ opened' = TRUE
    /\ offered' = IF u = Provider THEN 0 ELSE offered
    /\ UNCHANGED <<tables, offers, link, breaks>>

\* register_data_channel: the session is recorded as one half, and the second half
\* joins the two: it is upgraded here, the first one by a task posted to its thread.
Recorded(t, i, from) ==
    [t EXCEPT !.session[i].uuid = from, !.session[i].connection_uuid = Conn, !.map[from] = Emplaced(@, Conn, i)]

Join(t, i, j, dst) ==
    [t EXCEPT !.session[i].release_cb = dst, !.session[i].forward = j, !.session[i].reading = TRUE,
              !.session[j].forward = i, !.session[j].posted = Append(@, "upgrade")]

RegisterDataChannel(t, i, from, dst) ==
    LET src_has == Conn \in DOMAIN t.map[from]
        dst_has == Conn \in DOMAIN t.map[dst]
    IN  CASE DOMAIN t.map[from] = {} \/ DOMAIN t.map[dst] = {} -> RemoveSession(RemoveSession(t, dst, Conn), from, Conn)
          [] OTHER ->
             IF from = Accessor THEN IF src_has \/ dst_has THEN t ELSE Recorded(t, i, from)
             ELSE IF src_has \/ ~dst_has THEN t ELSE Join(Recorded(t, i, from), i, t.map[dst][Conn], dst)

\* handle_initial_phase: channel_open, status 0 from the accessor and 1 from the provider.
ChannelOpen(i) ==
    LET from == session[i].by
        dst == OtherClient(from)
        opening == [Tables EXCEPT !.session[i].phase = "data", !.session[i].reading = FALSE]
        after == RegisterDataChannel(opening, i, from, dst)
    IN  /\ session[i].phase = "initial" /\ session[i].valid /\ data[from] = i
        /\ SetTables(after)
        /\ offered' = IF from = Accessor /\ after.session[i].uuid = from THEN after.map[dst][dst] ELSE offered
        /\ UNCHANGED <<offers, link, data, opened, breaks>>

-----------------------------------------------------------------------------
\* The handlers posted to a session's thread: the task that upgrades the first half,
\* and the close sequence of release_obj.
Upgraded(s) == [s EXCEPT !.release_cb = OtherClient(s.by), !.reading = TRUE, !.posted = Tail(@)]
CloseSocketForgotten(s) == [s EXCEPT !.posted = Tail(@)]
CloseSocket(s) == [s EXCEPT !.phase = "closed", !.posted = Tail(@)]

RunUpgrade(i) ==
    /\ session[i].posted /= <<>> /\ Head(session[i].posted) = "upgrade" /\ session[i].phase /= "registering"
    /\ session' = [session EXCEPT ![i] = Upgraded(@)]
    /\ UNCHANGED <<tables, client>>

RunClose(i) ==
    LET s == session[i]
        removed == RemoveSession(Tables, s.uuid, s.connection_uuid)
        after == IF s.release_cb = NoId THEN removed ELSE RemoveSession(removed, s.release_cb, s.connection_uuid)
    IN  /\ s.posted /= <<>> /\ Head(s.posted) = "close" /\ s.phase /= "registering"
        /\ SetTables([after EXCEPT !.session[i] = CloseSocket(@)])
        /\ UNCHANGED client

\* The read of a session whose client has left ends in an error, or its timer expires.
Releasable(i) == session[i].valid /\ session[i].phase /= "registering"
ReadFails(i) ==
    /\ Releasable(i) /\ link[session[i].by] /= i /\ data[session[i].by] /= i
    /\ session' = ReleaseObj(session, i)
    /\ UNCHANGED <<tables, client>>

ForwardResultIgnored(i) == FALSE /\ i \in Session /\ UNCHANGED vars

\* start_data_forward_read_loop: the other half of the relay is no more.
ForwardFails(i) ==
    /\ Releasable(i) /\ session[i].phase = "data" /\ session[i].reading /\ session[i].forward = 0
    /\ session' = ReleaseObj(session, i)
    /\ UNCHANGED <<tables, client>>

\* reset_timeout_timer: nothing has been read from a data session for the timeout.
TimesOut(i) ==
    /\ Releasable(i) /\ session[i].phase = "data"
    /\ session' = ReleaseObj(session, i)
    /\ UNCHANGED <<tables, client>>

\* A session object goes once its handlers have run; the weak pointers to it expire.
Destroy(i) ==
    /\ session[i].phase = "closed" /\ session[i].posted = <<>>
    /\ \A u \in Client : link[u] /= i /\ data[u] /= i
    /\ session' = [k \in Session |-> CASE k = i -> Free
                                      [] k /= i /\ session[k].forward = i -> [session[k] EXCEPT !.forward = 0]
                                      [] OTHER -> session[k]]
    /\ offered' = IF offered = i THEN 0 ELSE offered
    /\ UNCHANGED <<tables, offers, link, data, opened, breaks>>

\* The client sees that the server has closed a connection.
Closed(i) == i /= 0 /\ session[i].phase = "closed"
SeesClose(u) ==
    /\ Closed(link[u]) \/ Closed(data[u])
    /\ link' = [link EXCEPT ![u] = IF Closed(@) THEN 0 ELSE @]
    /\ data' = [data EXCEPT ![u] = IF Closed(@) THEN 0 ELSE @]
    /\ UNCHANGED <<session, tables, offers, opened, offered, breaks>>

\* The network breaks a signalling connection; the client notices, the server not yet.
Breaks(u) ==
    /\ link[u] /= 0 /\ breaks < MaxBreaks
    /\ link' = [link EXCEPT ![u] = 0] /\ breaks' = breaks + 1
    /\ UNCHANGED <<session, tables, offers, data, opened, offered>>

\* A client closes its half of the channel.
LeavesChannel(u) ==
    /\ data[u] /= 0
    /\ data' = [data EXCEPT ![u] = 0]
    /\ UNCHANGED <<session, tables, offers, link, opened, offered, breaks>>

Next ==
    \/ \E u \in Client : Connect(u) \/ ConnectData(u) \/ SeesClose(u) \/ Breaks(u) \/ LeavesChannel(u)
    \/ \E i \in Session :
        \/ SignalOpen(i) \/ AuthRequest(i) \/ UnknownCommand(i) \/ RegisterBegin(i) \/ RegisterEnd(i)
        \/ ChannelOpen(i) \/ RunUpgrade(i) \/ RunClose(i)
        \/ ReadFails(i) \/ ForwardFails(i) \/ TimesOut(i) \/ Destroy(i)

\* The io thread of a session runs what is queued on it: the next command of a client
\* that is there, a posted task, the end of a read, the timer of a data session that is
\* not read.  A client notices a close and connects again.
Serves(i) ==
    \/ SignalOpen(i) \/ AuthRequest(i) \/ RegisterBegin(i) \/ RegisterEnd(i) \/ ChannelOpen(i)
    \/ RunUpgrade(i) \/ RunClose(i) \/ ReadFails(i) \/ ForwardFails(i) \/ Destroy(i)
    \/ TimesOut(i) /\ ~session[i].reading

Fairness ==
    /\ \A u \in Client : WF_vars(Connect(u) \/ SeesClose(u))
    /\ \A i \in Session : WF_vars(Serves(i))

Spec == Init /\ [][Next]_vars /\ Fairness

-----------------------------------------------------------------------------
\* The table of taken service names holds those of the registered sessions and no
\* others, whatever removes a registration and however many do at once: a name left
\* behind would refuse every later registration of its service.
NamesAgree ==
    names_cache = UNION {session[sessions_by_uuid[u][u]].groups : u \in {v \in Client : v \in DOMAIN sessions_by_uuid[v]}}

\* A session that lives and has been told that it is registered, or that has been
\* recorded as half of a channel, is found in sessions_by_uuid_: whoever removes an
\* entry releases its session, so that commands are not sent past a client that waits.
ListedWhileAlive ==
    \A i \in Session : session[i].valid =>
        LET group == sessions_by_uuid[session[i].by]
        IN  /\ session[i].ok => session[i].by \in DOMAIN group /\ group[session[i].by] = i
            /\ session[i].connection_uuid = Conn => Conn \in DOMAIN group /\ group[Conn] = i

\* When one half of a relay is released, the other half is released as well, even when
\* the first goes before its upgrade has run and so has no release callback, and even
\* when its object is gone before the other half looks at the weak pointer.
Orphaned(s) ==
    /\ s.valid /\ (s.forward /= 0 \/ s.release_cb /= NoId \/ \E k \in DOMAIN s.posted : s.posted[k] = "upgrade")
    /\ s.forward = 0 \/ ~session[s.forward].valid

HalvesEndTogether == (\E i \in Session : Orphaned(session[i])) ~> (\A i \in Session : ~Orphaned(session[i]))

\* Once the network no longer breaks connections, a client whose services nobody else
\* offers is registered for good, although the close of a session that it has replaced
\* also takes down the session that replaced it.
StaysRegistered ==
    offers[Accessor] \cap offers[Provider] = {} =>
        \A u \in Client : <>[](u \in DOMAIN sessions_by_uuid[u] /\ link[u] = sessions_by_uuid[u][u])
=============================================================================
