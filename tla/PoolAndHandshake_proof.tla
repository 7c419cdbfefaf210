------------------------ MODULE PoolAndHandshake_proof ------------------------
(***************************************************************************)
(* Two components that share nothing.                                       *)
(*                                                                          *)
(* RudpHandshake: a session is connected only to a client that connected to *)
(* it, for any number of endpoints, sockets, sessions and retries, over a   *)
(* network that may deliver any frame it was ever given, at any time and    *)
(* again.                                                                   *)
(*                                                                          *)
(* ThreadPool: Dequeue's exchanges neither lose nor copy a task, and no     *)
(* worker runs one once Join has returned, for any number of tasks and      *)
(* threads, any delays and any clock.                                       *)
(***************************************************************************)
EXTENDS RudpHandshake, ThreadPool, FiniteSetTheorems, TLAPS

(* The fields a context has.                                                *)
Fields == {"status", "id", "remote", "check", "tries", "cb", "e", "stream"}
IsContext(c) == c = [x \in Fields |-> c[x]]

Contexts ==
    /\ DOMAIN cl = Endpoints /\ cl = [e \in Endpoints |-> cl[e]]
    /\ DOMAIN ss = Sessions /\ ss = [s \in Sessions |-> ss[s]]
    /\ \A e \in Endpoints : IsContext(cl[e])
    /\ \A s \in Sessions : IsContext(ss[s])

(* An open client socket knows its endpoint, and one that is connected is in the  *)
(* history.                                                                 *)
ClientsRecorded ==
    \A e \in Endpoints :
        /\ cl[e].status \notin {"UNUSED", "CLOSED"} => cl[e].e = e
        /\ cl[e].status = "CONNECTED" => <<e, cl[e].id, cl[e].remote>> \in history

(* What a frame on the network proves: only servers send SYN_ACK, and a     *)
(* SYN_ACK2 carries the two ids of a client that was connected.             *)
FrameHonest(f, h) ==
    /\ f.cmd = "SYN_ACK" => f.to = "client"
    /\ f.cmd = "SYN_ACK2" => <<f.e, f.src, f.dst>> \in h

FramesHonest == \A f \in net : FrameHonest(f, history)

(* The strengthening that is inductive.                                     *)
HandshakeInv == Contexts /\ ClientsRecorded /\ FramesHonest /\ ServerAgreesWithClient

LEMMA NewContext == IsContext(NoContext) /\ NoContext.status = "UNUSED"
BY Zenon DEF IsContext, Fields, NoContext

LEMMA PassiveContext ==
    ASSUME NEW c, IsContext(c), NEW id, NEW remote, NEW e
    PROVE  IsContext([c EXCEPT !.id = id, !.remote = remote, !.e = e])
BY Zenon DEF IsContext, Fields

LEMMA HandshakeInit == RudpInit => HandshakeInv
<1> SUFFICES ASSUME RudpInit PROVE HandshakeInv
    BY Zenon
<1>1. /\ cl = [e \in Endpoints |-> NoContext] /\ ss = [s \in Sessions |-> NoContext]
      /\ net = {}
    BY Zenon DEF RudpInit
<1>2. Contexts
    BY <1>1, NewContext, Zenon DEF Contexts
<1> QED BY <1>1, <1>2, NewContext, Zenon DEF HandshakeInv, ClientsRecorded, FramesHonest, ServerAgreesWithClient

-----------------------------------------------------------------------------
(* The operators on contexts.                                               *)

(* r leaves who c is and what it has reached alone, and sends no SYN_ACK2.  *)
Keeps(c, r) ==
    /\ IsContext(r.c)
    /\ r.c.status = c.status /\ r.c.id = c.id /\ r.c.remote = c.remote /\ r.c.e = c.e
    /\ \A g \in r.frames : g.cmd # "SYN_ACK2" /\ (g.cmd = "SYN_ACK" => g.to = "client")

LEMMA SendSynKeeps == ASSUME NEW c, IsContext(c) PROVE Keeps(c, SendSyn(c))
BY DEF Keeps, SendSyn, Result, Frame, IsContext, Fields

LEMMA SendAckKeeps == ASSUME NEW c, IsContext(c) PROVE Keeps(c, SendAck(c))
BY DEF Keeps, SendAck, Result, Frame, IsContext, Fields

LEMMA StatusTimerKeeps == ASSUME NEW c, IsContext(c) PROVE Keeps(c, StatusTimer(c))
<1> DEFINE d == [c EXCEPT !.tries = IF @ > MaxTry THEN @ ELSE @ + 1]
<1>1. /\ IsContext(d)
      /\ d.status = c.status /\ d.id = c.id /\ d.remote = c.remote /\ d.e = c.e
    BY Zenon DEF IsContext, Fields
<1>2. Keeps(c, Result([d EXCEPT !.check = "EXPIRED"], {}, TRUE))
    BY <1>1, Zenon DEF Keeps, Result, IsContext, Fields
<1> HIDE DEF d
<1>3. Keeps(d, SendSyn(d)) /\ Keeps(d, SendAck(d))
    BY <1>1, SendSynKeeps, SendAckKeeps, Zenon
<1>4. Keeps(c, SendSyn(d)) /\ Keeps(c, SendAck(d))
    BY <1>1, <1>3, Zenon DEF Keeps
<1> QED BY <1>2, <1>4, Zenon DEF StatusTimer, d

(* A connected context keeps what its connection is made of.                *)
LEMMA ConnectedFacts ==
    ASSUME NEW c, IsContext(c)
    PROVE  /\ IsContext(Connected(c)) /\ Connected(c).status = "CONNECTED"
           /\ Connected(c).id = c.id /\ Connected(c).remote = c.remote /\ Connected(c).e = c.e
<1> DEFINE k == IF c.cb = "set" THEN "ok" ELSE c.cb
<1>1. Connected(c) = [c EXCEPT !.status = "CONNECTED", !.check = "NONE", !.tries = 0, !.cb = k]
    BY Zenon DEF Connected
<1> HIDE DEF k
<1> QED BY <1>1, Zenon DEF IsContext, Fields

(* A frame makes a context keep what it is, or connect; a SYN_ACK2 is sent  *)
(* by a context that is connected then, and carries its two ids.            *)
Processed(c, f, r) ==
    /\ IsContext(r.c) /\ r.c.id = c.id /\ r.c.e = c.e
    /\ r.c.status # c.status => r.c.status = "CONNECTED" /\ c.status \in {"SYN_SENT", "SYN_RECV"}
    /\ \A g \in r.frames :
          /\ g.cmd = "SYN_ACK" => g.to = "client"
          /\ g.cmd = "SYN_ACK2" =>
                /\ r.c.status = "CONNECTED"
                /\ g.e = r.c.e /\ g.src = r.c.id /\ g.dst = r.c.remote
    /\ f.cmd # "SYN_ACK" => /\ r.c.remote = c.remote
                            /\ \A g \in r.frames : g.cmd # "SYN_ACK2"
    /\ f.cmd # "SYN_ACK" /\ r.c.status # c.status =>
          f.cmd = "SYN_ACK2" /\ f.src = c.remote /\ f.dst = c.id
    /\ c.status = "CONNECTED" => r.c.remote = c.remote

LEMMA IdleProcessed ==
    ASSUME NEW c, NEW f, NEW r, IsContext(c), r.c = c, r.frames = {}
    PROVE  Processed(c, f, r)
BY Zenon DEF Processed

LEMMA ProcessFacts ==
    ASSUME NEW c, NEW f, IsContext(c)
    PROVE  Processed(c, f, ProcessControlFrame(c, f))
<1> DEFINE r == ProcessControlFrame(c, f)
<1>1. CASE f.cmd \notin Supported(c.status)
    <2>1. r = Result(c, {}, FALSE)
        BY <1>1, Zenon DEF ProcessControlFrame
    <2>2. r.c = c /\ r.frames = {}
        BY <2>1, SMTT(40) DEF Result
    <2> QED BY <2>2, IdleProcessed, Zenon
<1>2. CASE f.cmd \in Supported(c.status) /\ f.cmd = "SYN"
    <2>1. r = SendAck(c)
        BY <1>2, Zenon DEF ProcessControlFrame
    <2> QED BY <1>2, <2>1, SendAckKeeps, SMTT(40) DEF Keeps, Processed
<1>3. CASE f.cmd \in Supported(c.status) /\ f.cmd = "SYN_ACK"
    <2>1. r = HandleSynAck(c, f)
        BY <1>3, Zenon DEF ProcessControlFrame
    <2>2. c.status \in {"SYN_SENT", "CONNECTED"}
        BY <1>3, Zenon DEF Supported
    <2>3. CASE f.dst # c.id
        <3>1. r = Result(c, {}, FALSE)
            BY <2>1, <2>3, Zenon DEF HandleSynAck
        <3>2. r.c = c /\ r.frames = {}
            BY <3>1 DEF Result
        <3> QED BY <3>2, IdleProcessed, Zenon
    <2>4. CASE f.dst = c.id
        <3> DEFINE d == IF c.status = "SYN_SENT" THEN Connected([c EXCEPT !.remote = f.src]) ELSE c
        <3>1. /\ IsContext([c EXCEPT !.remote = f.src])
              /\ [c EXCEPT !.remote = f.src].id = c.id /\ [c EXCEPT !.remote = f.src].e = c.e
            BY Zenon DEF IsContext, Fields
        <3>2. /\ IsContext(d) /\ d.status = "CONNECTED" /\ d.id = c.id /\ d.e = c.e
              /\ c.status = "CONNECTED" => d.remote = c.remote
            BY <2>2, <3>1, ConnectedFacts, Zenon
        <3>3. r = Result(d, {Frame("server", c.e, "SYN_ACK2", d)}, FALSE)
            BY <2>1, <2>4, Zenon DEF HandleSynAck
        <3> HIDE DEF d
        <3> QED BY <1>3, <2>2, <3>2, <3>3, SMTT(40) DEF Result, Frame, Processed
    <2> QED BY <2>3, <2>4, Zenon
<1>4. CASE f.cmd \in Supported(c.status) /\ f.cmd = "SYN_ACK2"
    <2>1. r = IF f.src = c.remote /\ f.dst = c.id THEN HandleSynAck2(c, f) ELSE Result(c, {}, FALSE)
        BY <1>4, Zenon DEF ProcessControlFrame
    <2>2. c.status = "SYN_RECV"
        BY <1>4, ZenonT(40) DEF Supported
    <2>3. CASE f.src = c.remote /\ f.dst = c.id
        BY <1>4, <2>1, <2>2, <2>3, ConnectedFacts, SMTT(40) DEF HandleSynAck2, Result, Processed
    <2>4. CASE ~(f.src = c.remote /\ f.dst = c.id)
        <3>1. r = Result(c, {}, FALSE)
            BY <2>1, <2>4, Zenon
        <3>2. r.c = c /\ r.frames = {}
            BY <3>1 DEF Result
        <3> QED BY <3>2, IdleProcessed, Zenon
    <2> QED BY <2>3, <2>4, Zenon
<1>5. CASE f.cmd \in Supported(c.status) /\ f.cmd = "RST"
    <2>1. r = HandleRst(c, f)
        BY <1>5, ZenonT(40) DEF ProcessControlFrame
    <2>2. r.c = c /\ r.frames = {}
        BY <2>1, SMTT(40) DEF HandleRst, Result
    <2> QED BY <2>2, IdleProcessed, Zenon
<1>6. f.cmd \in Supported(c.status) => f.cmd \in {"SYN", "SYN_ACK", "SYN_ACK2", "RST"}
    BY Zenon DEF Supported
<1> QED BY <1>1, <1>2, <1>3, <1>4, <1>5, <1>6, Zenon

LEMMA ClosedFacts ==
    ASSUME NEW c, IsContext(c)
    PROVE  IsContext(Closed(c)) /\ Closed(c).status = "CLOSED" /\ Closed(c).e = c.e
<1> DEFINE k == IF c.cb = "set" THEN "error" ELSE c.cb
<1>1. Closed(c) = [c EXCEPT !.status = "CLOSED", !.check = "NONE", !.cb = k]
    BY Zenon DEF Closed
<1> HIDE DEF k
<1> QED BY <1>1, Zenon DEF IsContext, Fields

LEMMA RstHonest == \A to, c, h : \A g \in RstFrames(to, c) : FrameHonest(g, h)
BY DEF RstFrames, Frame, FrameHonest

LEMMA AckHonest == \A c, h : \A g \in SendAck(c).frames : FrameHonest(g, h)
BY DEF SendAck, Result, Frame, FrameHonest

LEMMA KeepsHonest == \A c, r, h : Keeps(c, r) => \A g \in r.frames : FrameHonest(g, h)
BY Zenon DEF Keeps, FrameHonest

-----------------------------------------------------------------------------
(* The steps.                                                               *)

(* One client changes, and the history with it.                             *)
LEMMA ClientChange ==
    ASSUME HandshakeInv, NEW e \in Endpoints, NEW r, ClientDoes(e, r), ss' = ss,
           IsContext(r.c), r.c.status \notin {"UNUSED", "CLOSED"} => r.c.e = e,
           \A g \in r.frames : FrameHonest(g, history')
    PROVE  HandshakeInv'
<1>1. /\ cl' = [cl EXCEPT ![e] = r.c] /\ net' = net \cup r.frames
      /\ history \subseteq history'
      /\ r.c.status = "CONNECTED" => <<e, r.c.id, r.c.remote>> \in history'
    BY Zenon DEF ClientDoes
<1>2. Contexts'
    BY <1>1, Zenon DEF HandshakeInv, Contexts
<1>3. cl'[e] = r.c /\ \A d \in Endpoints : d # e => cl'[d] = cl[d]
    BY <1>1, Zenon DEF HandshakeInv, Contexts
<1>4. ClientsRecorded'
    BY <1>1, <1>3, Zenon DEF HandshakeInv, ClientsRecorded
<1>5. FramesHonest'
    BY <1>1, Zenon DEF HandshakeInv, FramesHonest, FrameHonest
<1>6. ServerAgreesWithClient'
    BY <1>1, Zenon DEF HandshakeInv, ServerAgreesWithClient
<1> QED BY <1>2, <1>4, <1>5, <1>6, Zenon DEF HandshakeInv

(* One session changes.                                                     *)
LEMMA SessionChange ==
    ASSUME HandshakeInv, NEW s \in Sessions, NEW c, NEW frames,
           ss' = [ss EXCEPT ![s] = c], net' = net \cup frames, UNCHANGED <<cl, history>>,
           IsContext(c), c.status = "CONNECTED" => <<c.e, c.remote, c.id>> \in history,
           \A g \in frames : FrameHonest(g, history)
    PROVE  HandshakeInv'
<1>1. Contexts'
    BY Zenon DEF HandshakeInv, Contexts
<1>2. ss'[s] = c /\ \A t \in Sessions : t # s => ss'[t] = ss[t]
    BY Zenon DEF HandshakeInv, Contexts
<1>3. ClientsRecorded'
    BY Zenon DEF HandshakeInv, ClientsRecorded
<1>4. FramesHonest'
    BY Zenon DEF HandshakeInv, FramesHonest
<1>5. ServerAgreesWithClient'
    BY <1>2, SMTT(40) DEF HandshakeInv, ServerAgreesWithClient
<1> QED BY <1>1, <1>3, <1>4, <1>5, Zenon DEF HandshakeInv

(* Nothing but honest frames is added.                                      *)
LEMMA OnlyFrames ==
    ASSUME HandshakeInv, NEW frames, ss' = ss, net' = net \cup frames, UNCHANGED <<cl, history>>,
           \A g \in frames : FrameHonest(g, history)
    PROVE  HandshakeInv'
BY Zenon DEF HandshakeInv, Contexts, ClientsRecorded, FramesHonest, ServerAgreesWithClient

LEMMA Unaffected == ASSUME HandshakeInv, UNCHANGED <<ss, net, cl, history>> PROVE HandshakeInv'
BY Zenon DEF HandshakeInv, Contexts, ClientsRecorded, FramesHonest, ServerAgreesWithClient

LEMMA ClientStep ==
    ASSUME HandshakeInv, NEW e \in Endpoints,
           ClientConnect(e) \/ ClientTimer(e) \/ ClientClose(e) \/ ClientPosted(e) \/ \E f \in net : ClientRecv(e, f)
    PROVE  HandshakeInv'
<1> DEFINE c == cl[e]
<1>0. IsContext(c) /\ (c.status \notin {"UNUSED", "CLOSED"} => c.e = e)
    BY Zenon DEF HandshakeInv, Contexts, ClientsRecorded
<1>1. CASE ClientConnect(e)
    <2>1. PICK id, mode :
             cl' = [cl EXCEPT ![e] = [NoContext EXCEPT !.status = "SYN_SENT", !.id = id,
                                        !.cb = "set", !.e = e, !.stream = mode]]
        BY <1>1, ZenonT(40) DEF ClientConnect
    <2> DEFINE d == [NoContext EXCEPT !.status = "SYN_SENT", !.id = id, !.cb = "set", !.e = e, !.stream = mode]
    <2>2. IsContext(d) /\ d.status = "SYN_SENT" /\ d.e = e
        BY NewContext, Zenon DEF IsContext, Fields
    <2> HIDE DEF d
    <2>3. cl' = [cl EXCEPT ![e] = d] /\ UNCHANGED <<net, history, ss>>
        BY <1>1, <2>1, Zenon DEF ClientConnect, ServerUnchanged, d
    <2>4. ClientDoes(e, Result(d, {}, FALSE))
        BY <2>2, <2>3, Zenon DEF ClientDoes, Result
    <2> QED BY <2>2, <2>3, <2>4, ClientChange, Zenon DEF Result
<1>2. CASE ClientTimer(e)
    <2> DEFINE r == StatusTimer(c)
    <2>1. Keeps(c, r)
        BY <1>0, StatusTimerKeeps, Zenon
    <2>2. ClientDoes(e, r) /\ ss' = ss
        BY <1>2, Zenon DEF ClientTimer, ServerUnchanged
    <2> HIDE DEF r
    <2>3. \A g \in r.frames : FrameHonest(g, history')
        BY <2>1, KeepsHonest, Zenon
    <2>4. IsContext(r.c) /\ (r.c.status \notin {"UNUSED", "CLOSED"} => r.c.e = e)
        BY <1>0, <2>1, Zenon DEF Keeps
    <2> QED BY <2>2, <2>3, <2>4, ClientChange, Zenon
<1>3. CASE ClientClose(e)
    <2>1. UNCHANGED <<ss, net, cl, history>>
        BY <1>3, Zenon DEF ClientClose, ServerUnchanged
    <2> QED BY <2>1, Unaffected, Zenon
<1>4. CASE ClientPosted(e) /\ Head(clPosted[e]) = "send_syn"
    <2> DEFINE r == SendSyn(c)
    <2>1. Keeps(c, r)
        BY <1>0, SendSynKeeps, Zenon
    <2>2. ClientDoes(e, r) /\ ss' = ss
        BY <1>4, Zenon DEF ClientPosted, ServerUnchanged
    <2> HIDE DEF r
    <2>3. \A g \in r.frames : FrameHonest(g, history')
        BY <2>1, KeepsHonest, Zenon
    <2>4. IsContext(r.c) /\ (r.c.status \notin {"UNUSED", "CLOSED"} => r.c.e = e)
        BY <1>0, <2>1, Zenon DEF Keeps
    <2> QED BY <2>2, <2>3, <2>4, ClientChange, Zenon
<1>5. CASE ClientPosted(e) /\ Head(clPosted[e]) # "send_syn"
    <2> DEFINE r == Result(Closed(c), RstFrames("server", c), FALSE)
    <2>1. ClientDoes(e, r) /\ ss' = ss
        BY <1>5, Zenon DEF ClientPosted, ServerUnchanged
    <2>2. r.c = Closed(c) /\ r.frames = RstFrames("server", c)
        BY Zenon DEF Result
    <2> HIDE DEF r
    <2> QED BY <1>0, <2>1, <2>2, ClosedFacts, RstHonest, ClientChange, SMTT(40)
<1>6. ASSUME NEW f \in net, ClientRecv(e, f) PROVE HandshakeInv'
    <2> DEFINE r == ProcessControlFrame(c, f)
    <2>1. ClientDoes(e, r) /\ ss' = ss
        BY <1>6, ZenonT(40) DEF ClientRecv, ServerUnchanged
    <2>2. /\ IsContext(r.c) /\ r.c.e = c.e
          /\ r.c.status # c.status => r.c.status = "CONNECTED" /\ c.status \in {"SYN_SENT", "SYN_RECV"}
          /\ \A g \in r.frames :
                /\ g.cmd = "SYN_ACK" => g.to = "client"
                /\ g.cmd = "SYN_ACK2" =>
                      r.c.status = "CONNECTED" /\ g.e = r.c.e /\ g.src = r.c.id /\ g.dst = r.c.remote
        <3> HIDE DEF c
        <3>1. IsContext(c)
            BY <1>0, ZenonT(40)
        <3>2. Processed(c, f, r)
            BY <3>1, ProcessFacts, Zenon
        <3> HIDE DEF r
        <3> QED BY <3>2, Zenon DEF Processed
    <2> HIDE DEF r
    <2>3. r.c.status \notin {"UNUSED", "CLOSED"} => r.c.e = e
        BY <1>0, <2>2, ZenonT(40)
    <2>4. r.c.status = "CONNECTED" => <<e, r.c.id, r.c.remote>> \in history'
        BY <2>1, ZenonT(40) DEF ClientDoes
    <2>5. \A g \in r.frames : FrameHonest(g, history')
        BY <2>2, <2>3, <2>4, ZenonT(40) DEF FrameHonest
    <2> QED BY <2>1, <2>2, <2>3, <2>5, ClientChange, Zenon
<1> QED BY <1>1, <1>2, <1>3, <1>4, <1>5, <1>6, Zenon

LEMMA SessionStep ==
    ASSUME HandshakeInv, NEW s \in Sessions,
           SessionTimer(s) \/ SessionClose(s) \/ \E f \in net : SessionRecv(s, f)
    PROVE  HandshakeInv'
<1> DEFINE c == ss[s]
<1>0. IsContext(c) /\ (c.status = "CONNECTED" => <<c.e, c.remote, c.id>> \in history)
    BY Zenon DEF HandshakeInv, Contexts, ServerAgreesWithClient
<1>1. CASE SessionTimer(s)
    <2> DEFINE r == StatusTimer(c)
    <2>1. ss' = [ss EXCEPT ![s] = r.c] /\ net' = net \cup r.frames /\ UNCHANGED <<cl, history>>
        BY <1>1, Zenon DEF SessionTimer, SessionDoes, clVars
    <2>2. Keeps(c, r)
        BY <1>0, StatusTimerKeeps, Zenon
    <2> HIDE DEF r
    <2>3. \A g \in r.frames : FrameHonest(g, history)
        BY <2>2, KeepsHonest, Zenon
    <2>4. IsContext(r.c) /\ (r.c.status = "CONNECTED" => <<r.c.e, r.c.remote, r.c.id>> \in history)
        BY <1>0, <2>2, Zenon DEF Keeps
    <2> QED BY <2>1, <2>3, <2>4, SessionChange, Zenon
<1>2. CASE SessionClose(s)
    <2>1. UNCHANGED <<ss, net, cl, history>>
        BY <1>2, Zenon DEF SessionClose, SessionDoes, clVars, Result, HandshakeInv, Contexts
    <2> QED BY <2>1, Unaffected, Zenon
<1>3. ASSUME NEW f \in net, SessionRecv(s, f) PROVE HandshakeInv'
    <2> DEFINE r == ProcessControlFrame(c, f)
    <2>1. ss' = [ss EXCEPT ![s] = r.c] /\ net' = net \cup r.frames /\ UNCHANGED <<cl, history>>
        BY <1>3, Zenon DEF SessionRecv, SessionDoes, clVars
    <2>2. f.to = "server" /\ f.e = c.e /\ FrameHonest(f, history)
        BY <1>3, Zenon DEF SessionRecv, HandshakeInv, FramesHonest
    <2>3. f.cmd # "SYN_ACK"
        BY <2>2, Zenon DEF FrameHonest
    <2>4. /\ IsContext(r.c) /\ r.c.id = c.id /\ r.c.e = c.e /\ r.c.remote = c.remote
          /\ \A g \in r.frames : g.cmd # "SYN_ACK2" /\ (g.cmd = "SYN_ACK" => g.to = "client")
          /\ r.c.status # c.status => f.cmd = "SYN_ACK2" /\ f.src = c.remote /\ f.dst = c.id
        <3> HIDE DEF c
        <3>1. IsContext(c)
            BY <1>0, Zenon
        <3>2. Processed(c, f, r)
            BY <3>1, ProcessFacts, Zenon
        <3> HIDE DEF r
        <3> QED BY <2>3, <3>2, Zenon DEF Processed
    <2> HIDE DEF r
    <2>5. r.c.status = "CONNECTED" => <<r.c.e, r.c.remote, r.c.id>> \in history
        <3>1. CASE r.c.status = c.status
            BY <1>0, <2>4, <3>1, Zenon
        <3>2. CASE r.c.status # c.status
            BY <2>2, <2>4, <3>2, Zenon DEF FrameHonest
        <3> QED BY <3>1, <3>2, Zenon
    <2>6. \A g \in r.frames : FrameHonest(g, history)
        BY <2>4, Zenon DEF FrameHonest
    <2> QED BY <2>1, <2>4, <2>5, <2>6, SessionChange, Zenon
<1> QED BY <1>1, <1>2, <1>3, Zenon

LEMMA ListenStep == ASSUME HandshakeInv, NEW f \in net, ListenSyn(f) PROVE HandshakeInv'
<1>0. UNCHANGED <<cl, history>>
    BY Zenon DEF ListenSyn, clVars
<1>1. CASE NewSession(f.e, f)
    <2>1. PICK s \in Sessions :
              LET c == [NoContext EXCEPT !.id = NewId, !.remote = f.src, !.e = f.e]
              IN  \/ /\ ss' = [ss EXCEPT ![s] = [c EXCEPT !.status = "INIT"]]
                     /\ net' = net \cup RstFrames("client", c)
                  \/ /\ ss' = [ss EXCEPT ![s] = [c EXCEPT !.status = "SYN_RECV", !.cb = "set"]]
                     /\ net' = net
        BY <1>1, Zenon DEF NewSession
    <2> DEFINE c == [NoContext EXCEPT !.id = NewId, !.remote = f.src, !.e = f.e]
               i == [c EXCEPT !.status = "INIT"]
               r == [c EXCEPT !.status = "SYN_RECV", !.cb = "set"]
    <2>2. /\ IsContext(i) /\ i.status = "INIT"
          /\ IsContext(r) /\ r.status = "SYN_RECV"
        <3>1. IsContext(c)
            BY NewContext, PassiveContext, Zenon
        <3> HIDE DEF c
        <3>2. IsContext(i) /\ i.status = "INIT"
            BY <3>1, Zenon DEF IsContext, Fields
        <3>3. IsContext(r) /\ r.status = "SYN_RECV"
            BY <3>1, Zenon DEF IsContext, Fields
        <3> QED BY <3>2, <3>3, Zenon
    <2> HIDE DEF c, i, r
    <2>3. CASE ss' = [ss EXCEPT ![s] = i] /\ net' = net \cup RstFrames("client", c)
        BY <1>0, <2>2, <2>3, RstHonest, SessionChange, Zenon
    <2>4. CASE ss' = [ss EXCEPT ![s] = r] /\ net' = net
        <3> DEFINE none == {}
        <3>1. net' = net \cup none /\ \A g \in none : FrameHonest(g, history)
            BY <2>4, Zenon
        <3> HIDE DEF none
        <3> QED BY <1>0, <2>2, <2>4, <3>1, SessionChange, ZenonT(40)
    <2> QED BY <2>1, <2>3, <2>4, Zenon DEF c, i, r
<1>2. CASE KnownSession(f.e, f)
    <2>1. UNCHANGED <<ss, net>>
        BY <1>2, Zenon DEF KnownSession
    <2> QED BY <1>0, <2>1, Unaffected, Zenon
<1> QED BY <1>1, <1>2, Zenon DEF ListenSyn

LEMMA PostedStep == ASSUME HandshakeInv, NEW i \in 1..Len(posted), ServerPosted(i) PROVE HandshakeInv'
<1> DEFINE s == posted[i][2]
<1>0. UNCHANGED <<cl, history>>
    BY Zenon DEF ServerPosted, clVars
<1>1. \/ UNCHANGED <<ss, net>>
      \/ ss' = [ss EXCEPT ![s] = SendAck(ss[s]).c] /\ net' = net \cup SendAck(ss[s]).frames
      \/ ss' = [ss EXCEPT ![s] = Closed(ss[s])] /\ net' = net \cup RstFrames("client", ss[s])
    BY Zenon DEF ServerPosted
<1> HIDE DEF s
<1>2. CASE UNCHANGED <<ss, net>>
    BY <1>0, <1>2, Unaffected, Zenon
<1>3. CASE ss' = [ss EXCEPT ![s] = SendAck(ss[s]).c] /\ net' = net \cup SendAck(ss[s]).frames
    <2>1. CASE s \notin Sessions
        <3>1. ss' = ss
            BY <1>3, <2>1, Zenon DEF HandshakeInv, Contexts
        <3> QED BY <1>0, <1>3, <3>1, AckHonest, OnlyFrames, Zenon
    <2>2. CASE s \in Sessions
        <3>1. IsContext(ss[s]) /\ (ss[s].status = "CONNECTED" => <<ss[s].e, ss[s].remote, ss[s].id>> \in history)
            BY <2>2, Zenon DEF HandshakeInv, Contexts, ServerAgreesWithClient
        <3>2. Keeps(ss[s], SendAck(ss[s]))
            BY <3>1, SendAckKeeps, Zenon
        <3> DEFINE d == SendAck(ss[s]).c
        <3>3. IsContext(d) /\ (d.status = "CONNECTED" => <<d.e, d.remote, d.id>> \in history)
            BY <3>1, <3>2, Zenon DEF Keeps
        <3> HIDE DEF d
        <3>4. ss' = [ss EXCEPT ![s] = d]
            BY <1>3, Zenon DEF d
        <3> QED BY <1>0, <1>3, <2>2, <3>3, <3>4, AckHonest, SessionChange, Zenon
    <2> QED BY <2>1, <2>2, Zenon
<1>4. CASE ss' = [ss EXCEPT ![s] = Closed(ss[s])] /\ net' = net \cup RstFrames("client", ss[s])
    <2>1. CASE s \notin Sessions
        <3>1. ss' = ss
            BY <1>4, <2>1, ZenonT(40) DEF HandshakeInv, Contexts
        <3> QED BY <1>0, <1>4, <3>1, RstHonest, OnlyFrames, ZenonT(40)
    <2>2. CASE s \in Sessions
        <3>1. IsContext(Closed(ss[s])) /\ Closed(ss[s]).status = "CLOSED"
            BY <2>2, ClosedFacts, ZenonT(40) DEF HandshakeInv, Contexts
        <3> QED BY <1>0, <1>4, <2>2, <3>1, RstHonest, SessionChange, ZenonT(40)
    <2> QED BY <2>1, <2>2, Zenon
<1> QED BY <1>1, <1>2, <1>3, <1>4, Zenon

LEMMA HandshakeStep == HandshakeInv /\ [RudpNext]_rudpVars => HandshakeInv'
<1> SUFFICES ASSUME HandshakeInv, [RudpNext]_rudpVars PROVE HandshakeInv'
    BY Zenon
<1>1. CASE \E e \in Endpoints :
              \/ ClientConnect(e) \/ ClientTimer(e) \/ ClientClose(e) \/ ClientPosted(e)
              \/ \E f \in net : ClientRecv(e, f)
    BY <1>1, ClientStep, Zenon
<1>2. CASE \E s \in Sessions : SessionTimer(s) \/ SessionClose(s) \/ \E f \in net : SessionRecv(s, f)
    BY <1>2, SessionStep, ZenonT(40)
<1>3. CASE \E f \in net : ListenSyn(f)
    BY <1>3, ListenStep, ZenonT(40)
<1>4. CASE \E i \in 1..Len(posted) : ServerPosted(i)
    BY <1>4, PostedStep, ZenonT(40)
<1>5. CASE AsyncRudpAccept \/ ServerDestroy \/ UNCHANGED rudpVars
    <2>1. UNCHANGED <<ss, net, cl, history>>
        BY <1>5, Zenon DEF AsyncRudpAccept, ServerDestroy, rudpVars, clVars
    <2> QED BY <2>1, Unaffected, ZenonT(40)
<1> QED BY <1>1, <1>2, <1>3, <1>4, <1>5, Zenon DEF RudpNext

(* Whatever old, repeated or reordered frames the network delivers, a       *)
(* session is connected only after a client of its endpoint connected with  *)
(* the same two ids: process_control_frame takes a SYN_ACK2 only when it    *)
(* carries them (asio_rudp.cpp, handle_syn_ack2).                           *)
THEOREM ConnectedToEachOther == RudpSpec => []ServerAgreesWithClient
<1>1. HandshakeInv => ServerAgreesWithClient
    BY Zenon DEF HandshakeInv
<1> QED BY <1>1, HandshakeInit, HandshakeStep, PTL DEF RudpSpec

-----------------------------------------------------------------------------
(* ThreadPool                                                                *)

Types ==
    /\ queue \subseteq Task
    /\ cache \in [Worker -> Task \cup {NoTask}]
    /\ worker \in [Worker -> {"none", "enter", "lock", "wait", "awake", "expired", "got", "run", "timeout", "exited"}]
    /\ status \in [Task -> {"new", "waiting", "running", "done", "cancelled"}]
    /\ client \in [Task -> {"new", "prepare", "spawn", "done"}]
    /\ joiner # "new" => joining

(* A task that has not been scheduled is nowhere.                           *)
NewNowhere ==
    \A t \in Task : /\ status[t] = "new" <=> client[t] = "new"
                    /\ status[t] = "new" => t \notin queue /\ \A w \in Worker : cache[w] # t

(* Where a worker may be while it holds a task, and where it must hold one. *)
HoldsAt ==
    \A w \in Worker : /\ cache[w] # NoTask => worker[w] \in {"wait", "awake", "got", "run"}
                      /\ worker[w] \in {"got", "run"} => cache[w] # NoTask
                      /\ worker[w] = "run" => status[cache[w]] = "running"

(* A task is in one place: the queue, or one worker's cache.                *)
Alone ==
    /\ \A w \in Worker : cache[w] \notin queue
    /\ \A v, w \in Worker : cache[v] = cache[w] /\ cache[v] # NoTask => v = w

(* What is queued, or held and not run, has not been claimed.               *)
Unclaimed ==
    /\ \A t \in queue : status[t] \in {"waiting", "cancelled"}
    /\ \A w \in Worker : cache[w] # NoTask /\ worker[w] # "run" => status[cache[w]] \in {"waiting", "cancelled"}

(* A waiting or running task has its place.                                 *)
Placed ==
    \A t \in Task :
        /\ status[t] = "running" => \E w \in Worker : cache[w] = t /\ worker[w] = "run"
        /\ status[t] = "waiting" /\ ~joining => t \in queue \/ \E w \in Worker : cache[w] = t

Inv == Types /\ NewNowhere /\ HoldsAt /\ Alone /\ Unclaimed /\ Placed

LEMMA InitInv == Init => Inv
<1> SUFFICES ASSUME Init PROVE Inv
    BY Zenon
<1>1. Types
    BY Zenon DEF Init, Types
<1>2. NewNowhere
    BY ThreadPoolAssumption, Zenon DEF Init, NewNowhere
<1>3. HoldsAt
    BY Zenon DEF Init, HoldsAt
<1>4. Alone
    BY Zenon DEF Init, Alone
<1>5. Unclaimed
    BY Zenon DEF Init, Unclaimed
<1>6. Placed
    BY Zenon DEF Init, Placed
<1> QED BY <1>1, <1>2, <1>3, <1>4, <1>5, <1>6, Zenon DEF Inv

(* A step that leaves the tasks where they are and moves only workers that  *)
(* hold none, or wakes workers.                                             *)
LEMMA MovesStep ==
    ASSUME Inv, UNCHANGED <<status, queue, cache>>,
           client' \in [Task -> {"new", "prepare", "spawn", "done"}],
           \A t \in Task : client'[t] = "new" <=> client[t] = "new",
           joining => joining', joiner' # "new" => joining',
           worker' \in [Worker -> {"none", "enter", "lock", "wait", "awake", "expired", "got", "run", "timeout", "exited"}],
           \A w \in Worker : \/ worker'[w] = worker[w]
                             \/ cache[w] = NoTask /\ worker'[w] \notin {"got", "run"} /\ worker[w] # "run"
                             \/ worker[w] = "wait" /\ worker'[w] = "awake"
    PROVE  Inv'
<1>1. Types'
    BY Zenon DEF Inv, Types
<1>2. NewNowhere'
    BY Zenon DEF Inv, NewNowhere
<1>3. HoldsAt'
    BY Zenon DEF Inv, HoldsAt
<1>4. Alone'
    BY Zenon DEF Inv, Alone
<1>5. Unclaimed'
    BY Zenon DEF Inv, Unclaimed
<1>6. Placed'
    BY SMTT(40) DEF Inv, Placed
<1> QED BY <1>1, <1>2, <1>3, <1>4, <1>5, <1>6, Zenon DEF Inv

LEMMA ScheduleStep == ASSUME Inv, NEW t \in Task, NEW delay \in Delays, Schedule(t, delay) PROVE Inv'
<1>1. /\ client[t] = "new" /\ queue' = queue \cup {t} /\ UNCHANGED <<cache, joining, joiner>>
      /\ status' = [status EXCEPT ![t] = "waiting"]
      /\ client' = [client EXCEPT ![t] = "prepare"]
    BY Zenon DEF Schedule, callers
<1>2. /\ worker' \in [Worker -> {"none", "enter", "lock", "wait", "awake", "expired", "got", "run", "timeout", "exited"}]
      /\ \A w \in Worker : worker'[w] = worker[w] \/ (worker[w] = "wait" /\ worker'[w] = "awake")
    BY Zenon DEF Schedule, NotifyOne, Inv, Types
<1>3. status[t] = "new" /\ t \notin queue /\ (\A w \in Worker : cache[w] # t) /\ t # NoTask
    BY <1>1, ThreadPoolAssumption, Zenon DEF Inv, NewNowhere
<1>4. /\ status \in [Task -> {"new", "waiting", "running", "done", "cancelled"}] /\ queue \subseteq Task
      /\ client \in [Task -> {"new", "prepare", "spawn", "done"}]
      /\ cache \in [Worker -> Task \cup {NoTask}]
    BY Zenon DEF Inv, Types
<1>5. status'[t] = "waiting" /\ (\A u \in Task : u # t => status'[u] = status[u])
    BY <1>1, <1>4, Zenon
<1>6. Types'
    BY <1>1, <1>2, <1>4, Zenon DEF Inv, Types
<1>7. NewNowhere'
    BY <1>1, <1>4, <1>5, Zenon DEF Inv, NewNowhere
<1>8. HoldsAt'
    BY <1>1, <1>2, <1>3, <1>4, <1>5, SMTT(40) DEF Inv, HoldsAt
<1>9. Alone'
    BY <1>1, <1>3, Zenon DEF Inv, Alone
<1>10. Unclaimed'
    BY <1>1, <1>2, <1>3, <1>4, <1>5, SMTT(40) DEF Inv, Unclaimed
<1>11. Placed'
    BY <1>1, <1>2, <1>3, <1>4, <1>5, SMTT(40) DEF Inv, Placed
<1> QED BY <1>6, <1>7, <1>8, <1>9, <1>10, <1>11, Zenon DEF Inv

LEMMA CancelStep == ASSUME Inv, NEW t \in Task, CancelTask(t) PROVE Inv'
<1>1. /\ status[t] = "waiting" /\ status' = [status EXCEPT ![t] = "cancelled"]
      /\ UNCHANGED <<queue, cache, worker, client, joining, joiner>>
    BY Zenon DEF CancelTask, callers, clients
<1>2. status \in [Task -> {"new", "waiting", "running", "done", "cancelled"}] /\ queue \subseteq Task
      /\ cache \in [Worker -> Task \cup {NoTask}]
    BY Zenon DEF Inv, Types
<1>3. status'[t] = "cancelled" /\ (\A u \in Task : u # t => status'[u] = status[u])
    BY <1>1, <1>2, Zenon
<1>4. Types'
    BY <1>1, <1>2, Zenon DEF Inv, Types
<1>5. NewNowhere'
    BY <1>1, <1>3, Zenon DEF Inv, NewNowhere
<1>6. HoldsAt'
    BY <1>1, <1>2, <1>3, Zenon DEF Inv, HoldsAt
<1>7. Alone'
    BY <1>1, Zenon DEF Inv, Alone
<1>8. Unclaimed'
    BY <1>1, <1>2, <1>3, Zenon DEF Inv, Unclaimed
<1>9. Placed'
    BY <1>1, <1>2, <1>3, SMTT(40) DEF Inv, Placed
<1> QED BY <1>4, <1>5, <1>6, <1>7, <1>8, <1>9, Zenon DEF Inv

(* A worker that holds nothing changes its place.                           *)
LEMMA WorkerMoves ==
    ASSUME Inv, UNCHANGED <<status, queue, cache, client, joining, joiner>>, NEW w \in Worker,
           NEW place \in {"none", "lock", "wait", "expired", "timeout", "exited"},
           cache[w] = NoTask, worker[w] # "run", worker' = [worker EXCEPT ![w] = place]
    PROVE  Inv'
<1>1. /\ worker \in [Worker -> {"none", "enter", "lock", "wait", "awake", "expired", "got", "run", "timeout", "exited"}]
      /\ client \in [Task -> {"new", "prepare", "spawn", "done"}] /\ (joiner # "new" => joining)
    BY Zenon DEF Inv, Types
<1>2. /\ worker' \in [Worker -> {"none", "enter", "lock", "wait", "awake", "expired", "got", "run", "timeout", "exited"}]
      /\ \A v \in Worker : \/ worker'[v] = worker[v]
                           \/ cache[v] = NoTask /\ worker'[v] \notin {"got", "run"} /\ worker[v] # "run"
    BY <1>1, Zenon
<1> QED BY <1>1, <1>2, MovesStep, Zenon

(* The iteration of Dequeue that caches a task, in exchange or not.         *)
LEMMA PickStep ==
    ASSUME Inv, NEW w \in Worker, worker[w] \in {"lock", "awake"}, NEW pick \in Picks(w),
           NEW place \in {"got", "wait"}, ~(cache[w] = NoTask /\ queue = {}),
           cache' = [cache EXCEPT ![w] = pick[1]], queue' = pick[2],
           worker' = [worker EXCEPT ![w] = place],
           UNCHANGED <<status, client, joining, joiner>>
    PROVE  Inv'
<1> DEFINE t == pick[1]
           c == cache[w]
<1>1. /\ queue \subseteq Task /\ cache \in [Worker -> Task \cup {NoTask}] /\ NoTask \notin Task
      /\ worker \in [Worker -> {"none", "enter", "lock", "wait", "awake", "expired", "got", "run", "timeout", "exited"}]
      /\ status \in [Task -> {"new", "waiting", "running", "done", "cancelled"}]
    BY ThreadPoolAssumption, Zenon DEF Inv, Types
<1>2. \/ c = NoTask /\ t \in queue /\ queue' = queue \ {t}
      \/ c # NoTask /\ t \in queue /\ queue' = (queue \ {t}) \cup {c}
      \/ c # NoTask /\ t = c /\ queue' = queue
    BY SMTT(40) DEF Picks, Earliest
<1>3. /\ t \in Task /\ t # NoTask /\ cache'[w] = t /\ (\A v \in Worker : v # w => cache'[v] = cache[v])
      /\ worker'[w] = place /\ (\A v \in Worker : v # w => worker'[v] = worker[v]) /\ worker[w] # "run"
    BY <1>1, <1>2, Zenon
<1>4. \A v \in Worker : v # w => cache[v] # t
    BY <1>1, <1>2, <1>3, ZenonT(40) DEF Inv, Alone
<1>5. status[t] \in {"waiting", "cancelled"} /\ (c # NoTask => status[c] \in {"waiting", "cancelled"})
    BY <1>2, <1>3, Zenon DEF Inv, Unclaimed
<1>6. Types'
    BY <1>1, <1>2, <1>3, Zenon DEF Inv, Types
<1>7. NewNowhere'
    BY <1>1, <1>2, <1>3, <1>5, SMTT(40) DEF Inv, NewNowhere
<1>8. HoldsAt'
    BY <1>1, <1>3, ZenonT(40) DEF Inv, HoldsAt
<1>9. Alone'
    <2>1. \A v \in Worker : cache'[v] \notin queue'
        BY <1>1, <1>2, <1>3, <1>4, Zenon DEF Inv, Alone
    <2>2. \A u, v \in Worker : cache'[u] = cache'[v] /\ cache'[u] # NoTask => u = v
        BY <1>1, <1>3, <1>4, Zenon DEF Inv, Alone
    <2> QED BY <2>1, <2>2, Zenon DEF Alone
<1>10. Unclaimed'
    BY <1>1, <1>2, <1>3, <1>5, Zenon DEF Inv, Unclaimed
<1>11. Placed'
    <2> SUFFICES ASSUME NEW u \in Task
                 PROVE  /\ status[u] = "running" => \E v \in Worker : cache'[v] = u /\ worker'[v] = "run"
                        /\ status[u] = "waiting" /\ ~joining => u \in queue' \/ \E v \in Worker : cache'[v] = u
        BY Zenon DEF Placed
    <2>1. status[u] = "running" => \E v \in Worker : cache'[v] = u /\ worker'[v] = "run"
        BY <1>3, SMTT(40) DEF Inv, Placed
    <2>2. status[u] = "waiting" /\ ~joining => u \in queue' \/ \E v \in Worker : cache'[v] = u
        <3> SUFFICES ASSUME status[u] = "waiting", ~joining, u # t
                     PROVE  u \in queue' \/ \E v \in Worker : cache'[v] = u
            BY <1>3, Zenon
        <3>1. u \in queue \/ \E v \in Worker : cache[v] = u
            BY Zenon DEF Inv, Placed
        <3>2. u \in queue => u \in queue'
            BY <1>2, Zenon
        <3>3. u = c => u \in queue'
            BY <1>1, <1>2, Zenon
        <3> QED BY <1>3, <3>1, <3>2, <3>3, Zenon
    <2> QED BY <2>1, <2>2, Zenon
<1> QED BY <1>6, <1>7, <1>8, <1>9, <1>10, <1>11, Zenon DEF Inv

(* A worker lets go of its task, which is not one that waits to be run.     *)
LEMMA DropStep ==
    ASSUME Inv, NEW w \in Worker, NEW place \in {"lock", "exited"},
           cache' = [cache EXCEPT ![w] = NoTask], worker' = [worker EXCEPT ![w] = place],
           UNCHANGED <<queue, client, joining, joiner>>,
           status' \in [Task -> {"new", "waiting", "running", "done", "cancelled"}],
           \A t \in Task : t # cache[w] => status'[t] = status[t],
           cache[w] # NoTask => /\ status'[cache[w]] \in {"waiting", "done", "cancelled"}
                                /\ status[cache[w]] # "new"
                                /\ status'[cache[w]] = "waiting" => joining
    PROVE  Inv'
<1>1. /\ queue \subseteq Task /\ cache \in [Worker -> Task \cup {NoTask}] /\ NoTask \notin Task
      /\ worker \in [Worker -> {"none", "enter", "lock", "wait", "awake", "expired", "got", "run", "timeout", "exited"}]
      /\ status \in [Task -> {"new", "waiting", "running", "done", "cancelled"}]
    BY ThreadPoolAssumption, Zenon DEF Inv, Types
<1>2. /\ cache'[w] = NoTask /\ (\A v \in Worker : v # w => cache'[v] = cache[v])
      /\ worker'[w] = place /\ (\A v \in Worker : v # w => worker'[v] = worker[v])
    BY <1>1, Zenon
<1>3. /\ cache[w] \notin queue
      /\ \A v \in Worker : v # w /\ cache[v] # NoTask => cache[v] # cache[w] /\ status'[cache[v]] = status[cache[v]]
    BY <1>1, ZenonT(40) DEF Inv, Alone
<1>4. Types'
    BY <1>1, <1>2, Zenon DEF Inv, Types
<1>5. NewNowhere'
    BY <1>1, <1>2, <1>3, SMTT(40) DEF Inv, NewNowhere
<1>6. HoldsAt'
    BY <1>1, <1>2, <1>3, SMTT(40) DEF Inv, HoldsAt
<1>7. Alone'
    BY <1>1, <1>2, Zenon DEF Inv, Alone
<1>8. Unclaimed'
    BY <1>1, <1>2, <1>3, ZenonT(40) DEF Inv, Unclaimed
<1>9. Placed'
    BY <1>1, <1>2, <1>3, SMTT(40) DEF Inv, Placed
<1> QED BY <1>4, <1>5, <1>6, <1>7, <1>8, <1>9, Zenon DEF Inv

LEMMA DequeueStep == ASSUME Inv, NEW w \in Worker, Dequeue(w) PROVE Inv'
<1>1. /\ worker[w] \in {"lock", "awake"}
      /\ UNCHANGED <<status, client, joining, joiner>>
    BY Zenon DEF Dequeue, callers, clients
<1>2. /\ cache \in [Worker -> Task \cup {NoTask}] /\ NoTask \notin Task
      /\ worker \in [Worker -> {"none", "enter", "lock", "wait", "awake", "expired", "got", "run", "timeout", "exited"}]
      /\ status \in [Task -> {"new", "waiting", "running", "done", "cancelled"}]
    BY ThreadPoolAssumption, Zenon DEF Inv, Types
<1>3. CASE /\ Stops(w) /\ worker' = [worker EXCEPT ![w] = "exited"]
           /\ cache' = [cache EXCEPT ![w] = NoTask] /\ queue' = queue
    <2>1. cache[w] # NoTask => status[cache[w]] \in {"waiting", "cancelled"} /\ joining
        BY <1>1, <1>3, Zenon DEF Inv, Unclaimed, Stops
    <2>2. cache[w] # NoTask => /\ status'[cache[w]] \in {"waiting", "done", "cancelled"}
                               /\ status[cache[w]] # "new"
                               /\ status'[cache[w]] = "waiting" => joining
        BY <1>1, <2>1, Zenon
    <2> QED BY <1>1, <1>2, <1>3, <2>2, DropStep, Zenon
<1>4. CASE cache[w] = NoTask /\ worker' = [worker EXCEPT ![w] = "wait"] /\ UNCHANGED <<queue, cache>>
    BY <1>1, <1>4, WorkerMoves, Zenon
<1>5. CASE UNCHANGED <<queue, worker, cache>>
    <2>1. client' \in [Task -> {"new", "prepare", "spawn", "done"}] /\ (joiner' # "new" => joining') /\ (joining => joining')
        BY <1>1, Zenon DEF Inv, Types
    <2> QED BY <1>1, <1>2, <1>5, <2>1, MovesStep, Zenon
<1>6. CASE \E pick \in Picks(w) :
             LET due == time[pick[1]] <= now
             IN /\ cache' = [cache EXCEPT ![w] = pick[1]]
                /\ queue' = pick[2]
                /\ worker' = [worker EXCEPT ![w] = IF due THEN "got" ELSE "wait"]
    <2>1. PICK pick \in Picks(w) :
             /\ cache' = [cache EXCEPT ![w] = pick[1]]
             /\ queue' = pick[2]
             /\ worker' = [worker EXCEPT ![w] = IF time[pick[1]] <= now THEN "got" ELSE "wait"]
        BY <1>6, Zenon
    <2>2. ~(cache[w] = NoTask /\ queue = {})
        BY Zenon DEF Picks, Earliest
    <2>3. PICK place \in {"got", "wait"} : worker' = [worker EXCEPT ![w] = place]
        BY <2>1, Zenon
    <2> QED BY <1>1, <2>1, <2>2, <2>3, PickStep, Zenon
<1> QED BY <1>3, <1>4, <1>5, <1>6, Zenon DEF Dequeue

LEMMA ClaimStep == ASSUME Inv, NEW w \in Worker, Claim(w) PROVE Inv'
<1>1. /\ worker[w] = "got" /\ UNCHANGED <<queue, client, joining, joiner>>
    BY Zenon DEF Claim, callers, clients
<1>2. /\ queue \subseteq Task /\ cache \in [Worker -> Task \cup {NoTask}] /\ NoTask \notin Task
      /\ worker \in [Worker -> {"none", "enter", "lock", "wait", "awake", "expired", "got", "run", "timeout", "exited"}]
      /\ status \in [Task -> {"new", "waiting", "running", "done", "cancelled"}]
    BY ThreadPoolAssumption, Zenon DEF Inv, Types
<1>3. cache[w] \in Task /\ status[cache[w]] \in {"waiting", "cancelled"} /\ cache[w] \notin queue
    BY <1>1, <1>2, SMTT(40) DEF Inv, HoldsAt, Unclaimed, Alone
<1>4. CASE status[cache[w]] = "waiting"
    <2>1. /\ status' = [status EXCEPT ![cache[w]] = "running"]
          /\ worker' = [worker EXCEPT ![w] = "run"] /\ cache' = cache
        BY <1>4, Zenon DEF Claim
    <2>2. /\ status'[cache[w]] = "running" /\ (\A t \in Task : t # cache[w] => status'[t] = status[t])
          /\ worker'[w] = "run" /\ (\A v \in Worker : v # w => worker'[v] = worker[v])
          /\ \A v \in Worker : v # w /\ cache[v] # NoTask => cache[v] # cache[w] /\ cache[v] \in Task
        BY <1>2, <1>3, <2>1, Zenon DEF Inv, Alone
    <2>3. Types'
        BY <1>1, <1>2, <2>1, Zenon DEF Inv, Types
    <2>4. NewNowhere'
        BY <1>1, <1>3, <1>4, <2>1, <2>2, Zenon DEF Inv, NewNowhere
    <2>5. HoldsAt'
        BY <1>2, <1>3, <2>1, <2>2, SMTT(40) DEF Inv, HoldsAt
    <2>6. Alone'
        BY <1>1, <2>1, Zenon DEF Inv, Alone
    <2>7. Unclaimed'
        BY <1>1, <1>2, <1>3, <2>1, <2>2, SMTT(40) DEF Inv, Unclaimed
    <2>8. Placed'
        BY <1>1, <1>2, <1>3, <2>1, <2>2, Zenon DEF Inv, Placed
    <2> QED BY <2>3, <2>4, <2>5, <2>6, <2>7, <2>8, Zenon DEF Inv
<1>5. CASE status[cache[w]] # "waiting"
    <2>1. /\ cache' = [cache EXCEPT ![w] = NoTask] /\ worker' = [worker EXCEPT ![w] = "lock"] /\ status' = status
        BY <1>5, Zenon DEF Claim
    <2> QED BY <1>1, <1>2, <1>3, <1>5, <2>1, DropStep, Zenon
<1> QED BY <1>4, <1>5, Zenon

LEMMA FinishStep == ASSUME Inv, NEW w \in Worker, Finish(w) PROVE Inv'
<1>1. /\ worker[w] = "run" /\ UNCHANGED <<queue, client, joining, joiner>>
      /\ status' = [status EXCEPT ![cache[w]] = "done"]
      /\ cache' = [cache EXCEPT ![w] = NoTask] /\ worker' = [worker EXCEPT ![w] = "lock"]
    BY Zenon DEF Finish, callers, clients
<1>2. /\ status \in [Task -> {"new", "waiting", "running", "done", "cancelled"}]
      /\ cache \in [Worker -> Task \cup {NoTask}]
    BY Zenon DEF Inv, Types
<1>3. cache[w] \in Task /\ status[cache[w]] = "running"
    BY <1>1, <1>2, Zenon DEF Inv, HoldsAt
<1>4. /\ status' \in [Task -> {"new", "waiting", "running", "done", "cancelled"}]
      /\ status'[cache[w]] = "done" /\ \A t \in Task : t # cache[w] => status'[t] = status[t]
    BY <1>1, <1>2, <1>3, Zenon
<1> QED BY <1>1, <1>3, <1>4, DropStep, Zenon

(* Join drops what is queued; the threads it has joined hold nothing.       *)
LEMMA JoinThreadsStep == ASSUME Inv, JoinThreads PROVE Inv'
<1>1. /\ joiner = "join" /\ joiner' = "done" /\ queue' = {}
      /\ (\A w \in swapped : worker[w] = "exited")
      /\ worker' = [w \in Worker |-> IF w \in swapped THEN "none" ELSE worker[w]]
      /\ UNCHANGED <<status, client, cache, joining>>
    BY Zenon DEF JoinThreads, clients
<1>2. joining /\ joining'
    BY <1>1, Zenon DEF Inv, Types
<1>3. \A w \in Worker : worker'[w] = worker[w] \/ (worker[w] = "exited" /\ worker'[w] = "none")
    BY <1>1, Zenon
<1>4. Types'
    BY <1>1, <1>2, Zenon DEF Inv, Types
<1>5. NewNowhere'
    BY <1>1, Zenon DEF Inv, NewNowhere
<1>6. HoldsAt'
    BY <1>1, <1>3, Zenon DEF Inv, HoldsAt
<1>7. Alone'
    BY <1>1, Zenon DEF Inv, Alone
<1>8. Unclaimed'
    BY <1>1, <1>3, Zenon DEF Inv, Unclaimed, HoldsAt
<1>9. Placed'
    BY <1>1, <1>2, <1>3, Zenon DEF Inv, Placed
<1> QED BY <1>4, <1>5, <1>6, <1>7, <1>8, <1>9, Zenon DEF Inv

(* The steps that only move workers that hold no task, or clients.          *)
LEMMA WorkersWantedStep == ASSUME Inv, NEW t \in Task, PrepareWorkers(t) \/ Spawn(t) PROVE Inv'
<1>1. /\ client \in [Task -> {"new", "prepare", "spawn", "done"}] /\ (joiner # "new" => joining)
      /\ worker \in [Worker -> {"none", "enter", "lock", "wait", "awake", "expired", "got", "run", "timeout", "exited"}]
    BY Zenon DEF Inv, Types
<1>2. UNCHANGED <<status, queue, cache, joining, joiner>>
    BY Zenon DEF PrepareWorkers, Spawn, tasks, callers
<1>3. /\ client' \in [Task -> {"new", "prepare", "spawn", "done"}]
      /\ \A u \in Task : client'[u] = "new" <=> client[u] = "new"
    BY <1>1, Zenon DEF PrepareWorkers, Spawn
<1>4. /\ worker' \in [Worker -> {"none", "enter", "lock", "wait", "awake", "expired", "got", "run", "timeout", "exited"}]
      /\ \A w \in Worker : worker'[w] = worker[w] \/ (worker[w] = "none" /\ worker'[w] = "enter")
    <2>1. CASE PrepareWorkers(t)
        BY <1>1, <2>1, Zenon DEF PrepareWorkers
    <2>2. CASE Spawn(t)
        <3>1. PICK new \in SUBSET {w \in Worker : worker[w] = "none"} :
                  worker' = [w \in Worker |-> IF w \in new THEN "enter" ELSE worker[w]]
            BY <2>2, Zenon DEF Spawn
        <3> QED BY <1>1, <3>1, Zenon
    <2> QED BY <2>1, <2>2, Zenon
<1>5. \A w \in Worker : \/ worker'[w] = worker[w]
                        \/ cache[w] = NoTask /\ worker'[w] \notin {"got", "run"} /\ worker[w] # "run"
    BY <1>4, Zenon DEF Inv, HoldsAt
<1> QED BY <1>1, <1>2, <1>3, <1>4, <1>5, MovesStep, Zenon

LEMMA IdleStep ==
    ASSUME Inv, NEW w \in Worker, Enter(w) \/ WakeDue(w) \/ IdleExpires(w) \/ ReturnTimeout(w) \/ Leave(w)
    PROVE  Inv'
<1>1. UNCHANGED <<status, queue, cache, client, joining, joiner>>
    BY Zenon DEF Enter, WakeDue, IdleExpires, ReturnTimeout, Leave, tasks, clients, callers
<1>2. CASE WakeDue(w)
    <2>1. /\ client \in [Task -> {"new", "prepare", "spawn", "done"}] /\ (joiner # "new" => joining)
          /\ worker \in [Worker -> {"none", "enter", "lock", "wait", "awake", "expired", "got", "run", "timeout", "exited"}]
        BY Zenon DEF Inv, Types
    <2>2. /\ worker' \in [Worker -> {"none", "enter", "lock", "wait", "awake", "expired", "got", "run", "timeout", "exited"}]
          /\ \A v \in Worker : worker'[v] = worker[v] \/ (worker[v] = "wait" /\ worker'[v] = "awake")
        BY <1>2, <2>1, Zenon DEF WakeDue
    <2> QED BY <1>1, <2>1, <2>2, MovesStep, Zenon
<1>3. CASE Enter(w) \/ IdleExpires(w) \/ ReturnTimeout(w) \/ Leave(w)
    <2>1. worker[w] # "run" /\ cache[w] = NoTask
        BY <1>3, Zenon DEF Enter, IdleExpires, ReturnTimeout, Leave, Inv, HoldsAt
    <2>2. PICK place \in {"none", "lock", "wait", "expired", "timeout", "exited"} :
              worker' = [worker EXCEPT ![w] = place]
        BY <1>3, Zenon DEF Enter, IdleExpires, ReturnTimeout, Leave
    <2> QED BY <1>1, <2>1, <2>2, WorkerMoves, Zenon
<1> QED BY <1>2, <1>3, Zenon

LEMMA CallerStep == ASSUME Inv, JoinBegin \/ JoinNotify \/ WaitEnd \/ Tick \/ UNCHANGED vars PROVE Inv'
<1>1. /\ client \in [Task -> {"new", "prepare", "spawn", "done"}] /\ (joiner # "new" => joining)
      /\ worker \in [Worker -> {"none", "enter", "lock", "wait", "awake", "expired", "got", "run", "timeout", "exited"}]
    BY Zenon DEF Inv, Types
<1>2. UNCHANGED <<status, queue, cache, client>> /\ (joining => joining')
    BY SMTT(40) DEF JoinBegin, JoinNotify, WaitEnd, Tick, vars, tasks, clients, callers
<1>3. joiner' # "new" => joining'
    BY <1>1, Zenon DEF JoinBegin, JoinNotify, WaitEnd, Tick, vars, callers
<1>4. /\ worker' \in [Worker -> {"none", "enter", "lock", "wait", "awake", "expired", "got", "run", "timeout", "exited"}]
      /\ \A v \in Worker : worker'[v] = worker[v] \/ (worker[v] = "wait" /\ worker'[v] = "awake")
    BY <1>1, Zenon DEF JoinBegin, JoinNotify, WaitEnd, Tick, vars
<1> QED BY <1>1, <1>2, <1>3, <1>4, MovesStep, Zenon

LEMMA InvStep == Inv /\ [Next]_vars => Inv'
<1> SUFFICES ASSUME Inv, [Next]_vars PROVE Inv'
    BY Zenon
<1>1. ASSUME NEW t \in Task, NEW delay \in Delays, Schedule(t, delay) PROVE Inv'
    BY <1>1, ScheduleStep, Zenon
<1>2. ASSUME NEW t \in Task, PrepareWorkers(t) \/ Spawn(t) PROVE Inv'
    BY <1>2, WorkersWantedStep, Zenon
<1>3. ASSUME NEW t \in Task, CancelTask(t) PROVE Inv'
    BY <1>3, CancelStep, Zenon
<1>4. ASSUME NEW w \in Worker, WorkerStep(w) PROVE Inv'
    BY <1>4, DequeueStep, ClaimStep, FinishStep, IdleStep, Zenon DEF WorkerStep
<1>5. CASE JoinThreads
    BY <1>5, JoinThreadsStep, Zenon
<1>6. CASE JoinBegin \/ JoinNotify \/ WaitEnd \/ Tick \/ UNCHANGED vars
    BY <1>6, CallerStep, Zenon
<1> QED BY <1>1, <1>2, <1>3, <1>4, <1>5, <1>6, Zenon DEF Next, JoinStep

LEMMA InvSuffices == Inv => EachTaskInOnePlace
<1> SUFFICES ASSUME Inv, NEW t \in Task
             PROVE  /\ status[t] = "waiting" /\ ~joining => Cardinality(Holders(t)) + (IF t \in queue THEN 1 ELSE 0) = 1
                    /\ status[t] = "running" => t \notin queue /\ \E w \in Worker : Holders(t) = {w} /\ worker[w] = "run"
    BY Zenon DEF EachTaskInOnePlace
<1>1. t # NoTask
    BY ThreadPoolAssumption, Zenon
<1>2. \A w \in Worker : cache[w] = t => Holders(t) = {w} /\ t \notin queue
    BY <1>1, Zenon DEF Inv, Alone, Holders
<1>3. (\A w \in Worker : cache[w] # t) => Holders(t) = {}
    BY Zenon DEF Holders
<1>4. ASSUME status[t] = "waiting", ~joining
      PROVE  Cardinality(Holders(t)) + (IF t \in queue THEN 1 ELSE 0) = 1
    <2>1. CASE \E w \in Worker : cache[w] = t
        <3>1. PICK w \in Worker : cache[w] = t
            BY <2>1, Zenon
        <3>2. Cardinality({w}) = 1
            BY FS_Singleton, Zenon
        <3>3. Holders(t) = {w} /\ t \notin queue
            BY <1>2, <3>1, Zenon
        <3> QED BY <3>2, <3>3, SMTT(40)
    <2>2. CASE \A w \in Worker : cache[w] # t
        <3>1. t \in queue /\ Holders(t) = {}
            BY <1>3, <1>4, <2>2, Zenon DEF Inv, Placed
        <3>2. Cardinality({}) = 0
            BY FS_EmptySet, Zenon
        <3> QED BY <3>1, <3>2, SMTT(40)
    <2> QED BY <2>1, <2>2, Zenon
<1>5. status[t] = "running" => t \notin queue /\ \E w \in Worker : Holders(t) = {w} /\ worker[w] = "run"
    BY <1>2, Zenon DEF Inv, Placed
<1> QED BY <1>4, <1>5, Zenon

(* thread_pool.cpp, Dequeue: exchanging the cached task for an earlier one  *)
(* under m_tasksMutex neither loses nor copies a task, whatever the number  *)
(* of tasks and threads, the delays and the time.                           *)
THEOREM TasksKeepTheirPlace == Spec => []EachTaskInOnePlace
<1>1. Spec => []Inv
    BY InitInv, InvStep, PTL DEF Spec
<1> QED BY <1>1, InvSuffices, PTL

-----------------------------------------------------------------------------
(* Join.  Before it swaps m_workers every thread is in the pool; afterwards *)
(* a thread that it did not take is one that was started too late: it finds *)
(* the pool joining before it looks at the queue.                           *)
JoinInv ==
    /\ worker \in [Worker -> {"none", "enter", "lock", "wait", "awake", "expired", "got", "run", "timeout", "exited"}]
    /\ joiner # "new" => joining
    /\ joiner \in {"new", "notify"} => \A w \in Worker : worker[w] # "none" => w \in pool
    /\ joiner \in {"join", "done"} =>
           \A w \in Worker \ swapped : worker[w] \in {"none", "enter", "lock", "exited"}
    /\ joiner = "done" => swapped = {}
    /\ joiner \in {"new", "notify", "join", "done"}

LEMMA JoinInit == Init => JoinInv
BY Zenon DEF Init, JoinInv

LEMMA JoinInvStep == JoinInv /\ [Next]_vars => JoinInv'
<1> SUFFICES ASSUME JoinInv, [Next]_vars PROVE JoinInv'
    BY Zenon
<1>1. ASSUME NEW t \in Task, NEW delay \in Delays, Schedule(t, delay) PROVE JoinInv'
    <2>1. /\ worker' \in [Worker -> {"none", "enter", "lock", "wait", "awake", "expired", "got", "run", "timeout", "exited"}]
          /\ \A v \in Worker : worker'[v] = worker[v] \/ (worker[v] = "wait" /\ worker'[v] = "awake")
        BY <1>1, Zenon DEF Schedule, NotifyOne, JoinInv
    <2> QED BY <1>1, <2>1, Zenon DEF Schedule, JoinInv, callers
<1>2. ASSUME NEW t \in Task, PrepareWorkers(t) PROVE JoinInv'
    BY <1>2, Zenon DEF PrepareWorkers, JoinInv, callers
<1>3. ASSUME NEW t \in Task, Spawn(t) PROVE JoinInv'
    <2>1. PICK new \in SUBSET {w \in Worker : worker[w] = "none"} :
              /\ pool' = pool \cup new
              /\ worker' = [w \in Worker |-> IF w \in new THEN "enter" ELSE worker[w]]
        BY <1>3, Zenon DEF Spawn
    <2>2. UNCHANGED <<joining, joiner, swapped>>
        BY <1>3, Zenon DEF Spawn, callers
    <2> QED BY <2>1, <2>2, Zenon DEF JoinInv
<1>4. ASSUME NEW t \in Task, CancelTask(t) PROVE JoinInv'
    BY <1>4, Zenon DEF CancelTask, JoinInv, callers
<1>5. ASSUME NEW w \in Worker, Dequeue(w) PROVE JoinInv'
    <2>1. UNCHANGED <<pool, joining, joiner, swapped>>
        BY <1>5, Zenon DEF Dequeue, callers
    <2>2. PICK place \in {"exited", "wait", "got", "lock", "awake"} :
              /\ worker' = [worker EXCEPT ![w] = place]
              /\ joining => place = "exited" \/ place = worker[w]
              /\ worker[w] \in {"lock", "awake"}
        BY <1>5, Zenon DEF Dequeue, Stops, JoinInv
    <2> QED BY <2>1, <2>2, Zenon DEF JoinInv
<1>6. ASSUME NEW w \in Worker, Enter(w) \/ WakeDue(w) \/ IdleExpires(w) \/ ReturnTimeout(w) PROVE JoinInv'
    BY <1>6, Zenon DEF Enter, WakeDue, IdleExpires, ReturnTimeout, JoinInv, callers
<1>7. ASSUME NEW w \in Worker, Leave(w) PROVE JoinInv'
    BY <1>7, Zenon DEF Leave, JoinInv, callers
<1>8. ASSUME NEW w \in Worker, Claim(w) \/ Finish(w) PROVE JoinInv'
    BY <1>8, Zenon DEF Claim, Finish, JoinInv, callers
<1>9. CASE JoinBegin
    BY <1>9, Zenon DEF JoinBegin, JoinInv
<1>10. CASE JoinNotify
    BY <1>10, Zenon DEF JoinNotify, JoinInv
<1>11. CASE JoinThreads
    BY <1>11, Zenon DEF JoinThreads, JoinInv
<1>12. CASE WaitEnd \/ Tick \/ UNCHANGED vars
    BY <1>12, Zenon DEF WaitEnd, Tick, vars, callers, JoinInv
<1> QED
    BY <1>1, <1>2, <1>3, <1>4, <1>5, <1>6, <1>7, <1>8, <1>9, <1>10, <1>11, <1>12, Zenon DEF Next, WorkerStep, JoinStep

(* thread_pool.cpp, Join: when it has returned nothing runs or will run,    *)
(* whatever is scheduled and however many threads are started behind it.    *)
THEOREM JoinIsFinal == Spec => []NothingRunsAfterJoin
<1>1. JoinInv => NothingRunsAfterJoin
    BY Zenon DEF JoinInv, NothingRunsAfterJoin
<1> QED BY <1>1, JoinInit, JoinInvStep, PTL DEF Spec
=============================================================================
