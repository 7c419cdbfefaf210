----------------------------- MODULE FrpChannel -----------------------------
(* The two ends of one FRP data channel (relay_data_channel) and the upgrade   *)
(* of its transport from the TCP relay to a punched UDP path: the P2P handlers *)
(* of frp_accessor and frp_provider, their frp_punch_engine, and what the      *)
(* channel does when a transport, the relay or the keepalive dies.             *)
(*                                                                             *)
(* The handlers of one end run on one io thread, so a handler is a step.  The  *)
(* two ends talk through the signalling server, which keeps the order and may  *)
(* lose what is under way when a signalling connection drops.                  *)
(*                                                                             *)
(* The ports that an attempt opens are abstracted to the attempt: an engine is *)
(* numbered, and its number stands for its local and its external port.  The   *)
(* messages carry a pair of ports and nothing else that tells attempts apart   *)
(* (punch_seq is always 1).  The NAT probe of both ends has succeeded.         *)
EXTENDS Integers, Sequences

CONSTANTS kMaxPunchRetries,   \* retries after failed attempts
          kPunchMaxRounds,
          MaxSignals          \* bound on the messages under way to one end

ASSUME ChannelAssumption ==
    /\ kMaxPunchRetries \in Nat /\ kPunchMaxRounds \in Nat \ {0} /\ MaxSignals \in Nat \ {0}

Side == {"accessor", "provider"}
Other(s) == IF s = "accessor" THEN "provider" ELSE "accessor"
Attempt == Nat      \* the number of an engine; 0: no port

VARIABLES ch,       \* the relay_data_channel of each end
          engine,   \* its punch_engine(), or None
          signal,   \* messages under way to each end
          posted,   \* the success callback an engine has posted: its result
          started   \* engines each end has created

vars == <<ch, engine, signal, posted, started>>

None == [id |-> 0]
Engine == [id : Attempt \ {0}, peer : Attempt, targets : SUBSET Attempt, round : 0..kPunchMaxRounds,
           probing : BOOLEAN, deferred : BOOLEAN, deadline : BOOLEAN,
           punch_active : BOOLEAN, punch_done : BOOLEAN, result_delivered : BOOLEAN]
Channel == [closed : BOOLEAN, p2p_success : BOOLEAN, tcp : BOOLEAN, p2p_socket : Attempt, peer_endpoint : Attempt,
            my_external_port : Attempt, handshake_timer : BOOLEAN, timed_out : BOOLEAN,
            punch_retry_count : 0..kMaxPunchRetries, punch_retry_pending : BOOLEAN]
Message == [type : {"punch_start", "p2p_handshake", "handshake_ack", "probe_match", "punch_confirm", "confirm_ack",
                    "confirm_ok"}, accessor : Attempt, provider : Attempt]

Result == [socket : Attempt, peer : Attempt]

TypeOK ==
    /\ ch \in [Side -> Channel] /\ engine \in [Side -> Engine \cup {None}]
    /\ signal \in [Side -> Seq(Message)] /\ posted \in [Side -> Seq(Result)]
    /\ started \in [Side -> Attempt]
    /\ \A s \in Side : Len(signal[s]) <= MaxSignals

-----------------------------------------------------------------------------
\* frp_punch_engine, as functions of the engine.
NewEngine(id) == [id |-> id, peer |-> 0, targets |-> {}, round |-> 0, probing |-> TRUE, deferred |-> FALSE,
                  deadline |-> FALSE, punch_active |-> FALSE, punch_done |-> FALSE, result_delivered |-> FALSE]

OnPeerInfo(e, peer) == [e EXCEPT !.peer = peer]

StartPunchAt(e) == IF e.result_delivered THEN e ELSE [e EXCEPT !.probing = FALSE, !.deadline = TRUE]

\* do_punch_round, of a round that is not the last: the ports aimed at are those of the
\* peer as it is known now.
DoPunchRound(e) == IF e.punch_done \/ e.result_delivered THEN e ELSE [e EXCEPT !.targets = {e.peer}]

StartUdpPunch(e) ==
    IF e.result_delivered THEN [e EXCEPT !.deadline = FALSE]
    ELSE DoPunchRound([e EXCEPT !.deadline = FALSE, !.punch_active = TRUE, !.round = 0])

Punching(e) == e /= None /\ e.punch_active /\ ~e.punch_done /\ ~e.result_delivered

\* The four handlers of the confirmation start with this check.
IsAnyProbePair(e, s, m) == TRUE
IsValidProbePair(e, s, m) == m[s] = e.id /\ m[Other(s)] \in e.targets

StopPunching(e) == [e EXCEPT !.punch_active = FALSE, !.punch_done = TRUE]

-----------------------------------------------------------------------------
\* relay_data_channel, as functions of the channel.
SchedulePunchRetry(c) ==
    IF c.closed \/ c.punch_retry_pending \/ c.punch_retry_count >= kMaxPunchRetries THEN c
    ELSE [c EXCEPT !.punch_retry_count = @ + 1, !.punch_retry_pending = TRUE]

ResetPunchRetry(c) == [c EXCEPT !.punch_retry_count = 0, !.punch_retry_pending = FALSE]

\* A timer that has expired keeps its handler queued: cancel() no longer reaches it.
CancelHandshakeTimer(c) == [c EXCEPT !.handshake_timer = FALSE]

AcceptP2p(c, result) ==
    IF c.p2p_success THEN c
    ELSE [c EXCEPT !.p2p_socket = result.socket, !.peer_endpoint = result.peer, !.tcp = FALSE]

Closed(c) == [c EXCEPT !.closed = TRUE, !.tcp = FALSE, !.p2p_socket = 0, !.handshake_timer = FALSE,
                       !.punch_retry_pending = FALSE]

\* close(): a second call returns at once.
Close(s) ==
    /\ ~ch[s].closed
    /\ ch' = [ch EXCEPT ![s] = Closed(@)]
    /\ engine' = [engine EXCEPT ![s] = None]
    /\ UNCHANGED <<signal, posted, started>>

\* send_p2p_command: the peer's dispatcher drops what its role does not handle.
Send(s, m) == signal' = [signal EXCEPT ![Other(s)] = Append(@, m)]
Receive(s) == signal' = [signal EXCEPT ![s] = Tail(@)]
Answer(s, m) == signal' = [signal EXCEPT ![s] = Tail(@), ![Other(s)] = Append(@, m)]
Msg(type, accessor, provider) == [type |-> type, accessor |-> accessor, provider |-> provider]
CanSend(s) == Len(signal[Other(s)]) < MaxSignals

\* What both roles do with a failed attempt; the accessor alone tries again.
FailWithoutRetry(s, c) == CancelHandshakeTimer(c)
Fail(s, c) ==
    IF s = "accessor" THEN SchedulePunchRetry(CancelHandshakeTimer(c)) ELSE CancelHandshakeTimer(c)

OnFailed(s) ==
    /\ engine' = [engine EXCEPT ![s] = None]
    /\ ch' = [ch EXCEPT ![s] = Fail(s, @)]

\* The part that maybe_start_p2p and the handler of punch_start share: a new engine in the
\* place of the old one and 30 seconds for it.  start() fails when no port can be bound.
NewAttempt(s, c) ==
    /\ started' = [started EXCEPT ![s] = @ + 1]
    /\ \/ /\ engine' = [engine EXCEPT ![s] = NewEngine(started[s] + 1)]
          /\ ch' = [ch EXCEPT ![s] = [c EXCEPT !.handshake_timer = TRUE]]
       \/ /\ engine' = [engine EXCEPT ![s] = None]
          /\ ch' = [ch EXCEPT ![s] = [Fail(s, c) EXCEPT !.handshake_timer = TRUE]]

-----------------------------------------------------------------------------
\* The relay runs and the accessor is about to call maybe_start_p2p (the timer that calls
\* it again stands for the first call).
Init ==
    /\ ch = [s \in Side |->
                [closed |-> FALSE, p2p_success |-> FALSE, tcp |-> TRUE, p2p_socket |-> 0, peer_endpoint |-> 0,
                 my_external_port |-> 0, handshake_timer |-> FALSE, timed_out |-> FALSE,
                 punch_retry_count |-> 0, punch_retry_pending |-> s = "accessor"]]
    /\ engine = [s \in Side |-> None]
    /\ signal = [s \in Side |-> <<>>] /\ posted = [s \in Side |-> <<>>]
    /\ started = [s \in Side |-> 0]

\* The handler of punch_retry_timer_, and maybe_start_p2p that it calls.  The timer runs
\* for ten seconds at least: what was posted when it was armed comes first.
MaybeStartP2p ==
    LET c == [ch["accessor"] EXCEPT !.punch_retry_pending = FALSE]
    IN  /\ ch["accessor"].punch_retry_pending /\ posted["accessor"] = <<>>
        /\ IF c.closed \/ c.p2p_success
           THEN ch' = [ch EXCEPT !["accessor"] = c] /\ UNCHANGED <<engine, signal, posted, started>>
           ELSE /\ CanSend("accessor")
                /\ NewAttempt("accessor", [c EXCEPT !.my_external_port = 0])
                /\ Send("accessor", Msg("punch_start", 0, 0))
                /\ UNCHANGED posted

\* The server's echo of an endpoint probe, and what on_endpoint_ready does with it.
Echo(s) ==
    LET e == [engine[s] EXCEPT !.probing = FALSE]
    IN  /\ engine[s] /= None /\ engine[s].probing /\ CanSend(s)
        /\ IF s = "accessor"
           THEN /\ ch' = [ch EXCEPT ![s].my_external_port = e.id]
                /\ engine' = [engine EXCEPT ![s] = IF e.deferred THEN StartPunchAt(e) ELSE e]
                /\ IF e.deferred THEN Send(s, Msg("handshake_ack", e.id, 0)) ELSE UNCHANGED signal
           ELSE /\ engine' = [engine EXCEPT ![s] = e]
                /\ Send(s, Msg("p2p_handshake", 0, e.id))
                /\ UNCHANGED ch
        /\ UNCHANGED <<posted, started>>

\* do_endpoint_probe after its last attempt.
ProbeGivesUp(s) ==
    /\ engine[s] /= None /\ engine[s].probing
    /\ OnFailed(s)
    /\ UNCHANGED <<signal, posted, started>>

\* The deadline of start_punch_at.
Deadline(s) ==
    /\ engine[s] /= None /\ engine[s].deadline
    /\ engine' = [engine EXCEPT ![s] = StartUdpPunch(@)]
    /\ UNCHANGED <<ch, signal, posted, started>>

\* The batches of a round have been sent.
RoundEnds(s) ==
    /\ Punching(engine[s])
    /\ IF engine[s].round + 1 >= kPunchMaxRounds THEN OnFailed(s)
       ELSE /\ engine' = [engine EXCEPT ![s] = DoPunchRound([engine[s] EXCEPT !.round = @ + 1])]
            /\ UNCHANGED ch
    /\ UNCHANGED <<signal, posted, started>>

\* A probe of the peer reaches the socket it is aimed at: both engines are punching.  The
\* accessor's probe_match is dropped by the provider's dispatcher.
ProbeArrives(s) ==
    LET e == engine[s]
        p == engine[Other(s)]
    IN  /\ Punching(e) /\ Punching(p) /\ e.id \in p.targets /\ CanSend(s)
        /\ engine' = [engine EXCEPT ![s].peer = p.id]
        /\ IF s = "provider" THEN Send(s, Msg("probe_match", p.id, e.id)) ELSE UNCHANGED signal
        /\ UNCHANGED <<ch, posted, started>>

-----------------------------------------------------------------------------
\* The handlers of the messages.  The next message is read when the handler of the last one
\* has returned, and so comes after what that handler has posted.
Arrives(s, type) == signal[s] /= <<>> /\ Head(signal[s]).type = type /\ posted[s] = <<>>

PunchStart ==
    /\ Arrives("provider", "punch_start") /\ ~ch["provider"].closed
    /\ NewAttempt("provider", CancelHandshakeTimer(ch["provider"]))
    /\ Receive("provider")
    /\ UNCHANGED posted

P2pHandshake ==
    LET m == Head(signal["accessor"])
        e == OnPeerInfo(engine["accessor"], m.provider)
        port == ch["accessor"].my_external_port
    IN  /\ Arrives("accessor", "p2p_handshake") /\ engine["accessor"] /= None
        /\ IF port /= 0
           THEN /\ CanSend("accessor")
                /\ engine' = [engine EXCEPT !["accessor"] = StartPunchAt(e)]
                /\ Answer("accessor", Msg("handshake_ack", port, 0))
           ELSE /\ engine' = [engine EXCEPT !["accessor"] = [e EXCEPT !.deferred = TRUE]]
                /\ Receive("accessor")
        /\ UNCHANGED <<ch, posted, started>>

HandshakeAck ==
    LET m == Head(signal["provider"])
    IN  /\ Arrives("provider", "handshake_ack") /\ engine["provider"] /= None
        /\ engine' = [engine EXCEPT !["provider"] = StartPunchAt(OnPeerInfo(@, m.accessor))]
        /\ Receive("provider")
        /\ UNCHANGED <<ch, posted, started>>

\* on_provider_probe_match and on_accessor_punch_confirm: the same step at the two ends.
Confirm(s, type, reply) ==
    LET m == Head(signal[s])
        e == engine[s]
    IN  /\ Arrives(s, type) /\ e /= None /\ CanSend(s)
        /\ IF IsValidProbePair(e, s, m) /\ ~e.result_delivered
           THEN /\ engine' = [engine EXCEPT ![s] = StopPunching(@)]
                /\ Answer(s, [m EXCEPT !.type = reply])
           ELSE Receive(s) /\ UNCHANGED engine
        /\ UNCHANGED <<ch, posted, started>>

\* on_provider_confirm_ack and on_accessor_confirm_ok, with on_punch_success: the socket
\* leaves the engine and the success callback is posted.
Delivered(s) ==
    /\ engine' = [engine EXCEPT ![s] = [StopPunching(@) EXCEPT !.result_delivered = TRUE]]
    /\ posted' = [posted EXCEPT ![s] = Append(@, [socket |-> engine[s].id, peer |-> engine[s].peer])]

ConfirmAck ==
    LET m == Head(signal["accessor"])
        e == engine["accessor"]
    IN  /\ Arrives("accessor", "confirm_ack") /\ e /= None /\ CanSend("accessor")
        /\ IF IsValidProbePair(e, "accessor", m) /\ ~e.result_delivered
           THEN Delivered("accessor") /\ Answer("accessor", [m EXCEPT !.type = "confirm_ok"])
           ELSE Receive("accessor") /\ UNCHANGED <<engine, posted>>
        /\ UNCHANGED <<ch, started>>

ConfirmOk ==
    LET m == Head(signal["provider"])
        e == engine["provider"]
    IN  /\ Arrives("provider", "confirm_ok") /\ e /= None
        /\ IF IsValidProbePair(e, "provider", m) /\ ~e.result_delivered
           THEN Delivered("provider") ELSE UNCHANGED <<engine, posted>>
        /\ Receive("provider")
        /\ UNCHANGED <<ch, started>>

\* The signalling connection drops a message, or its channel or engine is gone.
Drop(s) ==
    /\ signal[s] /= <<>>
    /\ Receive(s)
    /\ UNCHANGED <<ch, engine, posted, started>>

-----------------------------------------------------------------------------
\* The success callback: accept_p2p lets go of the relay without its on_release.
Success(s) ==
    LET up == CancelHandshakeTimer([AcceptP2p(ch[s], Head(posted[s])) EXCEPT !.p2p_success = TRUE])
    IN  /\ posted[s] /= <<>>
        /\ ch' = [ch EXCEPT ![s] = IF s = "accessor" THEN ResetPunchRetry(up) ELSE up]
        /\ posted' = [posted EXCEPT ![s] = Tail(@)]
        /\ UNCHANGED <<engine, signal, started>>

\* The 30 seconds are over; the handler runs later.
HandshakeExpires(s) ==
    /\ ch[s].handshake_timer /\ ~ch[s].timed_out
    /\ ch' = [ch EXCEPT ![s].handshake_timer = FALSE, ![s].timed_out = TRUE]
    /\ UNCHANGED <<engine, signal, posted, started>>

HandshakeTimeout(s) ==
    LET c == [ch[s] EXCEPT !.timed_out = FALSE]
    IN  /\ ch[s].timed_out
        /\ IF c.closed \/ c.p2p_success
           THEN ch' = [ch EXCEPT ![s] = c] /\ UNCHANGED engine
           ELSE /\ engine' = [engine EXCEPT ![s] = None]
                /\ ch' = [ch EXCEPT ![s] = IF s = "accessor" THEN SchedulePunchRetry(c) ELSE c]
        /\ UNCHANGED <<signal, posted, started>>

\* The relay connection of one end is over, and its on_release runs.
TcpReleased(s) ==
    /\ ch[s].tcp
    /\ IF ~ch[s].p2p_success /\ engine[s] = None THEN Close(s)
       ELSE ch' = [ch EXCEPT ![s].tcp = FALSE] /\ UNCHANGED <<engine, signal, posted, started>>

\* What one end outputs reaches the other.
Reaches(s) ==
    LET c == ch[s]
        p == ch[Other(s)]
    IN  ~c.closed /\ ~p.closed /\ IF c.p2p_socket /= 0 THEN p.p2p_socket = c.peer_endpoint ELSE c.tcp /\ p.tcp

\* start_p2p_read_loop: the sender of a datagram becomes the end that is sent to.
Datagram(s) ==
    /\ ch[s].p2p_socket /= 0 /\ ch[Other(s)].p2p_socket /= 0 /\ Reaches(Other(s))
    /\ ch' = [ch EXCEPT ![s].peer_endpoint = ch[Other(s)].p2p_socket]
    /\ UNCHANGED <<engine, signal, posted, started>>

\* on_dead: five keepalive probes in a row had no answer.
DeadExceptP2p(s) == ~(Reaches(s) /\ Reaches(Other(s))) /\ ~ch[s].p2p_success /\ Close(s)
Dead(s) == ~(Reaches(s) /\ Reaches(Other(s))) /\ Close(s)

Next ==
    \/ MaybeStartP2p \/ PunchStart \/ P2pHandshake \/ HandshakeAck \/ ConfirmAck \/ ConfirmOk
    \/ Confirm("accessor", "probe_match", "punch_confirm") \/ Confirm("provider", "punch_confirm", "confirm_ack")
    \/ \E s \in Side : \/ Echo(s) \/ ProbeGivesUp(s) \/ Deadline(s) \/ RoundEnds(s) \/ ProbeArrives(s) \/ Drop(s)
                       \/ Success(s) \/ HandshakeExpires(s) \/ HandshakeTimeout(s)
                       \/ TcpReleased(s) \/ Close(s) \/ Datagram(s) \/ Dead(s)

\* Timers expire, posted callbacks run, the keepalive probes, and the server closes the
\* relay connection whose other half is gone (frp_signal_session's release_cb_).  Nothing
\* is assumed of probes and messages: they may all be lost.
Fairness ==
    /\ WF_vars(MaybeStartP2p)
    /\ \A s \in Side :
          /\ WF_vars(Success(s)) /\ WF_vars(HandshakeExpires(s)) /\ WF_vars(HandshakeTimeout(s)) /\ WF_vars(Dead(s))
          /\ WF_vars(RoundEnds(s)) /\ WF_vars(Drop(s))
          /\ WF_vars(~ch[Other(s)].tcp /\ TcpReleased(s))

Spec == Init /\ [][Next]_vars /\ Fairness

-----------------------------------------------------------------------------
\* Of two open ends that have both left the relay, one at least sends to the socket the
\* other one reads, although the messages that brought them there do not name the attempt
\* they belong to; the other one learns the way back from what it receives.
UpgradeConnects ==
    (\A s \in Side : ch[s].p2p_success /\ ~ch[s].closed) =>
        \E s \in Side : ch[s].peer_endpoint = ch[Other(s)].p2p_socket

\* An accessor that is still on the relay never stops trying before its retries are used
\* up: an attempt is guarded by its timer or has delivered, or a retry is pending; whatever
\* order a failure, the timeout and a late success come in.
AttemptGuarded ==
    LET c == ch["accessor"]
    IN  ~c.closed /\ ~c.p2p_success =>
            \/ c.handshake_timer \/ c.timed_out \/ posted["accessor"] /= <<>>
            \/ c.punch_retry_pending \/ c.punch_retry_count = kMaxPunchRetries

\* An upgrade is never left half done: once one end has left the relay, the other leaves
\* it too or both are closed, even if every message from then on is lost.
HalfUpgradeResolves ==
    \A s \in Side : ch[s].p2p_success ~> ch[Other(s)].p2p_success \/ \A t \in Side : ch[t].closed

\* When one end closes, the other one closes too, whichever transport each of them uses
\* at that moment.
CloseReachesPeer == \A s \in Side : ch[s].closed ~> ch[Other(s)].closed
=============================================================================
