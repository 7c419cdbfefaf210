-------------------------------- MODULE Kcp --------------------------------
(***************************************************************************)
(* The retransmission protocol under RUDP (kcp_imp/ikcp.c): two ends, each  *)
(* with a send queue, a send buffer of unacknowledged segments, a receive   *)
(* buffer ordered by sequence number and a receive queue, over a network    *)
(* that loses, repeats and reorders datagrams.                              *)
(*                                                                          *)
(* Every operation of an ikcpcb runs on the io thread of its socket, so it  *)
(* is one action.  Time is abstract: which retransmission, window-probe and *)
(* keepalive timers have run out when a flush happens is a choice, which is *)
(* why rto, rtt and the flush interval do not occur.  A segment travels in  *)
(* a datagram of its own (the code fills datagrams up to the mtu).          *)
(* Congestion control is off, as RUDP configures it (nocwnd), and sequence  *)
(* numbers, 32 bits compared by signed difference, do not wrap.             *)
(***************************************************************************)
EXTENDS Integers, Sequences, FiniteSets, FiniteSetsExt, Folds, Functions

CONSTANTS
    End, Other,   \* the two ends, and the far end of each
    Sizes,        \* [BOOLEAN -> [End -> sizes in bytes of the user's sends]], by mode
    Mss,          \* bytes a segment holds
    SndWnd,       \* snd_wnd
    RcvWnd,       \* rcv_wnd, the same at both ends
    RmtWnd,       \* what a new end believes of the window of the other
    FastResend,   \* fastresend
    FastLimit,    \* fastlimit
    DeadLink,     \* dead_link
    MaxNet,       \* bound: datagrams under way
    MaxProbes,    \* [End -> probe_max_count]; 0: no keepalive
    FrgMod        \* frg travels in 8 bits

ASSUME KcpAssumption ==
    /\ Other \in [End -> End] /\ \A e \in End : Other[Other[e]] = e
    /\ Sizes \in [BOOLEAN -> [End -> Seq(Nat \ {0})]]
    /\ {Mss, SndWnd, RcvWnd, RmtWnd, FastResend, DeadLink, FrgMod} \subseteq Nat \ {0}
    /\ MaxProbes \in [End -> Nat]
    /\ {FastLimit, MaxNet} \subseteq Nat

VARIABLES
    stream,       \* stream mode, agreed in the handshake
    snd_queue,    \* segments not yet in the window, oldest first
    snd_buf,      \* [sn -> segment with xmit and fastack], unacknowledged
    snd_una, snd_nxt,
    rmt_wnd,      \* window of the far end as last heard
    probe_wait,   \* the window probe timer is set
    probe,        \* ASK_SEND, ASK_TELL
    probe_count,  \* unanswered keepalive probes
    dead,         \* state = -1
    rcv_buf,      \* [sn -> segment] received out of order or beyond the queue
    rcv_queue,    \* segments in order, not yet read
    rcv_nxt,
    acklist,      \* sequence numbers to acknowledge
    net,          \* datagrams under way
    sent, received  \* what the users sent and what their receives returned

sndVars == <<snd_queue, snd_buf, snd_una, snd_nxt>>
probeVars == <<probe_wait, probe, probe_count>>
rcvVars == <<rcv_buf, rcv_queue, rcv_nxt, acklist>>
user == <<stream, sent, received>>
vars == <<sndVars, rmt_wnd, probeVars, dead, rcvVars, net, user>>

Init ==
    /\ stream \in BOOLEAN
    /\ snd_queue = [e \in End |-> <<>>] /\ snd_buf = [e \in End |-> <<>>]
    /\ snd_una = [e \in End |-> 0] /\ snd_nxt = [e \in End |-> 0]
    /\ rmt_wnd = [e \in End |-> RmtWnd]
    /\ probe_wait = [e \in End |-> FALSE] /\ probe = [e \in End |-> {}]
    /\ probe_count = [e \in End |-> 0]
    /\ dead = [e \in End |-> FALSE]
    /\ rcv_buf = [e \in End |-> <<>>] /\ rcv_queue = [e \in End |-> <<>>]
    /\ rcv_nxt = [e \in End |-> 0] /\ acklist = [e \in End |-> {}]
    /\ net = {}
    /\ sent = [e \in End |-> <<>>] /\ received = [e \in End |-> <<>>]

Seg(data, frg) == [data |-> data, frg |-> frg]

(* The bytes of a sequence of segments.                                     *)
DataOf(segments) ==
    MapThenFoldSet(\o, <<>>, LAMBDA i : segments[i].data, Min, DOMAIN segments)

(* A buffer with new segments; one that is there already stays as it is.    *)
Inserted(buf, new) ==
    [sn \in DOMAIN buf \cup DOMAIN new |-> IF sn \in DOMAIN buf THEN buf[sn] ELSE new[sn]]

Newest(s) == s[Len(s)]
LastByte(messages) == IF messages = <<>> THEN 0 ELSE Newest(Newest(messages))
NewBytes(e, n) == [i \in 1..n |-> LastByte(sent[e]) + i]

-----------------------------------------------------------------------------
(* ikcp_send *)

Count(bytes) == IF Len(bytes) = 0 THEN 0 ELSE (Len(bytes) + Mss - 1) \div Mss

(* Cut bytes into segments; in packet mode frg counts down to the last one. *)
Fragments(bytes) ==
    [i \in 1..Count(bytes) |->
        Seg(SubSeq(bytes, (i - 1) * Mss + 1, Min({i * Mss, Len(bytes)})),
            IF stream THEN 0 ELSE Count(bytes) - i)]

(* How many bytes stream mode appends to the last segment of the queue.     *)
Extend(e, n) ==
    IF ~stream \/ snd_queue[e] = <<>> THEN 0
    ELSE Min({n, Mss - Len(Newest(snd_queue[e]).data)})

(* What does not fit the send window is refused, or in stream mode cut to   *)
(* what the last segment took.                                              *)
Send(e) ==
    /\ Len(sent[e]) < Len(Sizes[stream][e])
    /\ LET n     == Sizes[stream][e][Len(sent[e]) + 1]
           bytes == NewBytes(e, n)
           k     == Extend(e, n)
           rest  == SubSeq(bytes, k + 1, n)
           fits  == Count(rest) <= SndWnd
           queue == IF k = 0 THEN snd_queue[e]
                    ELSE [snd_queue[e] EXCEPT ![Len(snd_queue[e])] =
                             Seg(@.data \o SubSeq(bytes, 1, k), 0)]
       IN
       /\ fits \/ k > 0
       /\ snd_queue' = [snd_queue EXCEPT ![e] = IF fits THEN queue \o Fragments(rest)
                                                        ELSE queue]
       /\ sent' = [sent EXCEPT ![e] = Append(@, IF fits THEN bytes
                                                        ELSE SubSeq(bytes, 1, k))]
    /\ UNCHANGED <<snd_buf, snd_una, snd_nxt, rmt_wnd, probeVars, dead, rcvVars, net,
                   stream, received>>

-----------------------------------------------------------------------------
(* ikcp_recv and the receive side of ikcp_input *)

MovableUnlimited(buf, nxt, room) ==
    CHOOSE m \in 0..Cardinality(DOMAIN buf) :
        /\ \A i \in 0..(m - 1) : (nxt + i) \in DOMAIN buf
        /\ (nxt + m) \notin DOMAIN buf

(* Moving what is in order from rcv_buf to rcv_queue, as far as it has room. *)
Movable(buf, nxt, room) ==
    CHOOSE m \in 0..room :
        /\ \A i \in 0..(m - 1) : (nxt + i) \in DOMAIN buf
        /\ m = room \/ (nxt + m) \notin DOMAIN buf

MoveToQueue(e, buf, queue) ==
    \E m \in {Movable(buf, rcv_nxt[e], Max({0, RcvWnd - Len(queue)}))} :
        /\ rcv_queue' = [rcv_queue EXCEPT ![e] =
                            queue \o [i \in 1..m |-> buf[rcv_nxt[e] + i - 1]]]
        /\ rcv_nxt' = [rcv_nxt EXCEPT ![e] = @ + m]
        /\ rcv_buf' = [rcv_buf EXCEPT ![e] =
              Restrict(buf, DOMAIN buf \ (rcv_nxt[e]..(rcv_nxt[e] + m - 1)))]

(* ikcp_peeksize: the first message of the queue is complete. *)
Peek(queue) == queue # <<>> /\ (queue[1].frg = 0 \/ Len(queue) >= queue[1].frg + 1)

MessageLenOne(queue) == 1

(* The segments of the first message: up to the first one whose frg is 0.   *)
MessageLen(queue) == Min({i \in 1..Len(queue) : queue[i].frg = 0} \cup {Len(queue)})

(* ikcp_recv; a window that was closed and opens is told to the far end.    *)
Recv(e) ==
    /\ Peek(rcv_queue[e])
    /\ LET m == MessageLen(rcv_queue[e]) IN
       /\ received' = [received EXCEPT ![e] =
              Append(@, DataOf(SubSeq(rcv_queue[e], 1, m)))]
       /\ MoveToQueue(e, rcv_buf[e], SubSeq(rcv_queue[e], m + 1, Len(rcv_queue[e])))
    /\ probe' = [probe EXCEPT ![e] =
          IF Len(rcv_queue[e]) >= RcvWnd /\ Len(rcv_queue'[e]) < RcvWnd
          THEN @ \cup {"ASK_TELL"} ELSE @]
    /\ UNCHANGED <<sndVars, rmt_wnd, probe_wait, probe_count, dead, acklist, net,
                   stream, sent>>

(* The PUSH branch of ikcp_input with ikcp_parse_data: a segment beyond the *)
(* window is ignored; an old one is acknowledged again.                     *)
ParseData(e, p) ==
    IF p.sn >= rcv_nxt[e] + RcvWnd THEN UNCHANGED rcvVars
    ELSE /\ acklist' = [acklist EXCEPT ![e] = @ \cup {p.sn}]
         /\ IF p.sn >= rcv_nxt[e]
            THEN MoveToQueue(e, Inserted(rcv_buf[e], [sn \in {p.sn} |-> p.seg]), rcv_queue[e])
            ELSE UNCHANGED <<rcv_buf, rcv_queue, rcv_nxt>>

-----------------------------------------------------------------------------
(* The send side of ikcp_input *)

ShrinkBuf(buf, nxt) == IF DOMAIN buf = {} THEN nxt ELSE Min(DOMAIN buf)

ParseUnaInclusive(buf, una) == Restrict(buf, {sn \in DOMAIN buf : sn > una})

ParseUna(buf, una) == Restrict(buf, {sn \in DOMAIN buf : sn >= una})

(* ikcp_parse_fastack: the segments the acknowledged one has overtaken.     *)
ParseFastack(buf, una, nxt, sn) ==
    IF sn < una \/ sn >= nxt THEN buf
    ELSE [s \in DOMAIN buf |->
            IF s < sn THEN [buf[s] EXCEPT !.fastack = Min({@ + 1, FastResend})] ELSE buf[s]]

ParseAck(buf, p) ==
    IF p.cmd = "ACK" THEN Restrict(buf, DOMAIN buf \ {p.sn}) ELSE buf

(* What a datagram says of the segments under way.                          *)
ParseAcks(e, p) ==
    \E buf \in {ParseAck(ParseUna(snd_buf[e], p.una), p)} :
        /\ snd_una' = [snd_una EXCEPT ![e] = ShrinkBuf(buf, snd_nxt[e])]
        /\ snd_buf' = [snd_buf EXCEPT ![e] =
              IF p.cmd = "ACK"
              THEN ParseFastack(buf, ShrinkBuf(buf, snd_nxt[e]), snd_nxt[e], p.sn)
              ELSE buf]
        /\ UNCHANGED <<snd_queue, snd_nxt>>

(* ikcp_input.  What was retransmitted arrives more than once.              *)
Input(e, p) ==
    /\ p \in net /\ p.to = e
    /\ ~dead[e]
    /\ UNCHANGED <<probe_wait, dead, user>>
    /\ net' = net \ {p}
    /\ rmt_wnd' = [rmt_wnd EXCEPT ![e] = p.wnd]
    /\ ParseAcks(e, p)
    /\ IF p.cmd = "PUSH" THEN ParseData(e, p) ELSE UNCHANGED rcvVars
    /\ probe' = [probe EXCEPT ![e] = IF p.cmd = "WASK" THEN @ \cup {"ASK_TELL"} ELSE @]
    /\ probe_count' = [probe_count EXCEPT ![e] = 0]

(* A datagram that stays in net is as good as lost, except for those whose  *)
(* delivery FairSpec demands.                                               *)
Lose(p) ==
    /\ p.cmd \in {"WASK", "WINS"}
    /\ net' = net \ {p}
    /\ UNCHANGED <<sndVars, rmt_wnd, probeVars, dead, rcvVars, user>>

-----------------------------------------------------------------------------
(* ikcp_flush *)

WndUnused(e) == Max({0, RcvWnd - Len(rcv_queue[e])})

NoSeg == Seg(<<>>, 0)
Packet(e, cmd, sn, seg) ==
    [to |-> Other[e], cmd |-> cmd, sn |-> sn, una |-> rcv_nxt[e], wnd |-> WndUnused(e),
     seg |-> [seg EXCEPT !.frg = @ % FrgMod]]

Acks(e) == {Packet(e, "ACK", sn, NoSeg) : sn \in acklist[e]}

ProbesOnRequest(e, probeTimer) == probe[e]

(* The probe flags the flush sees; the window probe timer is set when the   *)
(* window is first seen closed and asks when it has run out.                *)
Probes(e, probeTimer) ==
    probe[e] \cup (IF rmt_wnd[e] = 0 /\ probe_wait[e] /\ probeTimer
                   THEN {"ASK_SEND"} ELSE {})

ProbePackets(e, flags) ==
    {Packet(e, "WASK", 0, NoSeg) : f \in flags \cap {"ASK_SEND"}} \cup
    {Packet(e, "WINS", 0, NoSeg) : f \in flags \cap {"ASK_TELL"}}

(* The segments of the queue that enter the window.                         *)
Room(e) == Max({0, Min({Len(snd_queue[e]),
                        snd_una[e] + Min({SndWnd, rmt_wnd[e]}) - snd_nxt[e]})})

Entered(e) ==
    [sn \in snd_nxt[e]..(snd_nxt[e] + Room(e) - 1) |->
        [seg |-> snd_queue[e][sn - snd_nxt[e] + 1], xmit |-> 0, fastack |-> 0]]

(* A segment is sent when it is new, when its timer has run out, and when   *)
(* enough later ones were acknowledged before it.                           *)
NeedSend(s, expired) ==
    \/ s.xmit = 0
    \/ expired
    \/ s.fastack >= FastResend /\ (s.xmit <= FastLimit \/ FastLimit = 0)

Transmit(s, expired) ==
    IF ~NeedSend(s, expired) THEN s
    ELSE [s EXCEPT !.xmit = @ + 1,
                   !.fastack = IF s.xmit > 0 /\ ~expired THEN 0 ELSE @]

Questions(packets) == {p \in packets : p.cmd \in {"WASK", "WINS"}}

(* The network loses what it has no room for, and an old window question or *)
(* answer when the next one follows.                                        *)
Superseded(packets) ==
    {q \in Questions(net) : \E p \in packets : p.to = q.to /\ p.cmd = q.cmd}

Output(packets) ==
    \E all \in {(net \ Superseded(packets)) \cup packets} :
        net' \in IF Cardinality(all) <= MaxNet THEN {all}
                 ELSE {Questions(all) \cup d :
                         d \in kSubset(Max({0, MaxNet - Cardinality(Questions(all))}),
                                       all \ Questions(all))}

(* ikcp_update when a flush is due; expired are the segments whose          *)
(* retransmission timer has run out, probeTimer that of the window probe.   *)
Flush(e, expired, probeTimer) ==
    /\ ~dead[e]
    /\ acklist' = [acklist EXCEPT ![e] = {}]
    /\ probe' = [probe EXCEPT ![e] = {}]
    /\ probe_wait' = [probe_wait EXCEPT ![e] = rmt_wnd[e] = 0]
    /\ UNCHANGED <<snd_una, rmt_wnd, probe_count, rcv_buf, rcv_queue, rcv_nxt, user>>
    /\ \E buf \in {Inserted(snd_buf[e], Entered(e))} :
          LET out == {sn \in DOMAIN buf : NeedSend(buf[sn], sn \in expired)} IN
          /\ snd_buf' = [snd_buf EXCEPT ![e] =
                [sn \in DOMAIN buf |-> Transmit(buf[sn], sn \in expired)]]
          /\ dead' = [dead EXCEPT ![e] = \E sn \in out : buf[sn].xmit + 1 >= DeadLink]
          /\ Output(Acks(e) \cup ProbePackets(e, Probes(e, probeTimer))
                            \cup {Packet(e, "PUSH", sn, buf[sn].seg) : sn \in out})
    /\ snd_queue' = [snd_queue EXCEPT ![e] = SubSeq(@, Room(e) + 1, Len(@))]
    /\ snd_nxt' = [snd_nxt EXCEPT ![e] = @ + Room(e)]

(* ikcp_update when the keepalive interval has passed without input: ask,   *)
(* or give the link up after MaxProbes questions without an answer.         *)
Keepalive(e) ==
    /\ MaxProbes[e] > 0 /\ ~dead[e]
    /\ IF probe_count[e] + 1 > MaxProbes[e]
       THEN dead' = [dead EXCEPT ![e] = TRUE] /\ UNCHANGED <<probe, probe_count>>
       ELSE /\ probe' = [probe EXCEPT ![e] = @ \cup {"ASK_SEND"}]
            /\ probe_count' = [probe_count EXCEPT ![e] = @ + 1]
            /\ UNCHANGED dead
    /\ UNCHANGED <<sndVars, rmt_wnd, probe_wait, rcvVars, net, user>>

Next ==
    \/ \E e \in End :
          \/ Send(e)
          \/ Recv(e)
          \/ \E p \in net : Input(e, p)
          \/ \E x \in SUBSET DOMAIN snd_buf[e], t \in {rmt_wnd[e] = 0 /\ probe_wait[e], FALSE} :
                Flush(e, x, t)
          \/ Keepalive(e)
    \/ \E p \in net : Lose(p)

Spec == Init /\ [][Next]_vars

(* The users read, the update timer keeps flushing until the timers of the  *)
(* oldest segment and of the window probe have run out, and the network     *)
(* delivers infinitely many of infinitely many window questions and of      *)
(* infinitely many answers.  Nothing else need arrive.                      *)
FairSpec ==
    /\ Spec
    /\ WF_vars(\E e \in End : Recv(e))
    /\ \A e \in End :
          WF_vars(\E x \in SUBSET DOMAIN snd_buf[e] :
                      /\ x = {} => DOMAIN snd_buf[e] = {}
                      /\ x # {} => snd_una[e] \in x
                      /\ Flush(e, x, TRUE))
    /\ SF_vars(\E p \in net : p.cmd = "WASK" /\ Input(p.to, p))
    /\ SF_vars(\E p \in net : p.cmd = "WINS" /\ Input(p.to, p))

-----------------------------------------------------------------------------
TypeOK ==
    /\ stream \in BOOLEAN
    /\ dead \in [End -> BOOLEAN] /\ probe_wait \in [End -> BOOLEAN]
    /\ \A e \in End :
          /\ rmt_wnd[e] \in Nat /\ rcv_nxt[e] \in Nat
          /\ probe[e] \subseteq {"ASK_SEND", "ASK_TELL"}
          /\ probe_count[e] \in 0..MaxProbes[e]
          /\ DOMAIN snd_buf[e] \subseteq snd_una[e]..(snd_nxt[e] - 1)
          /\ DOMAIN snd_buf[e] # {} => snd_una[e] \in DOMAIN snd_buf[e]
          /\ \A sn \in DOMAIN snd_buf[e] : snd_buf[e][sn].xmit \in 0..DeadLink
    /\ \A p \in net : p.to \in End /\ p.cmd \in {"PUSH", "ACK", "WASK", "WINS"}

(* Whatever arrives, a conversation holds a bounded number of segments: the  *)
(* send window limits what is unacknowledged, the receive window what is     *)
(* buffered and what is queued for the user.                                 *)
BuffersBounded ==
    \A e \in End :
        /\ snd_nxt[e] <= snd_una[e] + SndWnd
        /\ Len(rcv_queue[e]) <= RcvWnd
        /\ DOMAIN rcv_buf[e] \subseteq rcv_nxt[e]..(rcv_nxt[e] + RcvWnd - 1)

(* A segment leaves the send buffer only when the far end has it, in order   *)
(* or in its receive buffer: acknowledgements, however late or repeated,     *)
(* never make the sender forget what the receiver still needs.               *)
AckedIsHeld ==
    \A e \in End : \A sn \in 0..(snd_nxt[e] - 1) :
        sn \in DOMAIN snd_buf[e] \/ sn < rcv_nxt[Other[e]] \/ sn \in DOMAIN rcv_buf[Other[e]]

(* What was sent arrives, or the link is declared dead: a closed window is   *)
(* reopened although the announcement that it opened may be lost.            *)
SentArrives ==
    \A e \in {x \in End : Sizes[TRUE][x] \o Sizes[FALSE][x] # <<>>} :
        (LastByte(sent[e]) # LastByte(received[Other[e]]))
            ~> \/ LastByte(sent[e]) = LastByte(received[Other[e]])
               \/ dead[e] \/ dead[Other[e]]
=============================================================================
