----------------------------- MODULE KcpChannel -----------------------------
(***************************************************************************)
(* A KCP conversation as an implementation of the channel its users see.    *)
(* The mapping finds the bytes in transit in the queues, windows and        *)
(* buffers of the two ends (kcp_imp/ikcp.h, IKCPCB); what is under way in   *)
(* datagrams does not count, being a copy of what its sender keeps.         *)
(***************************************************************************)
EXTENDS Kcp

(* The bytes on their way to e: those its user has not read, then, segment   *)
(* by segment, those received out of order or else still unacknowledged, and *)
(* then those that have not entered the window.                              *)
Lost == [data |-> <<"lost">>]
UnderWay(e, sn) ==
    CASE sn \in DOMAIN rcv_buf[e] -> rcv_buf[e][sn]
      [] sn \notin DOMAIN rcv_buf[e] /\ sn \in DOMAIN snd_buf[Other[e]] -> snd_buf[Other[e]][sn].seg
      [] OTHER -> Lost

Transit(e) ==
    DataOf(rcv_queue[e])
        \o DataOf([i \in 1..(snd_nxt[Other[e]] - rcv_nxt[e]) |-> UnderWay(e, rcv_nxt[e] + i - 1)])
        \o DataOf(snd_queue[Other[e]])

Channel == INSTANCE MessageChannel
    WITH inStream <- stream, accepted <- sent, delivered <- received,
         transit <- [e \in End |-> Transit(e)]

(* The conversation implements the channel: at every moment its queues,      *)
(* windows and buffers hold exactly the bytes between the two users, in one  *)
(* order and each once, whatever the network loses, repeats or reorders.     *)
ImplementsChannel == Channel!ChannelSpec
=============================================================================
