--------------------------- MODULE MessageChannel ---------------------------
(***************************************************************************)
(* What a KCP conversation promises its two users: between them lie two    *)
(* queues of bytes, one to each end.  A send adds the bytes of its message *)
(* behind the queue and a receive takes bytes from the front of it; there  *)
(* is no other way in or out.  In packet mode a receive takes exactly one  *)
(* message; in stream mode it takes some bytes, whatever sends they came   *)
(* from.                                                                   *)
(***************************************************************************)
EXTENDS Naturals, Sequences, SequencesExt

CONSTANTS
    End,       \* the two ends of the conversation
    Other      \* [End -> End]: the far end

VARIABLES
    inStream,  \* the mode both ends agreed on
    accepted,  \* [End -> the messages, each a sequence of bytes, sent so far]
    transit,   \* [End -> the bytes on their way to this end]
    delivered  \* [End -> what each receive returned]

chVars == <<inStream, accepted, transit, delivered>>

ChannelInit ==
    /\ inStream \in BOOLEAN
    /\ accepted = [e \in End |-> <<>>]
    /\ transit = [e \in End |-> <<>>]
    /\ delivered = [e \in End |-> <<>>]

ChannelSend(e) ==
    /\ Len(accepted'[e]) = Len(accepted[e]) + 1
    /\ accepted' = [accepted EXCEPT ![e] = Append(@, Last(accepted'[e]))]
    /\ transit' = [transit EXCEPT ![Other[e]] = @ \o Last(accepted'[e])]
    /\ UNCHANGED <<inStream, delivered>>

ChannelRecv(e) ==
    /\ Len(delivered'[e]) = Len(delivered[e]) + 1
    /\ delivered' = [delivered EXCEPT ![e] = Append(@, Last(delivered'[e]))]
    /\ transit = [transit' EXCEPT ![e] = Last(delivered'[e]) \o @]
    /\ inStream \/ IsPrefix(delivered'[e], accepted[Other[e]])
    /\ UNCHANGED <<inStream, accepted>>

ChannelNext == \E e \in End : ChannelSend(e) \/ ChannelRecv(e)

ChannelSpec == ChannelInit /\ [][ChannelNext]_chVars
=============================================================================
