----------------------------- MODULE Kcp_proof -----------------------------
(***************************************************************************)
(* Two safety properties of a KCP conversation for any windows, segment    *)
(* size, limits and message sizes, over a network that loses, repeats and  *)
(* reorders datagrams: the windows bound what either end holds, and no     *)
(* segment is forgotten before the far end has it.                         *)
(*                                                                         *)
(* Neither is inductive alone.  A datagram removes segments from the send  *)
(* buffer by its una and, if it is an ACK, by its sn, so the invariant     *)
(* says of every datagram under way, however old, and of every number in   *)
(* the acknowledgement list, that the receiver they speak for holds what   *)
(* they acknowledge.  It stays true because a receiver keeps what it has   *)
(* taken: rcv_nxt grows, and a segment leaves rcv_buf only below it.       *)
(***************************************************************************)
EXTENDS Kcp, TLAPS, SequenceTheorems, WellFoundedInduction

(* What the queues, the send buffer and the network hold.                    *)
Segment == [data : {d \in Seq(Int) : Len(d) <= Mss}, frg : Int]
Unacked == [seg : Segment, xmit : Int, fastack : Int]
Datagram == [to : End, cmd : {"PUSH", "ACK", "WASK", "WINS"}, sn : Nat, una : Nat,
             wnd : Nat, seg : Segment]

(* The mode, and messages of at least one byte.                              *)
UserOK ==
    /\ stream \in BOOLEAN
    /\ sent \in [End -> Seq(Seq(Int) \ {<<>>})]

(* The send side: snd_buf lies between snd_una and snd_nxt, which are at most *)
(* the send window apart.                                                     *)
SenderOK ==
    /\ snd_queue \in [End -> Seq(Segment)]
    /\ snd_una \in [End -> Nat] /\ snd_nxt \in [End -> Nat] /\ rmt_wnd \in [End -> Nat]
    /\ snd_buf = [e \in End |-> snd_buf[e]]
    /\ \A e \in End :
          /\ snd_una[e] <= snd_nxt[e] /\ snd_nxt[e] <= snd_una[e] + SndWnd
          /\ DOMAIN snd_buf[e] \subseteq snd_una[e]..(snd_nxt[e] - 1)
          /\ \A sn \in DOMAIN snd_buf[e] : snd_buf[e][sn] \in Unacked

(* The receive side: rcv_buf lies in the window above rcv_nxt, and the queue *)
(* holds no more than the window.                                            *)
ReceiverOK ==
    /\ rcv_queue \in [End -> Seq(Segment)] /\ rcv_nxt \in [End -> Nat]
    /\ rcv_buf = [e \in End |-> rcv_buf[e]]
    /\ \A e \in End :
          /\ Len(rcv_queue[e]) <= RcvWnd
          /\ DOMAIN rcv_buf[e] \subseteq rcv_nxt[e]..(rcv_nxt[e] + RcvWnd - 1)
          /\ \A sn \in DOMAIN rcv_buf[e] : rcv_buf[e][sn] \in Segment

(* The receiver has segment sn, in order or buffered.                        *)
Held(e, sn) == sn < rcv_nxt[e] \/ sn \in DOMAIN rcv_buf[e]

(* Only what was received is acknowledged.                                   *)
AcksHonest ==
    /\ acklist \in [End -> SUBSET Nat]
    /\ \A e \in End : \A sn \in acklist[e] : Held(e, sn)

(* What a datagram acknowledges, by una and by the sn of an ACK, is held by the *)
(* end that sent it.                                                            *)
Honest(p) ==
    /\ p \in Datagram
    /\ p.una <= rcv_nxt[Other[p.to]]
    /\ p.cmd = "ACK" => Held(Other[p.to], p.sn)

NetHonest == \A p \in net : Honest(p)

(* AckedIsHeld, in terms of Held.                                            *)
NothingForgotten ==
    \A e \in End : \A sn \in 0..(snd_nxt[e] - 1) :
        sn \in DOMAIN snd_buf[e] \/ Held(Other[e], sn)

Inv == UserOK /\ SenderOK /\ ReceiverOK /\ AcksHonest /\ NetHonest /\ NothingForgotten

(* A step of a receiver loses nothing that it has.                           *)
KeepsHeld ==
    \A e \in End : /\ rcv_nxt[e] <= rcv_nxt'[e]
                   /\ \A sn \in Nat : Held(e, sn) => Held(e, sn)'

-----------------------------------------------------------------------------
(* Minimum and maximum                                                       *)

(* A set of naturals has a least element: < is well founded.                 *)
LEMMA MinOfNat ==
    ASSUME NEW T, T \subseteq Nat, T # {}
    PROVE  Min(T) \in T /\ \A y \in T : Min(T) <= y
<1>1. \E x \in T : \A y \in T : ~(<<y, x>> \in OpToRel(<, Nat))
  BY NatLessThanWellFounded, WFMin
<1>2. OpToRel(<, Nat) = {ss \in Nat \X Nat : ss[1] < ss[2]}
  BY Zenon DEF OpToRel
<1>3. \A x, y \in Nat : y < x => <<y, x>> \in OpToRel(<, Nat)
  <2>1. \A x, y \in Nat : y < x => <<y, x>> \in {ss \in Nat \X Nat : ss[1] < ss[2]}
    OBVIOUS
  <2> QED BY <1>2, <2>1, Zenon
<1>4. PICK x \in T : \A y \in T : ~(<<y, x>> \in OpToRel(<, Nat))
  BY <1>1, Zenon
<1>5. \A y \in T : ~(y < x)
  BY <1>3, <1>4, Zenon
<1>6. \A y \in T : x <= y
  BY <1>5
<1> QED BY <1>6, Zenon DEF Min

(* The least of two integers.                                                *)
LEMMA MinOfTwo ==
    ASSUME NEW a \in Int, NEW b \in Int
    PROVE  Min({a, b}) = IF a <= b THEN a ELSE b
BY DEF Min

(* The greatest of two integers.                                             *)
LEMMA MaxOfTwo ==
    ASSUME NEW a \in Int, NEW b \in Int
    PROVE  Max({a, b}) = IF a >= b THEN a ELSE b
BY DEF Max

(* What MoveToQueue moves fits the room and is in the buffer.                *)
LEMMA MovableFacts ==
    ASSUME NEW buf, NEW nxt \in Nat, NEW room \in Nat
    PROVE  /\ Movable(buf, nxt, room) \in 0..room
           /\ \A i \in 0..(Movable(buf, nxt, room) - 1) : (nxt + i) \in DOMAIN buf
<1> DEFINE T == {k \in 0..room : k = room \/ (nxt + k) \notin DOMAIN buf}
<1>1. T \subseteq Nat /\ room \in T
  OBVIOUS
<1> DEFINE m == Min(T)
<1>2. m \in T /\ \A y \in T : m <= y
  BY <1>1, MinOfNat
<1>3. m \in 0..room /\ (m = room \/ (nxt + m) \notin DOMAIN buf)
  BY <1>2
<1>4. \A i \in 0..(m - 1) : (nxt + i) \in DOMAIN buf
  <2> SUFFICES ASSUME NEW i \in 0..(m - 1) PROVE (nxt + i) \in DOMAIN buf
    OBVIOUS
  <2>1. i \in 0..room /\ i < m
    BY <1>3
  <2>2. i \notin T
    BY <1>2, <1>3, <2>1
  <2> QED BY <2>1, <2>2
<1> HIDE DEF m
<1> QED BY <1>3, <1>4, Zenon DEF Movable

(* The assumption on the constants, fact by fact.                            *)
LEMMA Constants ==
    /\ \A e \in End : Other[e] \in End /\ Other[Other[e]] = e
    /\ Mss \in Nat /\ Mss > 0 /\ SndWnd \in Nat /\ SndWnd > 0 /\ RcvWnd \in Nat /\ RcvWnd > 0
    /\ RmtWnd \in Nat /\ FastResend \in Nat /\ FrgMod \in Nat /\ FrgMod > 0
    /\ \A s \in BOOLEAN : \A e \in End : Sizes[s][e] \in Seq(Nat \ {0})
BY KcpAssumption

(* A new conversation satisfies the invariant.                               *)
LEMMA InitInv == Init => Inv
<1> SUFFICES ASSUME Init PROVE Inv
  OBVIOUS
<1>1. UserOK
  BY EmptySeq DEF Init, UserOK
<1>2. SenderOK
  BY EmptySeq, Constants DEF Init, SenderOK
<1>3. ReceiverOK
  BY EmptySeq, Constants DEF Init, ReceiverOK
<1>4. AcksHonest /\ NetHonest /\ NothingForgotten
  BY DEF Init, AcksHonest, NetHonest, NothingForgotten
<1> QED BY <1>1, <1>2, <1>3, <1>4 DEF Inv

(* A function on 1..n is a sequence, whatever the integer n.                 *)
LEMMA FunctionIsSeq ==
    ASSUME NEW n \in Int, NEW S, NEW s \in [1..n -> S]
    PROVE  s \in Seq(S)
<1> DEFINE k == IF n >= 1 THEN n ELSE 0
<1>1. k \in Nat /\ 1..n = 1..k
  OBVIOUS
<1>2. s \in [1..k -> S]
  BY <1>1, Zenon
<1> HIDE DEF k
<1> QED BY <1>1, <1>2, SeqDef

(* Naturals are closed under multiplication.                                 *)
LEMMA NatProduct ==
    ASSUME NEW a \in Nat, NEW b \in Nat
    PROVE  a * b \in Nat
OBVIOUS

(* ikcp_send cuts its bytes into segments of at most mss.                    *)
LEMMA FragmentsAreSegments ==
    ASSUME NEW bytes \in Seq(Int), stream \in BOOLEAN
    PROVE  Fragments(bytes) \in Seq(Segment)
<1> DEFINE n == Count(bytes)
           f(i) == SubSeq(bytes, (i - 1) * Mss + 1, Min({i * Mss, Len(bytes)}))
           g(i) == IF stream THEN 0 ELSE n - i
<1>1. n \in Int
  BY Constants DEF Count
<1>2. ASSUME NEW i \in 1..n PROVE Seg(f(i), g(i)) \in Segment
  <2> DEFINE lo == (i - 1) * Mss + 1
             hi == Min({i * Mss, Len(bytes)})
  <2>1. Len(bytes) \in Nat /\ \A j \in 1..Len(bytes) : bytes[j] \in Int
    BY LenProperties, ElementOfSeq
  <2>2. i \in Nat /\ i - 1 \in Nat /\ g(i) \in Int
    BY <1>1
  <2>3. lo \in Nat /\ lo >= 1
    BY <2>2, NatProduct, Constants
  <2>4. i * Mss \in Nat
    BY <2>2, NatProduct, Constants
  <2>5. hi \in Int /\ hi <= Len(bytes)
    <3> HIDE DEF n
    <3> QED BY <2>1, <2>4, MinOfTwo
  <2> HIDE DEF lo, hi
  <2>6. \A j \in lo..hi : bytes[j] \in Int
    BY <2>1, <2>3, <2>5
  <2>7. /\ SubSeq(bytes, lo, hi) \in Seq(Int)
        /\ Len(SubSeq(bytes, lo, hi)) = IF lo <= hi THEN hi - lo + 1 ELSE 0
    BY <2>3, <2>5, <2>6, SubSeqProperties
  <2>8. hi - lo + 1 <= Mss
    <3>1. hi <= i * Mss
      <4> HIDE DEF n
      <4> QED BY <2>1, <2>4, MinOfTwo DEF hi
    <3>2. i * Mss = (i - 1) * Mss + Mss
      BY <2>2, Constants
    <3> QED BY <2>3, <2>4, <2>5, <3>1, <3>2, Constants DEF lo
  <2>9. Len(SubSeq(bytes, lo, hi)) <= Mss
    BY <2>3, <2>5, <2>7, <2>8, Constants
  <2> QED BY <2>2, <2>7, <2>9, Zenon DEF Seg, Segment, lo, hi
<1> HIDE DEF f, g, n
<1>3. [i \in 1..n |-> Seg(f(i), g(i))] \in Seq(Segment)
  <2>1. [i \in 1..n |-> Seg(f(i), g(i))] \in [1..n -> Segment]
    BY <1>2
  <2> QED BY <1>1, <2>1, FunctionIsSeq
<1> QED BY <1>3 DEF f, g, n, Fragments

(* ikcp_send: what it appends or extends is a segment of at most mss.        *)
LEMMA SendKeeps ==
    ASSUME Inv, NEW e \in End, Send(e)
    PROVE  UserOK' /\ SenderOK'
<1> USE DEF Inv
<1> DEFINE q     == snd_queue[e]
           n     == Sizes[stream][e][Len(sent[e]) + 1]
           bytes == NewBytes(e, n)
           k     == Extend(e, n)
           rest  == SubSeq(bytes, k + 1, n)
           fits  == Count(rest) <= SndWnd
           base  == IF k = 0 THEN q
                    ELSE [q EXCEPT ![Len(q)] = Seg(@.data \o SubSeq(bytes, 1, k), 0)]
<1>1. stream \in BOOLEAN /\ q \in Seq(Segment) /\ sent[e] \in Seq(Seq(Int) \ {<<>>})
  BY DEF UserOK, SenderOK
<1>2. n \in Nat \ {0}
  <2>1. Sizes[stream][e] \in Seq(Nat \ {0})
    BY <1>1, Constants
  <2>2. Len(sent[e]) \in Nat /\ Len(Sizes[stream][e]) \in Nat
    BY <1>1, <2>1, LenProperties
  <2>3. Len(sent[e]) < Len(Sizes[stream][e])
    BY Zenon DEF Send
  <2>4. Len(sent[e]) + 1 \in 1..Len(Sizes[stream][e])
    BY <2>2, <2>3
  <2> QED BY <2>1, <2>4, ElementOfSeq
<1>3. LastByte(sent[e]) \in Int
  <2>1. CASE sent[e] = <<>>
    BY <2>1 DEF LastByte
  <2>2. CASE sent[e] # <<>>
    <3>1. Len(sent[e]) \in Nat \ {0}
      BY <1>1, <2>2, EmptySeq
    <3>2. Newest(sent[e]) \in Seq(Int) \ {<<>>}
      BY <1>1, <3>1, ElementOfSeq DEF Newest
    <3> DEFINE m == Newest(sent[e])
    <3>3. Len(m) \in Nat \ {0}
      BY <3>2, EmptySeq
    <3>4. m[Len(m)] \in Int
      BY <3>2, <3>3, ElementOfSeq
    <3> QED BY <2>2, <3>4 DEF LastByte, Newest
  <2> QED BY <2>1, <2>2
<1>4. /\ bytes \in Seq(Int) /\ Len(bytes) = n
      /\ \A i \in 1..n : bytes[i] \in Int
  <2> HIDE DEF n
  <2>1. bytes \in [1..n -> Int]
    BY <1>2, <1>3 DEF NewBytes
  <2> QED BY <1>2, <2>1, FunctionIsSeq, LenProperties
<1> HIDE DEF n, bytes
<1>5. /\ k \in Nat /\ k <= n
      /\ k # 0 => q # <<>> /\ Newest(q) \in Segment /\ Len(Newest(q).data) + k <= Mss
  <2>1. CASE ~stream \/ q = <<>>
    BY <1>2, <2>1 DEF Extend
  <2>2. CASE ~(~stream \/ q = <<>>)
    <3>1. Newest(q) \in Segment
      <4>1. Len(q) \in Nat \ {0}
        BY <1>1, <2>2, EmptySeq
      <4> QED BY <1>1, <4>1, ElementOfSeq DEF Newest
    <3>2. Len(Newest(q).data) \in Nat /\ Len(Newest(q).data) <= Mss
      BY <3>1, LenProperties DEF Segment
    <3>3. k = Min({n, Mss - Len(Newest(q).data)})
      BY <2>2 DEF Extend
    <3> HIDE DEF k, q
    <3> QED BY <1>2, <2>2, <3>1, <3>2, <3>3, MinOfTwo, Constants
  <2> QED BY <2>1, <2>2
<1> HIDE DEF k
<1>6. \A lo \in Nat \ {0} : \A hi \in 0..n :
         /\ SubSeq(bytes, lo, hi) \in Seq(Int)
         /\ Len(SubSeq(bytes, lo, hi)) = IF lo <= hi THEN hi - lo + 1 ELSE 0
  <2> SUFFICES ASSUME NEW lo \in Nat \ {0}, NEW hi \in 0..n
               PROVE  /\ SubSeq(bytes, lo, hi) \in Seq(Int)
                      /\ Len(SubSeq(bytes, lo, hi)) = IF lo <= hi THEN hi - lo + 1 ELSE 0
    OBVIOUS
  <2>1. \A i \in lo..hi : bytes[i] \in Int
    BY <1>2, <1>4
  <2> QED BY <1>2, <2>1, SubSeqProperties
<1>7. rest \in Seq(Int)
  <2>1. k + 1 \in Nat \ {0} /\ n \in 0..n
    BY <1>2, <1>5
  <2> QED BY <1>6, <2>1, Zenon
<1>8. Fragments(rest) \in Seq(Segment)
  BY <1>1, <1>7, FragmentsAreSegments, Zenon
<1>9. base \in Seq(Segment)
  <2>1. CASE k = 0
    BY <1>1, <2>1
  <2>2. CASE k # 0
    <3> DEFINE head == SubSeq(bytes, 1, k)
               old  == Newest(q).data
    <3>1. head \in Seq(Int) /\ Len(head) = k
      <4>1. 1 \in Nat \ {0} /\ k \in 0..n /\ 1 <= k /\ k - 1 + 1 = k
        BY <1>2, <1>5, <2>2
      <4> QED BY <1>6, <4>1, Zenon
    <3>2. old \in Seq(Int) /\ Len(old) + k <= Mss
      BY <1>5, <2>2 DEF Segment
    <3>3. old \o head \in Seq(Int) /\ Len(old \o head) <= Mss
      BY <3>1, <3>2, ConcatProperties
    <3> HIDE DEF head, old
    <3>4. Seg(old \o head, 0) \in Segment
      BY <3>3 DEF Seg, Segment
    <3>5. Len(q) \in 1..Len(q)
      BY <1>1, <1>5, <2>2, EmptySeq
    <3>6. [q EXCEPT ![Len(q)] = Seg(old \o head, 0)] \in Seq(Segment)
      BY <1>1, <3>4, <3>5, ExceptSeq
    <3>7. base = [q EXCEPT ![Len(q)] = Seg(old \o head, 0)]
      BY <1>1, <2>2, <3>5, LenProperties DEF old, head, Newest
    <3> QED BY <3>6, <3>7
  <2> QED BY <2>1, <2>2
<1>10. \A s \in {bytes, SubSeq(bytes, 1, k)} : Len(s) > 0 => s \in Seq(Int) \ {<<>>}
  BY <1>2, <1>4, <1>5, <1>6, EmptySeq
<1>11. /\ fits \/ k > 0
       /\ snd_queue' = [snd_queue EXCEPT ![e] = IF fits THEN base \o Fragments(rest) ELSE base]
       /\ sent' = [sent EXCEPT ![e] = Append(@, IF fits THEN bytes ELSE SubSeq(bytes, 1, k))]
       /\ UNCHANGED <<stream, snd_buf, snd_una, snd_nxt, rmt_wnd>>
  BY Zenon DEF Send, n, bytes, k
<1> HIDE DEF base, rest, fits
<1>12. snd_queue' \in [End -> Seq(Segment)]
  <2>1. base \o Fragments(rest) \in Seq(Segment)
    BY <1>8, <1>9, ConcatProperties
  <2> QED BY <1>9, <1>11, <2>1 DEF SenderOK
<1>13. sent' \in [End -> Seq(Seq(Int) \ {<<>>})]
  <2> DEFINE s == IF fits THEN bytes ELSE SubSeq(bytes, 1, k)
  <2>1. s \in Seq(Int) \ {<<>>}
    <3>1. CASE fits
      BY <1>2, <1>4, <1>10, <3>1
    <3>2. CASE ~fits
      <4>1. k \in 1..n
        BY <1>2, <1>5, <1>11, <3>2
      <4>2. Len(SubSeq(bytes, 1, k)) = k
        BY <1>2, <1>6, <4>1
      <4> QED BY <1>10, <3>2, <4>1, <4>2
    <3> QED BY <3>1, <3>2
  <2> HIDE DEF s
  <2>2. Append(sent[e], s) \in Seq(Seq(Int) \ {<<>>})
    BY <1>1, <2>1, AppendProperties
  <2>3. sent' = [sent EXCEPT ![e] = Append(sent[e], s)]
    BY <1>11 DEF s, UserOK
  <2> QED BY <2>2, <2>3 DEF UserOK
<1>14. UserOK'
  BY <1>11, <1>13 DEF UserOK
<1>15. SenderOK'
  BY <1>11, <1>12 DEF SenderOK
<1> QED BY <1>14, <1>15

(* Moving segments in order from rcv_buf to rcv_queue keeps the receive side *)
(* within its window, and everything that was in the buffer held.            *)
LEMMA MoveKeeps ==
    ASSUME ReceiverOK, NEW e \in End, NEW buf, NEW queue \in Seq(Segment),
           DOMAIN buf \subseteq rcv_nxt[e]..(rcv_nxt[e] + RcvWnd - 1),
           DOMAIN rcv_buf[e] \subseteq DOMAIN buf,
           \A sn \in DOMAIN buf : buf[sn] \in Segment,
           Len(queue) <= RcvWnd,
           MoveToQueue(e, buf, queue)
    PROVE  ReceiverOK' /\ KeepsHeld /\ \A sn \in DOMAIN buf : Held(e, sn)'
<1> DEFINE nxt  == rcv_nxt[e]
           room == Max({0, RcvWnd - Len(queue)})
           m    == Movable(buf, nxt, room)
           rest == DOMAIN buf \ (nxt..(nxt + m - 1))
           more == [i \in 1..m |-> buf[nxt + i - 1]]
<1>1. nxt \in Nat /\ Len(queue) \in Nat
  BY LenProperties DEF ReceiverOK
<1>2. room \in Nat /\ room = RcvWnd - Len(queue)
  BY <1>1, MaxOfTwo, Constants
<1>3. m \in 0..room /\ \A i \in 0..(m - 1) : (nxt + i) \in DOMAIN buf
  <2> HIDE DEF nxt, room
  <2> QED BY <1>1, <1>2, MovableFacts, Zenon
<1>4. /\ rcv_queue' = [rcv_queue EXCEPT ![e] = queue \o more]
      /\ rcv_nxt' = [rcv_nxt EXCEPT ![e] = nxt + m]
      /\ rcv_buf' = [rcv_buf EXCEPT ![e] = Restrict(buf, rest)]
  BY Zenon DEF MoveToQueue
<1> HIDE DEF m, room
<1>5. more \in Seq(Segment) /\ Len(more) = m
  <2>1. \A i \in 1..m : buf[nxt + i - 1] \in Segment
    <3> TAKE i \in 1..m
    <3>1. i - 1 \in 0..(m - 1) /\ nxt + (i - 1) = nxt + i - 1
      BY <1>1, <1>2, <1>3
    <3> QED BY <1>3, <3>1
  <2>2. more \in [1..m -> Segment]
    BY <2>1
  <2> HIDE DEF more
  <2>3. m \in Nat
    BY <1>2, <1>3
  <2>4. more \in Seq(Segment)
    BY <2>2, <2>3, FunctionIsSeq
  <2> QED BY <2>2, <2>3, <2>4, LenProperties
<1> HIDE DEF more
<1>6. queue \o more \in Seq(Segment) /\ Len(queue \o more) <= RcvWnd
  <2>1. queue \o more \in Seq(Segment) /\ Len(queue \o more) = Len(queue) + m
    BY <1>5, ConcatProperties
  <2> QED BY <1>1, <1>2, <1>3, <2>1, Constants
<1>7. /\ DOMAIN Restrict(buf, rest) = rest
      /\ \A sn \in rest : Restrict(buf, rest)[sn] = buf[sn]
  BY DEF Restrict
<1>8. rest \subseteq (nxt + m)..(nxt + m + RcvWnd - 1)
  BY <1>1, <1>2, <1>3, Constants
<1>9. \A sn \in DOMAIN buf : sn < nxt + m \/ sn \in rest
  BY <1>1, <1>2, <1>3
<1> HIDE DEF rest
<1>10. /\ DOMAIN rcv_buf = End /\ DOMAIN rcv_nxt = End /\ DOMAIN rcv_queue = End
  BY Zenon DEF ReceiverOK
<1>11. /\ rcv_queue'[e] = queue \o more /\ rcv_nxt'[e] = nxt + m
       /\ rcv_buf'[e] = Restrict(buf, rest)
       /\ \A d \in End \ {e} : /\ rcv_queue'[d] = rcv_queue[d] /\ rcv_nxt'[d] = rcv_nxt[d]
                              /\ rcv_buf'[d] = rcv_buf[d]
  BY <1>4, <1>10
<1>12. ReceiverOK'
  <2>1. rcv_queue' \in [End -> Seq(Segment)]
    BY <1>4, <1>6 DEF ReceiverOK
  <2>2. rcv_nxt' \in [End -> Nat]
    BY <1>1, <1>2, <1>3, <1>4 DEF ReceiverOK
  <2>3. rcv_buf' = [d \in End |-> rcv_buf'[d]]
    BY <1>4, <1>10, Zenon
  <2>4. ASSUME NEW d \in End
        PROVE  /\ Len(rcv_queue'[d]) <= RcvWnd
               /\ DOMAIN rcv_buf'[d] \subseteq rcv_nxt'[d]..(rcv_nxt'[d] + RcvWnd - 1)
               /\ \A sn \in DOMAIN rcv_buf'[d] : rcv_buf'[d][sn] \in Segment
    <3>1. CASE d = e
      <4>1. \A sn \in rest : Restrict(buf, rest)[sn] \in Segment
        BY <1>7, Zenon DEF rest
      <4> QED BY <3>1, <1>6, <1>7, <1>8, <1>11, <4>1, Zenon
    <3>2. CASE d # e
      BY <3>2, <1>11 DEF ReceiverOK
    <3> QED BY <3>1, <3>2
  <2> QED BY <2>1, <2>2, <2>3, <2>4 DEF ReceiverOK
<1>13. \A sn \in DOMAIN buf : Held(e, sn)'
  BY <1>7, <1>9, <1>11 DEF Held
<1>14. KeepsHeld
  <2> SUFFICES ASSUME NEW d \in End
               PROVE  /\ rcv_nxt[d] <= rcv_nxt'[d]
                      /\ \A sn \in Nat : Held(d, sn) => Held(d, sn)'
    BY DEF KeepsHeld
  <2>1. CASE d = e
    <3>1. nxt <= nxt + m /\ \A sn \in Nat : sn < nxt => sn < nxt + m
      BY <1>1, <1>2, <1>3
    <3> QED BY <2>1, <3>1, <1>11, <1>13 DEF Held
  <2>2. CASE d # e
    BY <2>2, <1>11 DEF Held, ReceiverOK
  <2> QED BY <2>1, <2>2
<1> QED BY <1>12, <1>13, <1>14

(* A step that leaves the receive side alone.                                *)
LEMMA StillHeld ==
    ASSUME UNCHANGED <<rcv_buf, rcv_queue, rcv_nxt>>, ReceiverOK
    PROVE  ReceiverOK' /\ KeepsHeld
<1>1. ReceiverOK'
  BY DEF ReceiverOK
<1>2. \A e \in End : rcv_nxt[e] <= rcv_nxt'[e]
  BY DEF ReceiverOK
<1>3. \A e, sn : Held(e, sn) => Held(e, sn)'
  BY DEF Held
<1> QED BY <1>1, <1>2, <1>3 DEF KeepsHeld

(* A datagram stays honest while receivers keep what they have, for as long as *)
(* it is under way.                                                            *)
LEMMA HonestStays ==
    ASSUME ReceiverOK, ReceiverOK', KeepsHeld, NEW p, Honest(p)
    PROVE  Honest(p)'
<1>1. p \in Datagram /\ p.to \in End /\ p.una \in Nat /\ p.sn \in Nat
  BY DEF Honest, Datagram
<1>2. Other[p.to] \in End
  BY <1>1, Constants
<1>3. /\ rcv_nxt[Other[p.to]] \in Nat /\ rcv_nxt'[Other[p.to]] \in Nat
      /\ rcv_nxt[Other[p.to]] <= rcv_nxt'[Other[p.to]]
  BY <1>2 DEF ReceiverOK, KeepsHeld
<1>4. p.una <= rcv_nxt'[Other[p.to]]
  BY <1>1, <1>3 DEF Honest
<1>5. p.cmd = "ACK" => Held(Other[p.to], p.sn)'
  BY <1>1, <1>2 DEF Honest, KeepsHeld
<1> QED BY <1>1, <1>4, <1>5 DEF Honest

(* ikcp_recv.                                                                *)
LEMMA RecvKeeps ==
    ASSUME ReceiverOK, NEW e \in End, Recv(e)
    PROVE  ReceiverOK' /\ KeepsHeld
<1> DEFINE q == rcv_queue[e]
           m == MessageLen(q)
           rest == SubSeq(q, m + 1, Len(q))
<1>1. q \in Seq(Segment) /\ Len(q) \in Nat /\ Len(q) <= RcvWnd
  BY LenProperties DEF ReceiverOK
<1>2. m \in Nat
  <2> DEFINE T == {i \in 1..Len(q) : q[i].frg = 0} \cup {Len(q)}
  <2>1. T \subseteq Nat /\ T # {}
    BY <1>1
  <2> HIDE DEF T
  <2>2. Min(T) \in Nat
    BY <2>1, MinOfNat, Zenon
  <2> QED BY <2>2 DEF T, MessageLen
<1>3. MoveToQueue(e, rcv_buf[e], rest)
  BY Zenon DEF Recv
<1> HIDE DEF q, m
<1>4. rest \in Seq(Segment) /\ Len(rest) <= RcvWnd
  <2>1. \A i \in (m + 1)..Len(q) : q[i] \in Segment
    BY <1>1, <1>2, ElementOfSeq
  <2>2. /\ rest \in Seq(Segment)
        /\ Len(rest) = IF m + 1 <= Len(q) THEN Len(q) - (m + 1) + 1 ELSE 0
    BY <1>1, <1>2, <2>1, SubSeqProperties
  <2> QED BY <1>1, <1>2, <2>2, Constants
<1> HIDE DEF rest
<1>5. /\ DOMAIN rcv_buf[e] \subseteq rcv_nxt[e]..(rcv_nxt[e] + RcvWnd - 1)
      /\ \A sn \in DOMAIN rcv_buf[e] : rcv_buf[e][sn] \in Segment
  BY DEF ReceiverOK
<1> QED BY <1>3, <1>4, <1>5, MoveKeeps

(* The PUSH branch of ikcp_input: what enters the acknowledgement list has been *)
(* received, now or before.                                                     *)
LEMMA ParseDataKeeps ==
    ASSUME ReceiverOK, AcksHonest, NEW e \in End, NEW p \in Datagram, ParseData(e, p)
    PROVE  ReceiverOK' /\ KeepsHeld /\ AcksHonest'
<1>0. p.sn \in Nat /\ p.seg \in Segment /\ rcv_nxt[e] \in Nat
  BY DEF Datagram, ReceiverOK
<1>1. CASE UNCHANGED rcvVars
  BY <1>1, StillHeld DEF rcvVars, AcksHonest, Held
<1>2. CASE /\ acklist' = [acklist EXCEPT ![e] = @ \cup {p.sn}]
           /\ p.sn < rcv_nxt[e] + RcvWnd /\ p.sn >= rcv_nxt[e]
           /\ MoveToQueue(e, Inserted(rcv_buf[e], [sn \in {p.sn} |-> p.seg]), rcv_queue[e])
  <2> DEFINE buf == Inserted(rcv_buf[e], [sn \in {p.sn} |-> p.seg])
  <2>1. /\ DOMAIN buf = DOMAIN rcv_buf[e] \cup {p.sn}
        /\ \A sn \in DOMAIN buf : buf[sn] = IF sn \in DOMAIN rcv_buf[e] THEN rcv_buf[e][sn] ELSE p.seg
    BY DEF Inserted
  <2>2. MoveToQueue(e, buf, rcv_queue[e])
    BY <1>2
  <2> HIDE DEF buf
  <2>3. /\ DOMAIN rcv_buf[e] \subseteq rcv_nxt[e]..(rcv_nxt[e] + RcvWnd - 1)
        /\ \A sn \in DOMAIN rcv_buf[e] : rcv_buf[e][sn] \in Segment
        /\ rcv_queue[e] \in Seq(Segment) /\ Len(rcv_queue[e]) <= RcvWnd
    BY DEF ReceiverOK
  <2>4. p.sn \in rcv_nxt[e]..(rcv_nxt[e] + RcvWnd - 1)
    BY <1>0, <1>2, Constants
  <2>5. /\ DOMAIN buf \subseteq rcv_nxt[e]..(rcv_nxt[e] + RcvWnd - 1)
        /\ DOMAIN rcv_buf[e] \subseteq DOMAIN buf
        /\ \A sn \in DOMAIN buf : buf[sn] \in Segment
    BY <1>0, <2>1, <2>3, <2>4
  <2>6. ReceiverOK' /\ KeepsHeld /\ \A sn \in DOMAIN buf : Held(e, sn)'
    BY <2>2, <2>3, <2>5, MoveKeeps
  <2>7. Held(e, p.sn)'
    BY <2>1, <2>6
  <2>8. AcksHonest'
    BY <1>0, <1>2, <2>6, <2>7 DEF AcksHonest, KeepsHeld
  <2> QED BY <2>6, <2>8
<1>3. CASE /\ acklist' = [acklist EXCEPT ![e] = @ \cup {p.sn}]
           /\ p.sn < rcv_nxt[e]
           /\ UNCHANGED <<rcv_buf, rcv_queue, rcv_nxt>>
  <2>1. ReceiverOK' /\ KeepsHeld
    BY <1>3, StillHeld
  <2>2. Held(e, p.sn)'
    BY <1>3 DEF Held
  <2> QED BY <1>0, <1>3, <2>1, <2>2 DEF AcksHonest, KeepsHeld
<1> QED BY <1>0, <1>1, <1>2, <1>3, Constants DEF ParseData

(* ikcp_parse_una, ikcp_parse_ack and ikcp_parse_fastack: a segment leaves the *)
(* send buffer only if una lies above it or the ACK names it.                  *)
LEMMA ParseAcksKeeps ==
    ASSUME SenderOK, NEW e \in End, NEW p \in Datagram, ParseAcks(e, p),
           rmt_wnd' = [rmt_wnd EXCEPT ![e] = p.wnd]
    PROVE  /\ SenderOK' /\ snd_nxt' = snd_nxt
           /\ \A d \in End \ {e} : snd_buf'[d] = snd_buf[d]
           /\ \A sn \in DOMAIN snd_buf[e] :
                 sn \in DOMAIN snd_buf'[e] \/ sn < p.una \/ (p.cmd = "ACK" /\ sn = p.sn)
<1> DEFINE buf == ParseAck(ParseUna(snd_buf[e], p.una), p)
           una == ShrinkBuf(buf, snd_nxt[e])
           new == IF p.cmd = "ACK" THEN ParseFastack(buf, una, snd_nxt[e], p.sn) ELSE buf
<1>1. /\ p.sn \in Nat /\ p.una \in Nat /\ p.wnd \in Nat
      /\ snd_una[e] \in Nat /\ snd_nxt[e] \in Nat /\ snd_una[e] <= snd_nxt[e]
      /\ snd_nxt[e] <= snd_una[e] + SndWnd
      /\ DOMAIN snd_buf[e] \subseteq snd_una[e]..(snd_nxt[e] - 1)
      /\ \A sn \in DOMAIN snd_buf[e] : snd_buf[e][sn] \in Unacked
  BY DEF Datagram, SenderOK
<1>2. /\ snd_una' = [snd_una EXCEPT ![e] = una]
      /\ snd_buf' = [snd_buf EXCEPT ![e] = new]
      /\ snd_queue' = snd_queue /\ snd_nxt' = snd_nxt
  BY Zenon DEF ParseAcks
<1>3. /\ DOMAIN buf \subseteq DOMAIN snd_buf[e]
      /\ \A sn \in DOMAIN buf : buf[sn] = snd_buf[e][sn]
      /\ \A sn \in DOMAIN snd_buf[e] :
            sn \in DOMAIN buf \/ sn < p.una \/ (p.cmd = "ACK" /\ sn = p.sn)
  <2> DEFINE kept == ParseUna(snd_buf[e], p.una)
  <2>1. /\ DOMAIN kept = {sn \in DOMAIN snd_buf[e] : sn >= p.una}
        /\ \A sn \in DOMAIN kept : kept[sn] = snd_buf[e][sn]
    BY DEF ParseUna, Restrict
  <2> HIDE DEF kept
  <2>2. /\ DOMAIN ParseAck(kept, p) \subseteq DOMAIN kept
        /\ \A sn \in DOMAIN ParseAck(kept, p) : ParseAck(kept, p)[sn] = kept[sn]
        /\ \A sn \in DOMAIN kept : sn \in DOMAIN ParseAck(kept, p) \/ (p.cmd = "ACK" /\ sn = p.sn)
    BY DEF ParseAck, Restrict
  <2>3. buf = ParseAck(kept, p)
    BY DEF kept
  <2>4. \A sn \in DOMAIN snd_buf[e] : sn >= p.una \/ sn < p.una
    BY <1>1
  <2> HIDE DEF buf
  <2> QED BY <2>1, <2>2, <2>3, <2>4
<1> HIDE DEF buf
<1>4. /\ una \in Nat /\ snd_una[e] <= una /\ una <= snd_nxt[e]
      /\ DOMAIN buf \subseteq una..(snd_nxt[e] - 1)
  <2>1. CASE DOMAIN buf = {}
    BY <1>1, <2>1 DEF ShrinkBuf
  <2>2. CASE DOMAIN buf # {}
    <3>1. una = Min(DOMAIN buf)
      BY <2>2 DEF ShrinkBuf
    <3>2. DOMAIN buf \subseteq Nat /\ DOMAIN buf \subseteq snd_una[e]..(snd_nxt[e] - 1)
      BY <1>1, <1>3
    <3>3. una \in DOMAIN buf /\ \A y \in DOMAIN buf : una <= y
      BY <2>2, <3>1, <3>2, MinOfNat
    <3> HIDE DEF una
    <3> QED BY <1>1, <3>2, <3>3
  <2> QED BY <2>1, <2>2, Zenon
<1> HIDE DEF una
<1>5. DOMAIN new = DOMAIN buf /\ \A sn \in DOMAIN buf : new[sn] \in Unacked
  <2>1. \A sn \in DOMAIN buf : buf[sn] \in Unacked
    BY <1>1, <1>3
  <2>2. ASSUME NEW x \in Unacked
        PROVE  [x EXCEPT !.fastack = Min({x.fastack + 1, FastResend})] \in Unacked
    <3>1. Min({x.fastack + 1, FastResend}) \in Int
      BY MinOfTwo, Constants DEF Unacked
    <3> QED BY <3>1 DEF Unacked
  <2>3. CASE new = buf
    BY <2>1, <2>3
  <2>4. CASE new = [s \in DOMAIN buf |->
                      IF s < p.sn THEN [buf[s] EXCEPT !.fastack = Min({@ + 1, FastResend})]
                                  ELSE buf[s]]
    <3> HIDE DEF new
    <3> QED BY <2>1, <2>2, <2>4, Zenon
  <2> QED BY <2>3, <2>4, Zenon DEF ParseFastack
<1> HIDE DEF new
<1>6. DOMAIN snd_buf = End /\ DOMAIN snd_una = End
  BY Zenon DEF SenderOK
<1>7. /\ snd_buf'[e] = new /\ snd_una'[e] = una
      /\ \A d \in End \ {e} : snd_buf'[d] = snd_buf[d] /\ snd_una'[d] = snd_una[d]
  BY <1>2, <1>6
<1>8. SenderOK'
  <2>1. /\ snd_una' \in [End -> Nat] /\ rmt_wnd' \in [End -> Nat]
        /\ snd_buf' = [d \in End |-> snd_buf'[d]]
    BY <1>1, <1>2, <1>4, <1>6, Zenon DEF SenderOK
  <2>2. ASSUME NEW d \in End
        PROVE  /\ snd_una'[d] <= snd_nxt'[d] /\ snd_nxt'[d] <= snd_una'[d] + SndWnd
               /\ DOMAIN snd_buf'[d] \subseteq snd_una'[d]..(snd_nxt'[d] - 1)
               /\ \A sn \in DOMAIN snd_buf'[d] : snd_buf'[d][sn] \in Unacked
    <3>1. CASE d = e
      <4>1. snd_nxt[e] <= una + SndWnd
        BY <1>1, <1>4, Constants
      <4> QED BY <3>1, <4>1, <1>2, <1>4, <1>5, <1>7
    <3>2. CASE d # e
      BY <3>2, <1>2, <1>7 DEF SenderOK
    <3> QED BY <3>1, <3>2
  <2> QED BY <1>2, <2>1, <2>2, Zenon DEF SenderOK
<1> QED BY <1>2, <1>3, <1>5, <1>7, <1>8

(* ikcp_input: a datagram is honest, so what it removes from the send buffer is *)
(* held by the far end.                                                         *)
LEMMA InputKeeps ==
    ASSUME Inv, NEW e \in End, NEW p \in net, Input(e, p)
    PROVE  Inv'
<1> USE DEF Inv
<1>1. /\ p.to = e /\ net' = net \ {p}
      /\ rmt_wnd' = [rmt_wnd EXCEPT ![e] = p.wnd]
      /\ ParseAcks(e, p)
      /\ UNCHANGED <<stream, sent>>
  BY DEF Input, user
<1>2. ParseData(e, p) \/ UNCHANGED rcvVars
  BY DEF Input
<1>3. Honest(p) /\ p \in Datagram
  BY DEF NetHonest, Honest
<1>4. /\ SenderOK' /\ snd_nxt' = snd_nxt
      /\ \A d \in End \ {e} : snd_buf'[d] = snd_buf[d]
      /\ \A sn \in DOMAIN snd_buf[e] :
            sn \in DOMAIN snd_buf'[e] \/ sn < p.una \/ (p.cmd = "ACK" /\ sn = p.sn)
  BY <1>1, <1>3, ParseAcksKeeps, Zenon
<1>5. ReceiverOK' /\ KeepsHeld /\ AcksHonest'
  <2>1. CASE ParseData(e, p)
    BY <1>3, <2>1, ParseDataKeeps
  <2>2. CASE UNCHANGED rcvVars
    BY <2>2, StillHeld DEF rcvVars, AcksHonest, Held
  <2> QED BY <1>2, <2>1, <2>2
<1>6. NetHonest'
  BY <1>1, <1>5, HonestStays DEF NetHonest
<1>7. ASSUME NEW d \in End, NEW sn \in 0..(snd_nxt[d] - 1), sn \in DOMAIN snd_buf[d]
      PROVE  sn \in DOMAIN snd_buf'[d] \/ Held(Other[d], sn)
  <2>1. CASE d # e
    BY <1>4, <1>7, <2>1
  <2>2. CASE d = e
    <3>1. CASE sn < p.una
      <4>1. /\ p.una \in Nat /\ p.una <= rcv_nxt[Other[e]] /\ rcv_nxt[Other[e]] \in Nat
            /\ snd_nxt[e] \in Nat
        BY <1>1, <1>3, Constants, Zenon DEF Honest, Datagram, ReceiverOK, SenderOK
      <4> QED BY <2>2, <3>1, <4>1 DEF Held
    <3>2. CASE p.cmd = "ACK" /\ sn = p.sn
      BY <1>1, <1>3, <2>2, <3>2 DEF Honest
    <3> QED BY <1>4, <1>7, <2>2, <3>1, <3>2
  <2> QED BY <2>1, <2>2
<1>8. NothingForgotten'
  <2> SUFFICES ASSUME NEW d \in End, NEW sn \in 0..(snd_nxt[d] - 1)
               PROVE  sn \in DOMAIN snd_buf'[d] \/ Held(Other[d], sn)'
    BY <1>4 DEF NothingForgotten
  <2>1. sn \in DOMAIN snd_buf'[d] \/ Held(Other[d], sn)
    BY <1>7 DEF NothingForgotten
  <2>2. Other[d] \in End /\ sn \in Nat
    BY Constants DEF SenderOK
  <2> QED BY <1>5, <2>1, <2>2 DEF KeepsHeld
<1>9. UserOK'
  BY <1>1 DEF UserOK
<1> QED BY <1>4, <1>5, <1>6, <1>8, <1>9

(* What enters the window is in the queue and fits the send window.          *)
LEMMA RoomFacts ==
    ASSUME SenderOK, NEW e \in End
    PROVE  /\ Room(e) \in Nat /\ Len(snd_queue[e]) \in Nat /\ Room(e) <= Len(snd_queue[e])
           /\ Room(e) > 0 => snd_nxt[e] + Room(e) <= snd_una[e] + SndWnd
<1> DEFINE len == Len(snd_queue[e])
           wnd == Min({SndWnd, rmt_wnd[e]})
           gap == snd_una[e] + wnd - snd_nxt[e]
<1>1. /\ len \in Nat /\ snd_una[e] \in Nat /\ snd_nxt[e] \in Nat /\ rmt_wnd[e] \in Nat
  BY LenProperties DEF SenderOK
<1>2. wnd \in Int /\ wnd <= SndWnd
  BY <1>1, MinOfTwo, Constants
<1>3. Room(e) = Max({0, Min({len, gap})})
  BY DEF Room
<1> HIDE DEF len, wnd
<1>4. gap \in Int
  BY <1>1, <1>2
<1> HIDE DEF gap
<1> DEFINE low == Min({len, gap})
<1>5. low \in Int /\ low <= len /\ low <= gap
  BY <1>1, <1>4, MinOfTwo
<1> HIDE DEF low
<1>6. Room(e) = IF 0 >= low THEN 0 ELSE low
  BY <1>3, <1>5, MaxOfTwo DEF low
<1>7. Room(e) \in Nat /\ Room(e) <= len
  BY <1>1, <1>5, <1>6
<1>8. Room(e) > 0 => Room(e) <= gap
  BY <1>4, <1>5, <1>6
<1>9. Room(e) <= gap => snd_nxt[e] + Room(e) <= snd_una[e] + SndWnd
  BY <1>1, <1>2, <1>7, Constants DEF gap
<1> QED BY <1>1, <1>7, <1>8, <1>9 DEF len

(* Every datagram of a flush tells the truth about its sender.               *)
LEMMA PacketHonest ==
    ASSUME Inv, NEW e \in End, NEW cmd \in {"PUSH", "ACK", "WASK", "WINS"},
           NEW sn \in Nat, NEW seg \in Segment, cmd = "ACK" => Held(e, sn)
    PROVE  Honest(Packet(e, cmd, sn, seg))
<1> USE DEF Inv
<1> DEFINE p == Packet(e, cmd, sn, seg)
<1>1. Other[e] \in End /\ Other[Other[e]] = e /\ rcv_nxt[e] \in Nat
  BY Constants DEF ReceiverOK
<1>2. WndUnused(e) \in Nat
  <2>1. Len(rcv_queue[e]) \in Nat
    BY LenProperties DEF ReceiverOK
  <2> QED BY <2>1, MaxOfTwo, Constants DEF WndUnused
<1>3. [seg EXCEPT !.frg = @ % FrgMod] \in Segment
  <2>1. seg.frg % FrgMod \in Int
    BY Constants DEF Segment
  <2> QED BY <2>1 DEF Segment
<1>4. /\ p.to = Other[e] /\ p.cmd = cmd /\ p.sn = sn /\ p.una = rcv_nxt[e]
  BY DEF Packet
<1>5. p \in Datagram
  BY <1>1, <1>2, <1>3 DEF Packet, Datagram
<1> HIDE DEF p
<1>6. Honest(p)
  BY <1>1, <1>4, <1>5 DEF Honest
<1> QED BY <1>6 DEF p

(* The send buffer with what enters the window in a flush.                   *)
Filled(e) == Inserted(snd_buf[e], Entered(e))

(* It lies between snd_una and the new snd_nxt, without a gap in its new part. *)
LEMMA FilledFacts ==
    ASSUME SenderOK, NEW e \in End
    PROVE  /\ DOMAIN Filled(e) = DOMAIN snd_buf[e] \cup (snd_nxt[e]..(snd_nxt[e] + Room(e) - 1))
           /\ DOMAIN Filled(e) \subseteq snd_una[e]..(snd_nxt[e] + Room(e) - 1)
           /\ \A sn \in DOMAIN Filled(e) : Filled(e)[sn] \in Unacked
<1> DEFINE buf == Filled(e)
           nxt == snd_nxt[e]
           room == Room(e)
           new == Entered(e)
<1>1. /\ nxt \in Nat /\ snd_una[e] \in Nat /\ snd_una[e] <= nxt
      /\ DOMAIN snd_buf[e] \subseteq snd_una[e]..(nxt - 1)
      /\ \A sn \in DOMAIN snd_buf[e] : snd_buf[e][sn] \in Unacked
      /\ snd_queue[e] \in Seq(Segment)
  BY DEF SenderOK
<1>2. room \in Nat /\ Len(snd_queue[e]) \in Nat /\ room <= Len(snd_queue[e])
  BY RoomFacts
<1>3. new = [sn \in nxt..(nxt + room - 1) |->
                [seg |-> snd_queue[e][sn - nxt + 1], xmit |-> 0, fastack |-> 0]]
  BY DEF Entered
<1> HIDE DEF room, nxt
<1>4. \A sn \in nxt..(nxt + room - 1) : new[sn] \in Unacked
  <2> TAKE sn \in nxt..(nxt + room - 1)
  <2>1. sn - nxt + 1 \in 1..Len(snd_queue[e])
    BY <1>1, <1>2
  <2>2. snd_queue[e][sn - nxt + 1] \in Segment
    BY <1>1, <2>1, ElementOfSeq
  <2> QED BY <1>3, <2>2 DEF Unacked
<1>5. DOMAIN new = nxt..(nxt + room - 1) /\ buf = Inserted(snd_buf[e], new)
  BY <1>3 DEF Filled
<1> HIDE DEF new, buf
<1>6. /\ DOMAIN buf = DOMAIN snd_buf[e] \cup (nxt..(nxt + room - 1))
      /\ \A sn \in DOMAIN buf : buf[sn] = IF sn \in DOMAIN snd_buf[e] THEN snd_buf[e][sn] ELSE new[sn]
  BY <1>5 DEF Inserted
<1>7. DOMAIN buf \subseteq snd_una[e]..(nxt + room - 1)
  BY <1>1, <1>2, <1>6
<1>8. \A sn \in DOMAIN buf : buf[sn] \in Unacked
  BY <1>1, <1>4, <1>6
<1> QED BY <1>6, <1>7, <1>8 DEF buf, nxt, room

(* ikcp_flush: new segments enter the send buffer, acknowledgements of what is *)
(* held leave.                                                                 *)
LEMMA FlushKeeps ==
    ASSUME Inv, NEW e \in End, NEW expired, NEW probeTimer, Flush(e, expired, probeTimer)
    PROVE  Inv'
<1> USE DEF Inv
<1> DEFINE buf  == Filled(e)
           nxt  == snd_nxt[e] + Room(e)
           out  == {sn \in DOMAIN buf : NeedSend(buf[sn], sn \in expired)}
           new  == [sn \in DOMAIN buf |-> Transmit(buf[sn], sn \in expired)]
           push == {Packet(e, "PUSH", sn, buf[sn].seg) : sn \in out}
           packets == Acks(e) \cup ProbePackets(e, Probes(e, probeTimer)) \cup push
           queue == SubSeq(snd_queue[e], Room(e) + 1, Len(snd_queue[e]))
<1>1. /\ acklist' = [acklist EXCEPT ![e] = {}]
      /\ UNCHANGED <<snd_una, rmt_wnd, rcv_buf, rcv_queue, rcv_nxt, stream, sent>>
      /\ snd_nxt' = [snd_nxt EXCEPT ![e] = nxt]
      /\ snd_queue' = [snd_queue EXCEPT ![e] = queue]
  BY DEF Flush, user
<1>2. snd_buf' = [snd_buf EXCEPT ![e] = new] /\ Output(packets)
  <2> HIDE DEF Inv
  <2>1. PICK b \in {Filled(e)} :
          LET send == {sn \in DOMAIN b : NeedSend(b[sn], sn \in expired)} IN
          /\ snd_buf' = [snd_buf EXCEPT ![e] =
                [sn \in DOMAIN b |-> Transmit(b[sn], sn \in expired)]]
          /\ Output(Acks(e) \cup ProbePackets(e, Probes(e, probeTimer))
                            \cup {Packet(e, "PUSH", sn, b[sn].seg) : sn \in send})
    BY Zenon DEF Flush, Filled
  <2>2. b = buf
    OBVIOUS
  <2> QED BY <2>1, <2>2, Zenon
<1>3. /\ DOMAIN buf = DOMAIN snd_buf[e] \cup (snd_nxt[e]..(nxt - 1))
      /\ DOMAIN buf \subseteq snd_una[e]..(nxt - 1)
      /\ \A sn \in DOMAIN buf : buf[sn] \in Unacked
  <2>1. snd_nxt[e] + Room(e) - 1 = nxt - 1
    BY RoomFacts DEF SenderOK
  <2> QED BY <2>1, FilledFacts
<1> HIDE DEF buf
<1>4. /\ snd_nxt[e] \in Nat /\ snd_una[e] \in Nat /\ nxt \in Nat /\ snd_nxt[e] <= nxt
      /\ snd_una[e] <= nxt /\ nxt <= snd_una[e] + SndWnd
  <2>1. /\ snd_nxt[e] \in Nat /\ snd_una[e] \in Nat /\ snd_una[e] <= snd_nxt[e]
        /\ snd_nxt[e] <= snd_una[e] + SndWnd
    BY DEF SenderOK
  <2> QED BY <2>1, RoomFacts, Constants
<1>5. queue \in Seq(Segment)
  <2>1. snd_queue[e] \in Seq(Segment)
    BY DEF SenderOK
  <2>2. Room(e) \in Nat /\ Len(snd_queue[e]) \in Nat
    BY RoomFacts
  <2>3. \A i \in (Room(e) + 1)..Len(snd_queue[e]) : snd_queue[e][i] \in Segment
    BY <2>1, <2>2, ElementOfSeq
  <2>4. Room(e) + 1 \in Int /\ Len(snd_queue[e]) \in Int
    BY <2>2
  <2> QED BY <2>3, <2>4, SubSeqProperties, Zenon
<1> HIDE DEF nxt, queue
<1>6. DOMAIN new = DOMAIN buf /\ \A sn \in DOMAIN buf : new[sn] \in Unacked
  <2>1. ASSUME NEW x \in Unacked, NEW late PROVE Transmit(x, late) \in Unacked
    <3>1. CASE ~NeedSend(x, late)
      BY <3>1 DEF Transmit
    <3>2. CASE NeedSend(x, late)
      <4> DEFINE f == IF x.xmit > 0 /\ ~late THEN 0 ELSE x.fastack
      <4>1. x.xmit + 1 \in Int /\ f \in Int
        BY DEF Unacked
      <4>2. Transmit(x, late) = [x EXCEPT !.xmit = x.xmit + 1, !.fastack = f]
        BY <3>2 DEF Transmit, Unacked
      <4> HIDE DEF f
      <4> QED BY <4>1, <4>2, Zenon DEF Unacked
    <3> QED BY <3>1, <3>2
  <2> QED BY <1>3, <2>1
<1> HIDE DEF new
<1>7. DOMAIN snd_buf = End /\ DOMAIN snd_nxt = End /\ DOMAIN snd_queue = End
  BY Zenon DEF SenderOK
<1>8. /\ snd_buf'[e] = new /\ snd_nxt'[e] = nxt
      /\ \A d \in End \ {e} : snd_buf'[d] = snd_buf[d] /\ snd_nxt'[d] = snd_nxt[d]
  BY <1>1, <1>2, <1>7
<1>9. SenderOK'
  <2>1. /\ snd_nxt' \in [End -> Nat] /\ snd_queue' \in [End -> Seq(Segment)]
        /\ snd_buf' = [d \in End |-> snd_buf'[d]]
    BY <1>1, <1>2, <1>4, <1>5, <1>7, Zenon DEF SenderOK
  <2>2. ASSUME NEW d \in End
        PROVE  /\ snd_una'[d] <= snd_nxt'[d] /\ snd_nxt'[d] <= snd_una'[d] + SndWnd
               /\ DOMAIN snd_buf'[d] \subseteq snd_una'[d]..(snd_nxt'[d] - 1)
               /\ \A sn \in DOMAIN snd_buf'[d] : snd_buf'[d][sn] \in Unacked
    <3>1. CASE d = e
      BY <3>1, <1>1, <1>3, <1>4, <1>6, <1>8
    <3>2. CASE d # e
      BY <3>2, <1>1, <1>8 DEF SenderOK
    <3> QED BY <3>1, <3>2
  <2> QED BY <1>1, <2>1, <2>2 DEF SenderOK
<1>10. ReceiverOK' /\ KeepsHeld
  BY <1>1, StillHeld
<1>11. AcksHonest'
  BY <1>1, <1>10 DEF AcksHonest, KeepsHeld
<1>12. \A p \in packets : Honest(p)
  <2>0. NoSeg \in Segment
    BY EmptySeq, Constants DEF NoSeg, Seg, Segment
  <2>1. \A p \in Acks(e) : Honest(p)
    <3>1. \A sn \in acklist[e] : sn \in Nat /\ Held(e, sn)
      BY DEF AcksHonest
    <3> QED BY <2>0, <3>1, PacketHonest DEF Acks
  <2>2. \A p \in ProbePackets(e, Probes(e, probeTimer)) : Honest(p)
    BY <2>0, PacketHonest, Zenon DEF ProbePackets
  <2>3. \A p \in push : Honest(p)
    <3>1. \A sn \in out : sn \in Nat /\ buf[sn].seg \in Segment
      BY <1>3, <1>4 DEF Unacked
    <3> HIDE DEF out
    <3> QED BY <3>1, PacketHonest
  <2> QED BY <2>1, <2>2, <2>3
<1> HIDE DEF packets
<1>13. net' \subseteq net \cup packets
  BY <1>2, Zenon DEF Output, kSubset, Questions
<1>14. NetHonest'
  BY <1>10, <1>12, <1>13, HonestStays DEF NetHonest
<1>15. NothingForgotten'
  <2> SUFFICES ASSUME NEW d \in End, NEW sn \in 0..(snd_nxt'[d] - 1)
               PROVE  sn \in DOMAIN snd_buf'[d] \/ Held(Other[d], sn)'
    BY DEF NothingForgotten
  <2>1. Other[d] \in End /\ sn \in Nat
    BY <1>9, Constants DEF SenderOK
  <2>2. CASE d # e
    BY <2>1, <2>2, <1>8, <1>10 DEF NothingForgotten, KeepsHeld
  <2>3. CASE d = e
    <3>1. CASE sn < snd_nxt[e]
      <4>1. sn \in 0..(snd_nxt[e] - 1)
        BY <1>4, <2>1, <3>1
      <4>2. sn \in DOMAIN snd_buf[e] \/ Held(Other[e], sn)
        BY <4>1, SMTT(40) DEF NothingForgotten
      <4> QED BY <1>3, <1>6, <1>8, <1>10, <2>1, <2>3, <4>2 DEF KeepsHeld
    <3>2. CASE sn >= snd_nxt[e]
      <4>1. sn \in snd_nxt[e]..(nxt - 1)
        BY <1>4, <1>8, <2>1, <2>3, <3>2
      <4> QED BY <1>3, <1>6, <1>8, <2>3, <4>1
    <3> QED BY <1>4, <2>1, <3>1, <3>2
  <2> QED BY <2>2, <2>3
<1>16. UserOK'
  BY <1>1 DEF UserOK
<1> QED BY <1>9, <1>10, <1>11, <1>14, <1>15, <1>16, SMTT(40)

(* Every step keeps the invariant.                                           *)
LEMMA InvStep == Inv /\ [Next]_vars => Inv'
<1> SUFFICES ASSUME Inv, [Next]_vars PROVE Inv'
  OBVIOUS
<1> USE DEF Inv
<1>1. ASSUME ReceiverOK', KeepsHeld, AcksHonest', net' \subseteq net,
             UNCHANGED <<snd_buf, snd_nxt>>
      PROVE  NetHonest' /\ NothingForgotten'
  <2>1. NetHonest'
    BY <1>1, HonestStays DEF NetHonest
  <2>2. NothingForgotten'
    <3> SUFFICES ASSUME NEW d \in End, NEW sn \in 0..(snd_nxt[d] - 1)
                 PROVE  sn \in DOMAIN snd_buf[d] \/ Held(Other[d], sn)'
      BY <1>1 DEF NothingForgotten
    <3>1. sn \in Nat /\ Other[d] \in End
      BY Constants DEF SenderOK
    <3> QED BY <1>1, <3>1 DEF NothingForgotten, KeepsHeld
  <2> QED BY <2>1, <2>2
<1>2. ASSUME NEW e \in End, Send(e) PROVE Inv'
  <2>1. UNCHANGED <<rcv_buf, rcv_queue, rcv_nxt, acklist, net, snd_buf, snd_nxt>>
    BY <1>2, Zenon DEF Send, rcvVars
  <2>2. ReceiverOK' /\ KeepsHeld
    BY <2>1, StillHeld
  <2>3. AcksHonest'
    BY <2>1 DEF AcksHonest, Held
  <2> QED BY <1>1, <1>2, <2>1, <2>2, <2>3, SendKeeps
<1>3. ASSUME NEW e \in End, Recv(e) PROVE Inv'
  <2>1. UNCHANGED <<sndVars, rmt_wnd, acklist, net, stream, sent>>
    BY <1>3 DEF Recv
  <2>2. ReceiverOK' /\ KeepsHeld
    BY <1>3, RecvKeeps
  <2>3. UserOK' /\ SenderOK'
    BY <2>1 DEF UserOK, SenderOK, sndVars
  <2>4. AcksHonest'
    BY <2>1, <2>2 DEF AcksHonest, KeepsHeld
  <2> QED BY <1>1, <2>1, <2>2, <2>3, <2>4 DEF sndVars
<1>4. ASSUME net' \subseteq net,
             UNCHANGED <<sndVars, rmt_wnd, rcvVars, stream, sent>>
      PROVE  Inv'
  <2>1. UserOK' /\ SenderOK'
    BY <1>4 DEF UserOK, SenderOK, sndVars
  <2>2. ReceiverOK' /\ KeepsHeld
    BY <1>4, StillHeld, SMTT(40) DEF rcvVars
  <2>3. AcksHonest'
    BY <1>4 DEF AcksHonest, Held, rcvVars
  <2> QED BY <1>1, <1>4, <2>1, <2>2, <2>3 DEF sndVars
<1>5. ASSUME NEW e \in End, Keepalive(e) PROVE Inv'
  BY <1>4, <1>5 DEF Keepalive, user
<1>6. ASSUME NEW p \in net, Lose(p) PROVE Inv'
  BY <1>4, <1>6 DEF Lose, user
<1>7. CASE UNCHANGED vars
  BY <1>4, <1>7 DEF vars, user
<1> QED BY <1>2, <1>3, <1>5, <1>6, <1>7, InputKeeps, FlushKeeps, Zenon DEF Next

(* The invariant holds throughout.                                           *)
LEMMA InvAlways == Spec => []Inv
BY InitInv, InvStep, PTL DEF Spec

(* Whatever arrives, at most a send window of segments is unacknowledged and at *)
(* most a receive window of them is buffered and queued (ikcp_flush and         *)
(* ikcp_input in ikcp.c), for every choice of windows, sizes and limits.        *)
THEOREM WindowsHold == Spec => []BuffersBounded
<1>1. Inv => BuffersBounded
  BY DEF Inv, SenderOK, ReceiverOK, BuffersBounded
<1> QED BY <1>1, InvAlways, PTL

(* A segment leaves the send buffer (ikcp_parse_ack and ikcp_parse_una in ikcp.c) *)
(* only when the far end holds it, for every choice of windows, sizes and limits, *)
(* however late, often or out of order acknowledgements arrive.                   *)
THEOREM NoSegmentForgotten == Spec => []AckedIsHeld
<1>1. Inv => AckedIsHeld
  BY DEF Inv, NothingForgotten, Held, AckedIsHeld
<1> QED BY <1>1, InvAlways, PTL
=============================================================================
