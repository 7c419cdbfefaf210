----------------------- MODULE ForwardConnection_proof -----------------------
(* What a forwarding connection guarantees, for every size of the buffers and   *)
(* caches, every speed limit and every amount of data: no chunk is lost,       *)
(* repeated or reordered inside it, and no socket has two reads or two writes  *)
(* in flight.                                                                  *)
(*                                                                             *)
(* The functions of the connection are first written without Then; Good says   *)
(* what each of them keeps, and the steps follow from these lemmas.            *)
EXTENDS ForwardConnection, SequenceTheorems, NaturalsInduction, WellFoundedInduction, TLAPS

-----------------------------------------------------------------------------
(* What the functions of the connection compute, without Then.                 *)

LEMMA StartReadIs ==
    ASSUME NEW c, NEW d
    PROVE  StartRead(c, d) =
             IF Reading(d) \notin c.status THEN c
             ELSE [c EXCEPT !.cache[d] = PrepareReadCache(@),
                            !.overlapped = @ \/ c.read[d] /= "none",
                            !.read[d] = IF Source(d) \in c.closed THEN "doomed" ELSE "pending"]
BY DEF StartRead, Then

LEMMA ResumeReadIs ==
    ASSUME NEW c, NEW d
    PROVE  ResumeRead(c, d) =
             IF c.delay_read_more[d] /\ Len(c.cache[d]) < kMaxForwardCacheNums /\ ~HasReachSpeedLimit(c, d)
             THEN StartRead([c EXCEPT !.delay_read_more[d] = FALSE], d)
             ELSE c
BY DEF ResumeRead, Then

LEMMA StopTimersIs ==
    ASSUME NEW c, NEW b
    PROVE  StopTimers(c, b) =
             IF c.tls /\ "server" \in c.closed \ b THEN c
             ELSE [c EXCEPT !.idle = @ /\ c.status \cap (UpstreamBits \cup DownstreamBits) /= {},
                            !.traffic = @ /\ HasReader(c)]
<1> DEFINE F(x) == IF x.tls /\ "server" \in x.closed \ b THEN x
                   ELSE [x EXCEPT !.idle = @ /\ x.status \cap (UpstreamBits \cup DownstreamBits) /= {},
                                  !.traffic = @ /\ HasReader(x)]
<1>1. StopTimers(c, b) = CHOOSE r \in {F(x) : x \in {c}} : TRUE
    BY Zenon DEF StopTimers, Then
<1>2. StopTimers(c, b) = F(c)
    <2> HIDE DEF F
    <2> QED BY <1>1
<1> QED BY <1>2, Zenon

LEMMA IssueWriteIs ==
    ASSUME NEW c, NEW d
    PROVE  IssueWrite(c, d) =
             [c EXCEPT !.overlapped = @ \/ c.write[d] /= "none",
                       !.write[d] = IF Target(d) \in c.fin \cup c.closed THEN "doomed" ELSE "pending",
                       !.out[d] = GetWriteBuffer(c.cache[d])]
BY DEF IssueWrite, Then

LEMMA CloseUpstreamEndsIs ==
    ASSUME NEW c, NEW mask
    PROVE  LET left == c.status \ (mask \cap UpstreamBits)
               last == c.status \cap UpstreamBits /= {} /\ left \cap UpstreamBits = {}
           IN  CloseUpstreamEnds(c, mask) = [c EXCEPT !.status = left, !.closing = @ \/ last]
BY Zenon DEF CloseUpstreamEnds, Then

LEMMA CloseDownstreamEndsIs ==
    ASSUME NEW c, NEW mask
    PROVE  LET bits == DownstreamBits \cup {"ServerConnecting"}
               left == c.status \ (mask \cap bits)
               last == c.status \cap bits /= {} /\ left \cap bits = {}
           IN  CloseDownstreamEnds(c, mask) =
                 [c EXCEPT !.status = left,
                           !.connect = IF mask \cap bits /= {} /\ @ = "waiting" THEN "none" ELSE @,
                           !.closed = IF last THEN @ \cup {"server"} ELSE @,
                           !.fin = IF last THEN @ \cup {"server"} ELSE @]
BY Zenon DEF CloseDownstreamEnds, Then

LEMMA DisconnectIs ==
    ASSUME NEW c0, NEW mask
    PROVE  LET c == CloseUpstreamEnds(HalfClose(c0, mask), mask)
               undns == [c EXCEPT !.status = @ \ (mask \cap {"ProxyDnsResolving"})]
           IN  Disconnect(c0, mask) = StopTimers(CloseDownstreamEnds(undns, mask), c.closed)
BY DEF Disconnect, Then

LEMMA HalfCloseIs ==
    ASSUME NEW c, NEW mask
    PROVE  LET dying == {d \in Dir : Reading(d) \in mask}
               reached == {Target(d) : d \in dying} \ (IF c.connect \in HasPeer THEN {} ELSE {"server"})
               limitless == [c EXCEPT !.fin = @ \cup reached, !.traffic = FALSE, !.window = 0]
           IN  HalfClose(c, mask) = IF dying = {} THEN c
                 ELSE RestartTimeoutIdleCheck(ResumeRead(ResumeRead(limitless, "c2s"), "s2c"))
<1> DEFINE Dying(x) == {d \in Dir : Reading(d) \in mask}
           Reached(x) == {Target(d) : d \in Dying(x)} \ (IF x.connect \in HasPeer THEN {} ELSE {"server"})
           Limitless(x) == [x EXCEPT !.fin = @ \cup Reached(x), !.traffic = FALSE, !.window = 0]
           F(x) == IF Dying(x) = {} THEN x
                   ELSE RestartTimeoutIdleCheck(ResumeRead(ResumeRead(Limitless(x), "c2s"), "s2c"))
<1>1. HalfClose(c, mask) = CHOOSE r \in {F(x) : x \in {c}} : TRUE
    BY Zenon DEF HalfClose, Then
<1>2. HalfClose(c, mask) = F(c)
    <2> HIDE DEF F
    <2> QED BY <1>1
<1> QED BY <1>2, Zenon

LEMMA StartWriteIs ==
    ASSUME NEW c, NEW d
    PROVE  LET cache == DropDrained(c.cache[d])
               need == NeedWrite(cache, c.is_writing[d])
               ready == ResumeRead([c EXCEPT !.cache[d] = cache, !.is_writing[d] = @ \/ need], d)
           IN  StartWrite(c, d) =
                 CASE Writing(d) \notin c.status -> c
                   [] Writing(d) \in c.status /\ need -> IssueWrite(ready, d)
                   [] Writing(d) \in c.status /\ ~need /\ Reading(d) \notin c.status ->
                         HandleDisconnect(ready, {Writing(d)})
                   [] OTHER -> ready
BY DEF StartWrite, Then
-----------------------------------------------------------------------------
(* A cache, whatever is done to it: all its buffers but the last are full, and *)
(* all but the first are unsent.                                               *)
Shape(q) ==
    /\ q \in Seq(Buffer)
    /\ \A i \in 1..Len(q) :
          /\ Len(q[i].data) <= BufferChunks /\ q[i].sent <= Len(q[i].data)
          /\ (i > 1 => q[i].sent = 0) /\ (i < Len(q) => Len(q[i].data) = BufferChunks)

(* The cache holds the chunks n + 1 to m as unsent: buffer i begins after      *)
(* chunk b[i].                                                                 *)
Numbered(q, b, n, m) ==
    /\ b \in [1..Len(q) + 1 -> Nat] /\ b[Len(q) + 1] = m
    /\ \A i \in 1..Len(q) : /\ b[i + 1] = b[i] + Len(q[i].data)
                            /\ \A k \in 1..Len(q[i].data) : q[i].data[k] = b[i] + k
    /\ (q = <<>> => n = m) /\ (q # <<>> => n = b[1] + q[1].sent)

Linked(q, n, m) == \E b \in [1..Len(q) + 1 -> Nat] : Numbered(q, b, n, m)

LEMMA BufferFacts ==
    ASSUME NEW x \in Buffer
    PROVE  /\ x.data \in Seq(Nat) /\ x.sent \in Nat /\ Len(x.data) \in Nat
           /\ \A s \in Seq(Nat) : LET y == [x EXCEPT !.data = s] IN y \in Buffer /\ y.data = s /\ y.sent = x.sent
           /\ \A j \in Nat : LET y == [x EXCEPT !.sent = j] IN y \in Buffer /\ y.data = x.data /\ y.sent = j
BY DEF Buffer

LEMMA PrepareReadCacheKeeps ==
    ASSUME NEW q, Shape(q), NEW n \in Nat, NEW m \in Nat
    PROVE  LET r == PrepareReadCache(q)
           IN  /\ Shape(r) /\ r # <<>> /\ Len(r[Len(r)].data) < BufferChunks
               /\ q # <<>> => r[1] = q[1]
               /\ Linked(q, n, m) => Linked(r, n, m)
<1> DEFINE r == PrepareReadCache(q)
<1>1. CASE ~(q = <<>> \/ Len(q[Len(q)].data) = BufferChunks)
    <2>1. r = q /\ q # <<>> /\ q \in Seq(Buffer) /\ Len(q) \in 1..Len(q)
        BY <1>1 DEF PrepareReadCache, Shape
    <2>2. Len(q[Len(q)].data) < BufferChunks
        BY <1>1, <2>1, ForwardAssumption, SMTT(40) DEF Shape, Buffer
    <2> QED BY <2>1, <2>2
<1>2. CASE q = <<>> \/ Len(q[Len(q)].data) = BufferChunks
    <2>1. q \in Seq(Buffer) /\ r = Append(q, NewBuffer) /\ NewBuffer \in Buffer
        BY <1>2 DEF PrepareReadCache, Shape, NewBuffer, Buffer
    <2>2. r \in Seq(Buffer) /\ Len(r) = Len(q) + 1 /\ r[Len(q) + 1] = NewBuffer /\ Len(q) \in Nat
        BY <2>1
    <2>3. \A i \in 1..Len(q) : r[i] = q[i]
        BY <2>1
    <2>4. NewBuffer.data = <<>> /\ NewBuffer.sent = 0 /\ Len(NewBuffer.data) = 0
        BY DEF NewBuffer
    <2>5. q # <<>> => Len(q) \in 1..Len(q) /\ 1 \in 1..Len(q)
        BY <2>1
    <2> HIDE DEF r
    <2>6. Shape(r)
        <3> SUFFICES ASSUME NEW i \in 1..Len(r)
                     PROVE  /\ Len(r[i].data) <= BufferChunks /\ r[i].sent <= Len(r[i].data)
                            /\ (i > 1 => r[i].sent = 0) /\ (i < Len(r) => Len(r[i].data) = BufferChunks)
            BY <2>2 DEF Shape
        <3>1. CASE i = Len(q) + 1
            BY <2>2, <2>4, <3>1, ForwardAssumption
        <3>2. CASE i \in 1..Len(q)
            <4>1. r[i] = q[i] /\ (i = Len(q) => Len(q[i].data) = BufferChunks)
                BY <1>2, <2>3, <2>5, <3>2
            <4> QED BY <2>2, <3>2, <4>1 DEF Shape
        <3> QED BY <2>2, <3>1, <3>2
    <2>7. ASSUME NEW b, Numbered(q, b, n, m) PROVE Linked(r, n, m)
        <3> DEFINE a == [i \in 1..Len(r) + 1 |-> IF i <= Len(q) + 1 THEN b[i] ELSE m]
        <3>1. b \in [1..Len(q) + 1 -> Nat] /\ b[Len(q) + 1] = m
            BY <2>7 DEF Numbered
        <3>2. a \in [1..Len(r) + 1 -> Nat] /\ a[Len(r) + 1] = m /\ a[Len(q) + 1] = m /\ (\A i \in 1..Len(q) + 1 : a[i] = b[i])
            BY <2>2, <3>1
        <3> HIDE DEF a
        <3>3. \A i \in 1..Len(q) : /\ a[i + 1] = a[i] + Len(r[i].data)
                                  /\ \A k \in 1..Len(r[i].data) : r[i].data[k] = a[i] + k
            BY <2>2, <2>3, <2>7, <3>2, SMTT(40) DEF Numbered
        <3>4. a[Len(q) + 2] = a[Len(q) + 1] + Len(r[Len(q) + 1].data) /\ Len(r[Len(q) + 1].data) = 0
            BY <2>2, <2>4, <3>2
        <3>5. n = a[1] + r[1].sent
            BY <2>2, <2>3, <2>4, <2>5, <2>7, <3>2 DEF Numbered
        <3>6. Numbered(r, a, n, m)
            <4>1. ASSUME NEW i \in 1..Len(r)
                  PROVE  /\ a[i + 1] = a[i] + Len(r[i].data)
                         /\ \A k \in 1..Len(r[i].data) : r[i].data[k] = a[i] + k
                <5>1. CASE i \in 1..Len(q)
                    BY <3>3, <5>1
                <5>2. CASE i = Len(q) + 1
                    BY <2>2, <3>4, <5>2
                <5> QED BY <2>2, <5>1, <5>2
            <4>2. r # <<>>
                BY <2>2
            <4> QED BY <3>2, <3>5, <4>1, <4>2, Zenon DEF Numbered
        <3> QED BY <3>2, <3>6, Zenon DEF Linked
    <2>8. q # <<>> => r[1] = q[1]
        BY <2>3, <2>5
    <2>9. r # <<>> /\ Len(r[Len(r)].data) < BufferChunks
        BY <2>2, <2>4, ForwardAssumption
    <2> QED BY <2>6, <2>7, <2>8, <2>9, Zenon DEF Linked, r
<1> QED BY <1>1, <1>2, Zenon

LEMMA UpdateReadBufferKeeps ==
    ASSUME NEW q, Shape(q), q # <<>>, Len(q[Len(q)].data) < BufferChunks, NEW n \in Nat, NEW m \in Nat
    PROVE  LET r == UpdateReadBuffer(q, m + 1)
           IN  /\ Shape(r) /\ Len(r) = Len(q)
               /\ r[1].sent = q[1].sent /\ Len(r[1].data) >= Len(q[1].data)
               /\ Linked(q, n, m) => Linked(r, n, m + 1)
<1> DEFINE r == UpdateReadBuffer(q, m + 1)
           l == Len(q)
           e == [q[l] EXCEPT !.data = Append(@, m + 1)]
<1>1. q \in Seq(Buffer) /\ l \in 1..l /\ 1 \in 1..l /\ q[l] \in Buffer
    BY DEF Shape
<1>2. q[l].data \in Seq(Nat) /\ q[l].sent \in Nat
    BY <1>1 DEF Buffer
<1>3. e \in Buffer /\ e.sent = q[l].sent /\ e.data = Append(q[l].data, m + 1) /\ Len(e.data) = Len(q[l].data) + 1
    <2>1. e = [q[l] EXCEPT !.data = Append(q[l].data, m + 1)]
        BY <1>1 DEF Buffer
    <2>2. Append(q[l].data, m + 1) \in Seq(Nat) /\ Len(Append(q[l].data, m + 1)) = Len(q[l].data) + 1
        BY <1>2
    <2> QED BY <1>1, <2>1, <2>2, BufferFacts, Zenon
<1>4. r = [q EXCEPT ![l] = e]
    BY <1>1 DEF UpdateReadBuffer
<1>5. r \in Seq(Buffer) /\ Len(r) = l /\ r[l] = e /\ (\A i \in 1..l : i # l => r[i] = q[i])
    <2> HIDE DEF r, e
    <2> QED BY <1>1, <1>3, <1>4, ExceptSeq
<1> HIDE DEF r, e
<1>6. Shape(r)
    <2> SUFFICES ASSUME NEW i \in 1..Len(r)
                 PROVE  /\ Len(r[i].data) <= BufferChunks /\ r[i].sent <= Len(r[i].data)
                        /\ (i > 1 => r[i].sent = 0) /\ (i < Len(r) => Len(r[i].data) = BufferChunks)
        BY <1>5 DEF Shape
    <2>1. CASE i = l
        BY <1>1, <1>2, <1>3, <1>5, <2>1, ForwardAssumption, SMTT(40) DEF Shape
    <2>2. CASE i # l
        BY <1>5, <2>2 DEF Shape
    <2> QED BY <2>1, <2>2
<1>7. r[1].sent = q[1].sent /\ Len(r[1].data) >= Len(q[1].data)
    <2>1. q[1] \in Buffer /\ Len(q[1].data) \in Nat
        BY <1>1, BufferFacts
    <2> QED BY <1>1, <1>2, <1>3, <1>5, <2>1
<1>8. ASSUME NEW b, Numbered(q, b, n, m) PROVE Linked(r, n, m + 1)
    <2> DEFINE a == [b EXCEPT ![l + 1] = m + 1]
    <2>1. b \in [1..l + 1 -> Nat] /\ b[l + 1] = m /\ b[l + 1] = b[l] + Len(q[l].data)
        BY <1>1, <1>8, Zenon DEF Numbered
    <2>2. a \in [1..l + 1 -> Nat] /\ a[l + 1] = m + 1 /\ (\A i \in 1..l : a[i] = b[i])
        BY <1>1, <2>1
    <2> HIDE DEF a
    <2>3. ASSUME NEW i \in 1..Len(r)
          PROVE  /\ a[i + 1] = a[i] + Len(r[i].data)
                 /\ \A k \in 1..Len(r[i].data) : r[i].data[k] = a[i] + k
        <3>1. CASE i = l
            <4>1. b[l] \in Nat /\ Len(q[l].data) \in Nat /\ r[i] = e /\ a[i] = b[l]
                BY <1>1, <1>2, <1>5, <2>1, <2>2, <3>1
            <4>2. a[i + 1] = a[i] + Len(r[i].data)
                BY <1>3, <2>1, <2>2, <3>1, <4>1, SMTT(40)
            <4>3. ASSUME NEW k \in 1..Len(e.data) PROVE e.data[k] = b[l] + k
                <5>1. CASE k = Len(q[l].data) + 1
                    <6>1. e.data[k] = m + 1
                        BY <1>2, <1>3, <5>1
                    <6>2. m = b[l] + Len(q[l].data)
                        BY <2>1, Zenon
                    <6> HIDE DEF l
                    <6> QED BY <4>1, <5>1, <6>1, <6>2, SMTT(40)
                <5>2. CASE k \in 1..Len(q[l].data)
                    <6>1. e.data[k] = q[l].data[k]
                        BY <1>2, <1>3, <5>2
                    <6> QED BY <1>1, <1>8, <5>2, <6>1, SMTT(40) DEF Numbered
                <5> QED BY <1>2, <1>3, <5>1, <5>2
            <4> QED BY <4>1, <4>2, <4>3
        <3>2. CASE i # l
            <4>1. i \in 1..l /\ r[i] = q[i] /\ a[i] = b[i] /\ a[i + 1] = b[i + 1]
                BY <1>1, <1>5, <2>2, <3>2, SMTT(40)
            <4> QED BY <1>8, <4>1, Zenon DEF Numbered
        <3> QED BY <3>1, <3>2
    <2>4. n = a[1] + r[1].sent
        BY <1>1, <1>7, <1>8, <2>2 DEF Numbered
    <2>5. r # <<>>
        BY <1>1, <1>5
    <2>6. Numbered(r, a, n, m + 1)
        BY <1>5, <2>2, <2>3, <2>4, <2>5 DEF Numbered
    <2> QED BY <1>5, <2>2, <2>6, Zenon DEF Linked
<1> QED BY <1>5, <1>6, <1>7, <1>8, Zenon DEF Linked, r

LEMMA UpdateWriteBufferKeeps ==
    ASSUME NEW q, Shape(q), q # <<>>, NEW j \in Nat, j <= Len(q[1].data) - q[1].sent, NEW n \in Nat, NEW m \in Nat
    PROVE  LET r == UpdateWriteBuffer(q, j)
           IN  /\ Shape(r) /\ Len(r) = Len(q) /\ r[Len(r)].data = q[Len(q)].data
               /\ Linked(q, n, m) => Linked(r, n + j, m)
<1> DEFINE r == UpdateWriteBuffer(q, j)
           l == Len(q)
           e == [q[1] EXCEPT !.sent = q[1].sent + j]
<1>1. q \in Seq(Buffer) /\ l \in 1..l /\ 1 \in 1..l /\ q[1] \in Buffer
    BY DEF Shape
<1>2. q[1].sent \in Nat /\ Len(q[1].data) \in Nat /\ q[1].sent + j \in Nat
    BY <1>1, BufferFacts
<1>3. e \in Buffer /\ e.sent = q[1].sent + j /\ e.data = q[1].data
    BY <1>1, <1>2, BufferFacts, Zenon
<1>4. r = [q EXCEPT ![1] = e]
    BY <1>1 DEF UpdateWriteBuffer, Buffer
<1>5. r \in Seq(Buffer) /\ Len(r) = l /\ r[1] = e /\ (\A i \in 1..l : i # 1 => r[i] = q[i])
    <2> HIDE DEF r, e
    <2> QED BY <1>1, <1>3, <1>4, ExceptSeq
<1> HIDE DEF r, e
<1>6. \A i \in 1..l : r[i].data = q[i].data
    BY <1>3, <1>5, Zenon
<1>7. Shape(r)
    <2> SUFFICES ASSUME NEW i \in 1..Len(r)
                 PROVE  /\ Len(r[i].data) <= BufferChunks /\ r[i].sent <= Len(r[i].data)
                        /\ (i > 1 => r[i].sent = 0) /\ (i < Len(r) => Len(r[i].data) = BufferChunks)
        BY <1>5 DEF Shape
    <2>1. CASE i = 1
        BY <1>1, <1>2, <1>3, <1>5, <2>1 DEF Shape
    <2>2. CASE i # 1
        BY <1>5, <2>2 DEF Shape
    <2> QED BY <2>1, <2>2
<1>8. ASSUME NEW b, Numbered(q, b, n, m) PROVE Linked(r, n + j, m)
    <2>1. b \in [1..l + 1 -> Nat] /\ b[1] \in Nat /\ n = b[1] + q[1].sent
        BY <1>1, <1>8, SMTT(40) DEF Numbered
    <2>2. n + j = b[1] + r[1].sent
        BY <1>2, <1>3, <1>5, <2>1
    <2>3. r # <<>>
        BY <1>1, <1>5
    <2>4. Numbered(r, b, n + j, m)
        <3>1. \A i \in 1..l : /\ b[i + 1] = b[i] + Len(r[i].data)
                             /\ \A k \in 1..Len(r[i].data) : r[i].data[k] = b[i] + k
            BY <1>6, <1>8, Zenon DEF Numbered
        <3>2. b[l + 1] = m
            BY <1>8, Zenon DEF Numbered
        <3> QED BY <1>5, <2>1, <2>2, <2>3, <3>1, <3>2, Zenon DEF Numbered
    <2> QED BY <1>5, <2>1, <2>4, Zenon DEF Linked
<1> QED BY <1>1, <1>5, <1>6, <1>7, <1>8, Zenon DEF Linked, r

LEMMA GetWriteBufferIs ==
    ASSUME NEW q, Shape(q), q # <<>>, NEW n \in Nat, NEW m \in Nat
    PROVE  LET s == GetWriteBuffer(q)
           IN  /\ s \in Seq(Nat) /\ Len(s) = Len(q[1].data) - q[1].sent
               /\ Linked(q, n, m) => \A k \in 1..Len(s) : s[k] = n + k
<1> DEFINE s == GetWriteBuffer(q)
           a == q[1].data
           j == q[1].sent
<1>1. q \in Seq(Buffer) /\ 1 \in 1..Len(q) /\ q[1] \in Buffer /\ j <= Len(a)
    BY DEF Shape
<1>2. a \in Seq(Nat) /\ j \in Nat /\ Len(a) \in Nat
    BY <1>1, BufferFacts
<1>3. s = SubSeq(a, j + 1, Len(a))
    BY Zenon DEF GetWriteBuffer
<1> HIDE DEF a, j, s
<1>4. s \in Seq(Nat) /\ Len(s) = Len(a) - j /\ (\A k \in 1..Len(s) : s[k] = a[j + k])
    BY <1>1, <1>2, <1>3, SMTT(40)
<1>5. ASSUME NEW b, Numbered(q, b, n, m), NEW k \in 1..Len(s) PROVE s[k] = n + k
    <2>1. b[1] \in Nat /\ n = b[1] + j /\ (\A i \in 1..Len(a) : a[i] = b[1] + i)
        BY <1>1, <1>5 DEF Numbered, a, j
    <2>2. j + k \in 1..Len(a)
        BY <1>2, <1>4
    <2>3. s[k] = b[1] + (j + k)
        BY <1>4, <2>1, <2>2, Zenon
    <2> QED BY <1>2, <2>1, <2>3
<1> QED BY <1>4, <1>5, Zenon DEF Linked, a, j, s

LEMMA DropDrainedKeeps ==
    ASSUME NEW q, Shape(q), q # <<>>, NEW n \in Nat, NEW m \in Nat
    PROVE  LET r == DropDrained(q)
           IN  /\ Shape(r) /\ r # <<>> /\ r[Len(r)] = q[Len(q)]
               /\ ~Drained(q[1]) => r = q
               /\ Drained(r[1]) => Len(r) = 1
               /\ Linked(q, n, m) => Linked(r, n, m)
<1> DEFINE r == DropDrained(q)
           l == Len(q)
           keep == {i \in DOMAIN q : i = l \/ ~Drained(q[i])}
           f == CHOOSE i \in keep : \A j \in keep : i <= j
<1>1. q \in Seq(Buffer) /\ l \in 1..l /\ 1 \in 1..l /\ DOMAIN q = 1..l
    BY DEF Shape
<1>2. r = SubSeq(q, f, l)
    BY Zenon DEF DropDrained
<1>3. ASSUME NEW i \in keep, \A j \in keep : i <= j PROVE f = i
    <2>1. f \in keep /\ \A j \in keep : f <= j
        BY <1>3, Zenon
    <2>2. f \in Nat /\ i \in Nat
        BY <1>1, <2>1
    <2>3. f <= i /\ i <= f
        BY <1>3, <2>1, Zenon
    <2> HIDE DEF f
    <2> QED BY <2>2, <2>3
<1> HIDE DEF r, f
<1>4. CASE l = 1 \/ ~Drained(q[1])
    <2>1. 1 \in keep /\ \A j \in keep : 1 <= j
        BY <1>1, <1>4
    <2>2. f = 1
        BY <1>3, <2>1, Zenon
    <2>3. r = q
        BY <1>1, <1>2, <2>2
    <2> QED BY <1>4, <2>3, Zenon DEF r, l
<1>5. CASE l # 1 /\ Drained(q[1])
    <2>1. 2 \in 1..l /\ l >= 2
        BY <1>1, <1>5
    <2>2. q[2].sent = 0 /\ (2 < l => Len(q[2].data) = BufferChunks) /\ Len(q[1].data) = BufferChunks
        BY <1>1, <2>1 DEF Shape
    <2>3. 2 \in keep
        BY <1>1, <2>1, <2>2, ForwardAssumption DEF Drained
    <2>4. 1 \notin keep
        BY <1>5, Zenon
    <2>5. \A j \in keep : 2 <= j
        BY <1>1, <2>4
    <2>6. f = 2
        BY <1>3, <2>3, <2>5, Zenon
    <2>7. r \in Seq(Buffer) /\ Len(r) = l - 1 /\ (\A i \in 1..l - 1 : r[i] = q[i + 1])
        BY <1>1, <1>2, <2>1, <2>6
    <2> HIDE DEF keep
    <2>8. r # <<>> /\ r[Len(r)] = q[l] /\ r[1] = q[2]
        BY <1>1, <2>1, <2>7
    <2>9. Shape(r)
        <3> SUFFICES ASSUME NEW i \in 1..Len(r)
                     PROVE  /\ Len(r[i].data) <= BufferChunks /\ r[i].sent <= Len(r[i].data)
                            /\ (i > 1 => r[i].sent = 0) /\ (i < Len(r) => Len(r[i].data) = BufferChunks)
            BY <2>7 DEF Shape
        <3>1. r[i] = q[i + 1] /\ i + 1 \in 1..l /\ i + 1 > 1 /\ (i < Len(r) => i + 1 < l)
            BY <1>1, <2>7
        <3> QED BY <3>1 DEF Shape
    <2>10. Drained(r[1]) => Len(r) = 1
        BY <2>1, <2>2, <2>7, <2>8, ForwardAssumption DEF Drained
    <2>11. ASSUME NEW b, Numbered(q, b, n, m) PROVE Linked(r, n, m)
        <3> DEFINE a == [i \in 1..l |-> b[i + 1]]
        <3>1. b \in [1..l + 1 -> Nat] /\ b[l + 1] = m
            BY <2>11, Zenon DEF Numbered
        <3>2. a \in [1..Len(r) + 1 -> Nat] /\ a[Len(r) + 1] = m /\ \A i \in 1..l : a[i] = b[i + 1]
            BY <1>1, <2>7, <3>1
        <3> HIDE DEF a
        <3>3. ASSUME NEW i \in 1..Len(r)
              PROVE  /\ a[i + 1] = a[i] + Len(r[i].data)
                     /\ \A k \in 1..Len(r[i].data) : r[i].data[k] = a[i] + k
            <4>1. i + 1 \in 1..l /\ i \in 1..l /\ r[i] = q[i + 1]
                BY <1>1, <2>7
            <4> QED BY <2>11, <3>2, <4>1 DEF Numbered
        <3>4. n = a[1] + r[1].sent
            <4>1. n = b[1] + q[1].sent /\ b[2] = b[1] + Len(q[1].data) /\ a[1] = b[2] /\ b[2] \in Nat
                BY <1>1, <2>1, <2>11, <3>1, <3>2 DEF Numbered
            <4> QED BY <1>5, <2>2, <2>8, <4>1 DEF Drained
        <3>5. Numbered(r, a, n, m)
            BY <2>8, <3>2, <3>3, <3>4, Zenon DEF Numbered
        <3> QED BY <3>2, <3>5, Zenon DEF Linked
    <2> QED BY <1>5, <2>8, <2>9, <2>10, <2>11, Zenon DEF Linked, r, l
<1> QED BY <1>4, <1>5, Zenon

-----------------------------------------------------------------------------
(* A direction of the connection, of which n chunks are delivered and m read.  *)
GoodDir(c, d, n, m) ==
    /\ Shape(c.cache[d])
    /\ d = "c2s" \/ c.read[d] # "none" \/ c.write[d] # "none" => c.cache[d] # <<>>
    /\ c.delay_read_more[d] => c.read[d] = "none"
    /\ c.read[d] # "none" => Len(c.cache[d][Len(c.cache[d])].data) < BufferChunks
    /\ c.write[d] # "none" =>
          /\ c.is_writing[d]
          /\ Len(c.out[d]) > 0 /\ Len(c.out[d]) <= Len(c.cache[d][1].data) - c.cache[d][1].sent
          /\ \A k \in 1..Len(c.out[d]) : c.out[d][k] = n + k
    /\ c.valid => Linked(c.cache[d], n, m)
    /\ d = "s2c" /\ c.connect # "forwarding" => c.read[d] = "none" /\ ~c.delay_read_more[d]

Good(c, D, T) ==
    /\ c \in Connection /\ ~c.overlapped
    /\ \A d \in Dir : GoodDir(c, d, D[d], T[d])

(* What a function that starts no write leaves alone.                          *)
Kept(c, e) ==
    /\ e.valid = c.valid /\ e.write = c.write /\ e.is_writing = c.is_writing
    /\ \A d \in Dir : c.cache[d] # <<>> => e.cache[d] # <<>> /\ e.cache[d][1] = c.cache[d][1]

(* e is c but for the fields that no direction depends on.                     *)
Aside(c, e) ==
    /\ e \in Connection
    /\ e.cache = c.cache /\ e.is_writing = c.is_writing /\ e.delay_read_more = c.delay_read_more
    /\ e.read = c.read /\ e.write = c.write /\ e.out = c.out /\ e.overlapped = c.overlapped
    /\ e.valid = c.valid /\ (c.connect = "forwarding" => e.connect = "forwarding")

LEMMA KeptTransitive ==
    ASSUME NEW a, NEW b, NEW c, Kept(a, b), Kept(b, c)
    PROVE  Kept(a, c)
BY Zenon DEF Kept

(* The other direction of an update.                                           *)
SameDir(c, e, d) ==
    /\ e.cache[d] = c.cache[d] /\ e.is_writing[d] = c.is_writing[d] /\ e.delay_read_more[d] = c.delay_read_more[d]
    /\ e.read[d] = c.read[d] /\ e.write[d] = c.write[d] /\ e.out[d] = c.out[d]
    /\ (e.valid => c.valid) /\ (c.connect = "forwarding" => e.connect = "forwarding")

LEMMA SameDirKeeps ==
    ASSUME NEW c, NEW e, NEW d \in Dir, SameDir(c, e, d), NEW n, NEW m, GoodDir(c, d, n, m)
    PROVE  GoodDir(e, d, n, m)
BY Zenon DEF SameDir, GoodDir

LEMMA AsideKeeps ==
    ASSUME NEW c, NEW e, Aside(c, e), NEW D, NEW T, Good(c, D, T)
    PROVE  Good(e, D, T) /\ Kept(c, e)
<1>1. \A d \in Dir : SameDir(c, e, d)
    BY Zenon DEF Aside, SameDir
<1>2. \A d \in Dir : GoodDir(e, d, D[d], T[d])
    BY <1>1, SameDirKeeps, Zenon DEF Good
<1>3. Good(e, D, T)
    BY <1>2, Zenon DEF Aside, Good
<1>4. Kept(c, e)
    BY Zenon DEF Aside, Kept
<1> QED BY <1>3, <1>4, Zenon

LEMMA AsideFollows ==
    ASSUME NEW a, NEW c, NEW e, NEW D, NEW T, Kept(a, c), Good(c, D, T), Aside(c, e)
    PROVE  Good(e, D, T) /\ Kept(a, e) /\ e \in Connection
<1>1. Good(e, D, T) /\ Kept(c, e)
    BY AsideKeeps, Zenon
<1> QED BY <1>1, KeptTransitive, Zenon DEF Good

LEMMA StartReadKeeps ==
    ASSUME NEW D \in [Dir -> Nat], NEW T \in [Dir -> Nat], NEW c, Good(c, D, T), NEW d \in Dir,
           c.read[d] = "none", ~c.delay_read_more[d], d = "s2c" => c.connect = "forwarding"
    PROVE  LET e == StartRead(c, d)
           IN  Good(e, D, T) /\ Kept(c, e) /\ (Reading(d) \in c.status => e.cache[d] # <<>>)
<1> DEFINE e == StartRead(c, d)
           q == PrepareReadCache(c.cache[d])
           p == IF Source(d) \in c.closed THEN "doomed" ELSE "pending"
<1>1. c \in Connection /\ ~c.overlapped /\ \A x \in Dir : GoodDir(c, x, D[x], T[x])
    BY Zenon DEF Good
<1>2. Shape(c.cache[d]) /\ D[d] \in Nat /\ T[d] \in Nat
    BY <1>1 DEF GoodDir
<1>3. /\ Shape(q) /\ q # <<>> /\ Len(q[Len(q)].data) < BufferChunks
      /\ c.cache[d] # <<>> => q[1] = c.cache[d][1]
      /\ Linked(c.cache[d], D[d], T[d]) => Linked(q, D[d], T[d])
    BY <1>2, PrepareReadCacheKeeps, Zenon
<1>4. CASE Reading(d) \notin c.status
    BY <1>4, StartReadIs, Zenon DEF Kept
<1>5. CASE Reading(d) \in c.status
    <2>1. e = [c EXCEPT !.cache = [c.cache EXCEPT ![d] = q],
                        !.overlapped = FALSE,
                        !.read = [c.read EXCEPT ![d] = p]]
        <3>1. c.overlapped \in BOOLEAN /\ (c.overlapped \/ c.read[d] # "none") = FALSE
            BY <1>1 DEF Connection
        <3> QED BY <1>1, <1>5, <3>1, StartReadIs, Zenon DEF Connection
    <2>2. q \in Seq(Buffer) /\ p \in Operation /\ p # "none"
        BY <1>3, Zenon DEF Shape, Operation
    <2> HIDE DEF e, q, p
    <2>3. /\ e \in Connection /\ ~e.overlapped
          /\ e.cache = [c.cache EXCEPT ![d] = q] /\ e.read = [c.read EXCEPT ![d] = p]
          /\ e.is_writing = c.is_writing /\ e.delay_read_more = c.delay_read_more
          /\ e.write = c.write /\ e.out = c.out /\ e.valid = c.valid /\ e.connect = c.connect
        BY <1>1, <2>1, <2>2, Zenon DEF Connection
    <2>4. c.cache \in [Dir -> Seq(Buffer)] /\ c.read \in [Dir -> Operation]
        BY <1>1 DEF Connection
    <2>5. e.cache[d] = q /\ e.read[d] = p /\ \A x \in Dir : x # d => e.cache[x] = c.cache[x] /\ e.read[x] = c.read[x]
        BY <2>3, <2>4, Zenon
    <2>6. GoodDir(e, d, D[d], T[d])
        <3>1. GoodDir(c, d, D[d], T[d])
            BY <1>1, Zenon
        <3>2. c.write[d] # "none" => q[1] = c.cache[d][1]
            BY <1>3, <3>1, Zenon DEF GoodDir
        <3> QED BY <1>3, <2>2, <2>3, <2>5, <3>1, <3>2, ZenonT(40) DEF GoodDir
    <2>7. ASSUME NEW x \in Dir, x # d PROVE GoodDir(e, x, D[x], T[x])
        BY <1>1, <2>3, <2>5, <2>7, SameDirKeeps, Zenon DEF SameDir
    <2>8. Kept(c, e)
        BY <1>3, <2>3, <2>5, Zenon DEF Kept
    <2> QED BY <1>3, <2>3, <2>5, <2>6, <2>7, <2>8, Zenon DEF Good, e
<1> QED BY <1>4, <1>5, Zenon

LEMMA ResumeReadKeeps ==
    ASSUME NEW D \in [Dir -> Nat], NEW T \in [Dir -> Nat], NEW c, Good(c, D, T), NEW d \in Dir
    PROVE  LET e == ResumeRead(c, d) IN Good(e, D, T) /\ Kept(c, e)
<1> DEFINE e == ResumeRead(c, d)
           x == [c EXCEPT !.delay_read_more[d] = FALSE]
           resumes == c.delay_read_more[d] /\ Len(c.cache[d]) < kMaxForwardCacheNums /\ ~HasReachSpeedLimit(c, d)
<1>1. c \in Connection /\ ~c.overlapped /\ \A y \in Dir : GoodDir(c, y, D[y], T[y])
    BY Zenon DEF Good
<1>2. CASE ~resumes
    <2>1. e = c
        BY <1>2, ResumeReadIs, Zenon
    <2> QED BY <2>1, Zenon DEF Kept
<1>3. CASE resumes
    <2>1. e = StartRead(x, d)
        BY <1>3, ResumeReadIs, Zenon
    <2>2. /\ x \in Connection /\ x.overlapped = c.overlapped /\ x.cache = c.cache /\ x.read = c.read
          /\ x.is_writing = c.is_writing /\ x.delay_read_more = [c.delay_read_more EXCEPT ![d] = FALSE]
          /\ x.write = c.write /\ x.out = c.out /\ x.valid = c.valid /\ x.connect = c.connect
        BY <1>1, Zenon DEF Connection
    <2>3. c.delay_read_more \in [Dir -> BOOLEAN]
        BY <1>1 DEF Connection
    <2> HIDE DEF x
    <2>4. ~x.delay_read_more[d] /\ \A y \in Dir : y # d => x.delay_read_more[y] = c.delay_read_more[y]
        BY <2>2, <2>3, Zenon
    <2>5. c.read[d] = "none" /\ (d = "s2c" => c.connect = "forwarding")
        BY <1>1, <1>3, Zenon DEF GoodDir
    <2>6. GoodDir(x, d, D[d], T[d])
        <3>1. GoodDir(c, d, D[d], T[d])
            BY <1>1, Zenon
        <3> QED BY <2>2, <2>4, <2>5, <3>1, Zenon DEF GoodDir
    <2>7. ASSUME NEW y \in Dir, y # d PROVE GoodDir(x, y, D[y], T[y])
        BY <1>1, <2>2, <2>4, <2>7, SameDirKeeps, Zenon DEF SameDir
    <2>8. Good(x, D, T)
        BY <1>1, <2>2, <2>6, <2>7, Zenon DEF Good
    <2>9. Good(e, D, T) /\ Kept(x, e)
        <3>1. x.read[d] = "none" /\ (d = "s2c" => x.connect = "forwarding")
            BY <2>2, <2>5, Zenon
        <3> QED BY <2>1, <2>4, <2>8, <3>1, StartReadKeeps, Zenon
    <2>10. Kept(c, x)
        BY <2>2, Zenon DEF Kept
    <2> QED BY <2>9, <2>10, KeptTransitive, Zenon
<1> QED BY <1>2, <1>3, Zenon

LEMMA RestartKeeps ==
    ASSUME NEW c, NEW D, NEW T, Good(c, D, T)
    PROVE  LET e == RestartTimeoutIdleCheck(c) IN Good(e, D, T) /\ Kept(c, e)
<1>1. c \in Connection
    BY Zenon DEF Good
<1>2. Aside(c, RestartTimeoutIdleCheck(c))
    BY <1>1, Zenon DEF Aside, RestartTimeoutIdleCheck, Connection
<1> QED BY <1>2, AsideKeeps, Zenon

LEMMA HalfCloseKeeps ==
    ASSUME NEW D \in [Dir -> Nat], NEW T \in [Dir -> Nat], NEW c, Good(c, D, T), NEW mask
    PROVE  LET e == HalfClose(c, mask) IN Good(e, D, T) /\ Kept(c, e)
<1> DEFINE dying == {d \in Dir : Reading(d) \in mask}
           reached == {Target(d) : d \in dying} \ (IF c.connect \in HasPeer THEN {} ELSE {"server"})
           x == [c EXCEPT !.fin = @ \cup reached, !.traffic = FALSE, !.window = 0]
           y == ResumeRead(x, "c2s")
           z == ResumeRead(y, "s2c")
<1>1. CASE dying = {}
    <2>1. HalfClose(c, mask) = c
        BY <1>1, HalfCloseIs, Zenon
    <2> QED BY <2>1, Zenon DEF Kept
<1>2. CASE dying # {}
    <2>1. HalfClose(c, mask) = RestartTimeoutIdleCheck(z)
        BY <1>2, HalfCloseIs, Zenon
    <2>2. c \in Connection /\ reached \subseteq Side
        BY DEF Good, Target, Side
    <2> HIDE DEF reached
    <2>3. Aside(c, x)
        BY <2>2, Zenon DEF Aside, Connection
    <2> HIDE DEF x
    <2>4. Good(x, D, T) /\ Kept(c, x) /\ "c2s" \in Dir /\ "s2c" \in Dir
        BY <2>3, AsideKeeps, Zenon DEF Dir
    <2>5. Good(y, D, T) /\ Kept(c, y)
        <3>1. Good(y, D, T) /\ Kept(x, y)
            BY <2>4, ResumeReadKeeps, Zenon
        <3> QED BY <2>4, <3>1, KeptTransitive, Zenon
    <2>6. Good(z, D, T) /\ Kept(c, z)
        <3>1. Good(z, D, T) /\ Kept(y, z)
            BY <2>4, <2>5, ResumeReadKeeps, Zenon
        <3> QED BY <2>5, <3>1, KeptTransitive, Zenon
    <2> QED BY <2>1, <2>6, RestartKeeps, KeptTransitive, Zenon
<1> QED BY <1>1, <1>2, Zenon

LEMMA DisconnectKeeps ==
    ASSUME NEW D \in [Dir -> Nat], NEW T \in [Dir -> Nat], NEW c, Good(c, D, T), NEW mask
    PROVE  LET e == Disconnect(c, mask) IN Good(e, D, T) /\ Kept(c, e)
<1> DEFINE h == HalfClose(c, mask)
           u == CloseUpstreamEnds(h, mask)
           v == [u EXCEPT !.status = @ \ (mask \cap {"ProxyDnsResolving"})]
           w == CloseDownstreamEnds(v, mask)
           e == StopTimers(w, u.closed)
<1>1. Disconnect(c, mask) = e
    BY DisconnectIs, Zenon
<1>2. Good(h, D, T) /\ Kept(c, h) /\ h \in Connection
    BY HalfCloseKeeps, Zenon DEF Good
<1> HIDE DEF h
<1>3. Aside(h, u)
    BY <1>2, CloseUpstreamEndsIs, Zenon DEF Aside, Connection
<1>4. Good(u, D, T) /\ Kept(c, u) /\ u \in Connection
    BY <1>2, <1>3, AsideFollows, Zenon
<1> HIDE DEF u
<1>5. Aside(u, v)
    BY <1>4, Zenon DEF Aside, Connection
<1> HIDE DEF v
<1>6. Good(v, D, T) /\ Kept(c, v) /\ v \in Connection
    BY <1>4, <1>5, AsideFollows, Zenon
<1>7. Aside(v, w)
    BY <1>6, CloseDownstreamEndsIs, Zenon DEF Aside, Connection, Side, Phase
<1>8. Good(w, D, T) /\ Kept(c, w) /\ w \in Connection
    BY <1>6, <1>7, AsideFollows, Zenon
<1> HIDE DEF w
<1>9. Aside(w, e)
    BY <1>8, StopTimersIs, ZenonT(40) DEF Aside, Connection, HasReader
<1>10. Good(e, D, T) /\ Kept(c, e)
    BY <1>8, <1>9, AsideFollows, Zenon
<1> QED BY <1>1, <1>10, Zenon

LEMMA HandleDisconnectKeeps ==
    ASSUME NEW D \in [Dir -> Nat], NEW T \in [Dir -> Nat], NEW c, Good(c, D, T), NEW mask
    PROVE  LET e == HandleDisconnect(c, mask) IN Good(e, D, T) /\ Kept(c, e)
BY DisconnectKeeps, Zenon DEF HandleDisconnect

LEMMA IssueWriteKeeps ==
    ASSUME NEW D \in [Dir -> Nat], NEW T \in [Dir -> Nat], NEW c, Good(c, D, T), NEW d \in Dir,
           c.valid, c.write[d] = "none", c.is_writing[d], c.cache[d] # <<>>, ~Drained(c.cache[d][1])
    PROVE  Good(IssueWrite(c, d), D, T)
<1> DEFINE e == IssueWrite(c, d)
           s == GetWriteBuffer(c.cache[d])
           p == IF Target(d) \in c.fin \cup c.closed THEN "doomed" ELSE "pending"
<1>1. c \in Connection /\ ~c.overlapped /\ \A y \in Dir : GoodDir(c, y, D[y], T[y])
    BY Zenon DEF Good
<1>2. Shape(c.cache[d]) /\ D[d] \in Nat /\ T[d] \in Nat /\ (c.valid => Linked(c.cache[d], D[d], T[d]))
    BY <1>1 DEF GoodDir
<1>3. /\ s \in Seq(Nat) /\ Len(s) = Len(c.cache[d][1].data) - c.cache[d][1].sent
      /\ \A k \in 1..Len(s) : s[k] = D[d] + k
    BY <1>2, GetWriteBufferIs, Zenon
<1>4. e = [c EXCEPT !.overlapped = FALSE, !.write = [c.write EXCEPT ![d] = p], !.out = [c.out EXCEPT ![d] = s]]
    <2>1. c.overlapped \in BOOLEAN /\ (c.overlapped \/ c.write[d] # "none") = FALSE
        BY <1>1 DEF Connection
    <2> QED BY <1>1, <2>1, IssueWriteIs, Zenon DEF Connection
<1>5. p \in Operation /\ p # "none"
    BY Zenon DEF Operation
<1>6. Len(s) > 0 /\ Len(s) <= Len(c.cache[d][1].data) - c.cache[d][1].sent
    <2>1. c.cache[d] \in Seq(Buffer) /\ 1 \in 1..Len(c.cache[d]) /\ c.cache[d][1] \in Buffer
        BY <1>2 DEF Shape
    <2>2. c.cache[d][1].sent <= Len(c.cache[d][1].data)
        BY <1>2, <2>1, Zenon DEF Shape
    <2> QED BY <1>3, <2>1, <2>2, BufferFacts, SMTT(40) DEF Drained
<1> HIDE DEF e, s, p
<1>7. /\ e \in Connection /\ ~e.overlapped /\ e.cache = c.cache /\ e.read = c.read
      /\ e.is_writing = c.is_writing /\ e.delay_read_more = c.delay_read_more
      /\ e.write = [c.write EXCEPT ![d] = p] /\ e.out = [c.out EXCEPT ![d] = s]
      /\ e.valid = c.valid /\ e.connect = c.connect
    BY <1>1, <1>3, <1>4, <1>5, Zenon DEF Connection
<1>8. c.write \in [Dir -> Operation] /\ c.out \in [Dir -> Seq(Nat)]
    BY <1>1 DEF Connection
<1>9. e.write[d] = p /\ e.out[d] = s /\ \A y \in Dir : y # d => e.write[y] = c.write[y] /\ e.out[y] = c.out[y]
    BY <1>7, <1>8, Zenon
<1>10. GoodDir(e, d, D[d], T[d])
    <2>1. GoodDir(c, d, D[d], T[d])
        BY <1>1, Zenon
    <2> QED BY <1>3, <1>6, <1>7, <1>9, <2>1, Zenon DEF GoodDir
<1>11. ASSUME NEW y \in Dir, y # d PROVE GoodDir(e, y, D[y], T[y])
    BY <1>1, <1>7, <1>9, <1>11, SameDirKeeps, Zenon DEF SameDir
<1> QED BY <1>7, <1>10, <1>11, Zenon DEF Good, e

LEMMA StartWriteKeeps ==
    ASSUME NEW D \in [Dir -> Nat], NEW T \in [Dir -> Nat], NEW c, Good(c, D, T), NEW d \in Dir,
           c.valid, c.cache[d] # <<>>
    PROVE  Good(StartWrite(c, d), D, T)
<1> DEFINE q == DropDrained(c.cache[d])
           need == NeedWrite(q, c.is_writing[d])
           x == [c EXCEPT !.cache[d] = q, !.is_writing[d] = @ \/ need]
           ready == ResumeRead(x, d)
<1>1. c \in Connection /\ ~c.overlapped /\ \A y \in Dir : GoodDir(c, y, D[y], T[y])
    BY Zenon DEF Good
<1>2. Shape(c.cache[d]) /\ D[d] \in Nat /\ T[d] \in Nat
    BY <1>1 DEF GoodDir
<1>3. /\ Shape(q) /\ q # <<>> /\ q[Len(q)] = c.cache[d][Len(c.cache[d])]
      /\ ~Drained(c.cache[d][1]) => q = c.cache[d]
      /\ Drained(q[1]) => Len(q) = 1
      /\ Linked(c.cache[d], D[d], T[d]) => Linked(q, D[d], T[d])
    BY <1>2, DropDrainedKeeps, Zenon
<1>4. need \in BOOLEAN /\ (need => ~c.is_writing[d] /\ ~Drained(q[1]))
    BY <1>3, Zenon DEF NeedWrite
<1>5. StartWrite(c, d) = CASE Writing(d) \notin c.status -> c
                           [] Writing(d) \in c.status /\ need -> IssueWrite(ready, d)
                           [] Writing(d) \in c.status /\ ~need /\ Reading(d) \notin c.status ->
                                 HandleDisconnect(ready, {Writing(d)})
                           [] OTHER -> ready
    BY StartWriteIs, Zenon
<1>6. q \in Seq(Buffer)
    BY <1>3, Zenon DEF Shape
<1> HIDE DEF q, need
<1>7. /\ x \in Connection /\ x.overlapped = c.overlapped
      /\ x.cache = [c.cache EXCEPT ![d] = q] /\ x.read = c.read /\ x.delay_read_more = c.delay_read_more
      /\ x.is_writing = [c.is_writing EXCEPT ![d] = c.is_writing[d] \/ need]
      /\ x.write = c.write /\ x.out = c.out /\ x.valid = c.valid /\ x.connect = c.connect
    BY <1>1, <1>4, <1>6, Zenon DEF Connection
<1>8. c.cache \in [Dir -> Seq(Buffer)] /\ c.is_writing \in [Dir -> BOOLEAN] /\ c.write \in [Dir -> Operation]
    BY <1>1 DEF Connection
<1> HIDE DEF x
<1>9. /\ x.cache[d] = q /\ x.is_writing[d] = (c.is_writing[d] \/ need)
      /\ \A y \in Dir : y # d => x.cache[y] = c.cache[y] /\ x.is_writing[y] = c.is_writing[y]
    BY <1>7, <1>8, Zenon
<1>10. GoodDir(x, d, D[d], T[d])
    <2>1. GoodDir(c, d, D[d], T[d])
        BY <1>1, Zenon
    <2>2. c.write[d] # "none" => q = c.cache[d]
        <3>1. c.cache[d] \in Seq(Buffer) /\ 1 \in 1..Len(c.cache[d]) /\ c.cache[d][1] \in Buffer
            BY <1>2 DEF Shape
        <3>2. c.write[d] # "none" => Len(c.out[d]) > 0 /\ Len(c.out[d]) <= Len(c.cache[d][1].data) - c.cache[d][1].sent
            BY <2>1, Zenon DEF GoodDir
        <3>3. c.out[d] \in Seq(Nat)
            BY <1>1 DEF Connection
        <3>4. c.write[d] # "none" => ~Drained(c.cache[d][1])
            <4>1. Len(c.out[d]) \in Nat /\ Len(c.cache[d][1].data) \in Nat /\ c.cache[d][1].sent \in Nat
                BY <3>1, <3>3, BufferFacts
            <4> QED BY <3>2, <4>1 DEF Drained
        <3> QED BY <1>3, <3>4, Zenon
    <2>3. CASE c.write[d] = "none"
        BY <1>3, <1>7, <1>9, <2>1, <2>3, Zenon DEF GoodDir
    <2>4. CASE c.write[d] # "none"
        <3>1. x.cache[d] = c.cache[d] /\ (c.is_writing[d] => x.is_writing[d])
            BY <1>9, <2>2, <2>4, Zenon
        <3> QED BY <1>7, <2>1, <3>1, ZenonT(40) DEF GoodDir
    <2> QED BY <2>3, <2>4, Zenon
<1>11. ASSUME NEW y \in Dir, y # d PROVE GoodDir(x, y, D[y], T[y])
    BY <1>1, <1>7, <1>9, <1>11, SameDirKeeps, ZenonT(40) DEF SameDir
<1>12. Good(x, D, T)
    BY <1>1, <1>7, <1>10, <1>11, Zenon DEF Good
<1>13. Good(ready, D, T) /\ Kept(x, ready)
    BY <1>12, ResumeReadKeeps, Zenon
<1> HIDE DEF ready
<1>14. ASSUME need PROVE Good(IssueWrite(ready, d), D, T)
    <2>1. ~c.is_writing[d] /\ c.write[d] = "none"
        BY <1>1, <1>4, <1>14, Zenon DEF GoodDir
    <2>2. ready.valid /\ ready.write[d] = "none" /\ ready.is_writing[d] /\ ready.cache[d] # <<>> /\ ready.cache[d][1] = q[1]
        <3>1. /\ ready.valid = x.valid /\ ready.write = x.write /\ ready.is_writing = x.is_writing
              /\ x.cache[d] # <<>> => ready.cache[d] # <<>> /\ ready.cache[d][1] = x.cache[d][1]
            BY <1>13, Zenon DEF Kept
        <3>2. x.valid /\ x.write[d] = "none" /\ x.is_writing[d] /\ x.cache[d] = q
            BY <1>7, <1>9, <1>14, <2>1, Zenon
        <3> QED BY <1>3, <3>1, <3>2, Zenon
    <2> QED BY <1>4, <1>13, <1>14, <2>2, IssueWriteKeeps, Zenon
<1>15. Good(HandleDisconnect(ready, {Writing(d)}), D, T)
    BY <1>13, HandleDisconnectKeeps, Zenon
<1> QED BY <1>4, <1>5, <1>13, <1>14, <1>15

LEMMA StartForwardKeeps ==
    ASSUME NEW D \in [Dir -> Nat], NEW T \in [Dir -> Nat], NEW c, Good(c, D, T), c.valid, c.connect # "forwarding"
    PROVE  Good(StartForward(c), D, T)
<1> DEFINE toggled == IF "ServerConnecting" \in c.status THEN c.status \ {"ServerConnecting"}
                      ELSE c.status \cup {"ServerConnecting"}
           open == [c EXCEPT !.status = toggled \cup DownstreamBits, !.connect = "forwarding",
                             !.window = SpeedLimit, !.recv_window = [d \in Dir |-> SpeedLimit],
                             !.traffic = SpeedLimit > 0]
           e == StartRead(open, "s2c")
<1>1. c \in Connection /\ \A d \in Dir : GoodDir(c, d, D[d], T[d])
    BY Zenon DEF Good
<1>2. StartForward(c) = StartWrite(e, "c2s")
    BY Zenon DEF StartForward
<1>3. "c2s" \in Dir /\ "s2c" \in Dir
    BY Zenon DEF Dir
<1>4. /\ toggled \cup DownstreamBits \subseteq TrafficProxyCloseAll
      /\ [d \in Dir |-> SpeedLimit] \in [Dir -> 0..SpeedLimit] /\ (SpeedLimit > 0) \in BOOLEAN
    BY <1>1, ForwardAssumption DEF Connection, TrafficProxyCloseAll
<1> HIDE DEF toggled
<1>5. Aside(c, open)
    BY <1>1, <1>4, Zenon DEF Aside, Connection, Phase
<1>6. open.connect = "forwarding" /\ open.read = c.read /\ open.delay_read_more = c.delay_read_more
    BY <1>1 DEF Connection
<1> HIDE DEF open
<1>7. Good(open, D, T)
    BY <1>5, AsideKeeps, Zenon
<1>8. open.read["s2c"] = "none" /\ ~open.delay_read_more["s2c"]
    BY <1>1, <1>3, <1>6, Zenon DEF GoodDir
<1>9. Good(e, D, T) /\ e.valid
    <2>1. Good(e, D, T) /\ Kept(open, e)
        BY <1>3, <1>6, <1>7, <1>8, StartReadKeeps, Zenon
    <2> QED BY <1>5, <2>1, Zenon DEF Aside, Kept
<1>10. e.cache["c2s"] # <<>>
    BY <1>3, <1>9, Zenon DEF Good, GoodDir
<1> QED BY <1>2, <1>3, <1>9, <1>10, StartWriteKeeps, Zenon

-----------------------------------------------------------------------------
(* The inductive invariant.                                                    *)
Delivered == [d \in Dir |-> Len(delivered[d])]

Inv ==
    /\ Good(conn, Delivered, taken)
    /\ \A d \in Dir : \A i \in 1..Len(delivered[d]) : delivered[d][i] = i
    /\ total \in [Dir -> Nat] /\ ends \in [Dir -> BOOLEAN] /\ taken \in [Dir -> Nat]
    /\ delivered \in [Dir -> Seq(Nat)] /\ broken \subseteq Side /\ aborted \in BOOLEAN

LEMMA DeliveredType ==
    ASSUME delivered \in [Dir -> Seq(Nat)]
    PROVE  Delivered \in [Dir -> Nat] /\ \A d \in Dir : Delivered[d] = Len(delivered[d])
BY DEF Delivered

(* A step that moves no data.                                                  *)
LEMMA NoDataMoves ==
    ASSUME Inv, UNCHANGED <<script, data>>, Good(conn', Delivered, taken), broken' \subseteq Side, aborted' \in BOOLEAN
    PROVE  Inv'
<1>1. total' = total /\ ends' = ends /\ taken' = taken /\ delivered' = delivered
    BY Zenon DEF script, data
<1>2. Delivered' = Delivered
    BY <1>1, Zenon DEF Delivered
<1> QED BY <1>1, <1>2, Zenon DEF Inv

(* What the steps of one handler that leave both directions alone need.        *)
LEMMA ConnectsOver ==
    ASSUME Inv, conn.connect # "forwarding", NEW p \in Phase
    PROVE  /\ Aside(conn, [conn EXCEPT !.connect = p])
           /\ Good([conn EXCEPT !.connect = p], Delivered, taken)
<1>1. conn \in Connection /\ Good(conn, Delivered, taken)
    BY Zenon DEF Inv, Good
<1>2. Aside(conn, [conn EXCEPT !.connect = p])
    BY <1>1, Zenon DEF Aside, Connection
<1> QED BY <1>1, <1>2, AsideKeeps, Zenon

(* What Inv says of the state a step starts from.                              *)
Started ==
    /\ conn \in Connection /\ Good(conn, Delivered, taken)
    /\ Delivered \in [Dir -> Nat] /\ taken \in [Dir -> Nat]
    /\ broken \subseteq Side /\ aborted \in BOOLEAN

LEMMA StartedFrom == Inv => Started
BY DeliveredType, Zenon DEF Inv, Good, Started

LEMMA ResolvedStep ==
    ASSUME Inv, Resolved
    PROVE  Inv'
<1> DEFINE over == [conn EXCEPT !.connect = "none"]
           st == IF "ProxyDnsResolving" \in conn.status THEN conn.status \ {"ProxyDnsResolving"}
                 ELSE conn.status \cup {"ProxyDnsResolving"}
           c == [over EXCEPT !.status = st]
           x == [c EXCEPT !.status = @ \cup {"ServerConnecting"}, !.connect = "connecting"]
<1>1. Started
    BY StartedFrom, Zenon
<1>2. conn.connect = "resolving" /\ UNCHANGED <<script, broken, data>>
    BY Zenon DEF Resolved
<1>3. c = [over EXCEPT !.status = IF "ProxyDnsResolving" \in @ THEN @ \ {"ProxyDnsResolving"}
                                  ELSE @ \cup {"ProxyDnsResolving"}]
    BY <1>1 DEF Connection, Started
<1>4. \/ (conn' = over \/ conn' = x \/ conn' = c) /\ UNCHANGED aborted
      \/ (conn' = over \/ conn' = HandleDisconnect(c, TrafficProxyCloseAll)) /\ aborted' = TRUE
    <2> HIDE DEF c
    <2> QED BY <1>3, Zenon DEF Resolved, Handle
<1>5. st \subseteq TrafficProxyCloseAll /\ "ServerConnecting" \in TrafficProxyCloseAll
    BY <1>1 DEF Started, Connection, TrafficProxyCloseAll
<1> HIDE DEF st
<1>6. Aside(conn, over) /\ Aside(conn, c) /\ Aside(conn, x)
    BY <1>1, <1>2, <1>5, Zenon DEF Started, Aside, Connection, Phase
<1> HIDE DEF over, c, x
<1>7. Good(over, Delivered, taken) /\ Good(c, Delivered, taken) /\ Good(x, Delivered, taken)
    BY <1>1, <1>6, AsideKeeps, Zenon DEF Started
<1>8. Good(HandleDisconnect(c, TrafficProxyCloseAll), Delivered, taken)
    BY <1>1, <1>7, HandleDisconnectKeeps, Zenon DEF Started
<1>9. Good(conn', Delivered, taken) /\ aborted' \in BOOLEAN
    BY <1>1, <1>4, <1>7, <1>8, Zenon DEF Started
<1> QED BY <1>1, <1>2, <1>9, NoDataMoves, Zenon DEF Started

LEMMA EstablishStep ==
    ASSUME Inv, Establish
    PROVE  Inv'
<1>1. Started
    BY StartedFrom, Zenon
<1>2. conn.connect # "forwarding" /\ UNCHANGED <<script, broken, data, aborted>>
    BY Zenon DEF Establish
<1>3. PICK p \in Phase : conn' = [conn EXCEPT !.connect = p]
    BY Zenon DEF Establish, Phase
<1>4. Good(conn', Delivered, taken)
    BY <1>2, <1>3, ConnectsOver, Zenon
<1> QED BY <1>1, <1>2, <1>4, NoDataMoves, Zenon DEF Started

LEMMA ConnectedStep ==
    ASSUME Inv, Connected
    PROVE  Inv'
<1> DEFINE over == [conn EXCEPT !.connect = "none"]
           x == [conn EXCEPT !.connect = "handshaking"]
           y == [conn EXCEPT !.connect = "waiting", !.tries = @ + 1]
<1>1. Started
    BY StartedFrom, Zenon
<1>2. conn.connect # "forwarding" /\ UNCHANGED <<script, broken, data>>
    BY Zenon DEF Connected
<1>3. \/ (conn' = over \/ conn' = x \/ (conn' = StartForward(conn) /\ conn.valid)) /\ UNCHANGED aborted
      \/ (conn' = over \/ (conn' = y /\ conn.tries + 1 < kMaxReconnectCnts)) /\ UNCHANGED aborted
      \/ (conn' = over \/ conn' = HandleDisconnect(over, TrafficProxyCloseAll)) /\ aborted' = TRUE
    <2>1. \/ Handle(IF conn.tls THEN x ELSE StartForward(conn), over) /\ UNCHANGED aborted
          \/ Handle(y, over) /\ conn.tries + 1 < kMaxReconnectCnts /\ UNCHANGED aborted
          \/ Handle(HandleDisconnect(over, TrafficProxyCloseAll), over) /\ aborted' = TRUE
        BY Zenon DEF Connected
    <2> HIDE DEF over, x, y
    <2>2. \A a : Handle(a, over) => conn' = over \/ (conn' = a /\ conn.valid)
        BY Zenon DEF Handle
    <2> QED BY <2>1, <2>2, Zenon
<1>4. Good(over, Delivered, taken) /\ Good(x, Delivered, taken)
    BY <1>2, ConnectsOver, Zenon DEF Phase
<1>5. ASSUME conn.tries + 1 < kMaxReconnectCnts PROVE Good(y, Delivered, taken)
    <2>1. conn.tries + 1 \in 0..kMaxReconnectCnts
        BY <1>1, <1>5, ForwardAssumption DEF Started, Connection
    <2>2. Aside(conn, y)
        BY <1>1, <1>2, <2>1, Zenon DEF Started, Aside, Connection, Phase
    <2> QED BY <1>1, <2>2, AsideKeeps, Zenon DEF Started
<1>6. conn.valid => Good(StartForward(conn), Delivered, taken)
    BY <1>1, <1>2, StartForwardKeeps, Zenon DEF Started
<1> HIDE DEF over, x, y
<1>7. Good(HandleDisconnect(over, TrafficProxyCloseAll), Delivered, taken)
    BY <1>1, <1>4, HandleDisconnectKeeps, Zenon DEF Started
<1>8. Good(conn', Delivered, taken) /\ aborted' \in BOOLEAN
    BY <1>1, <1>3, <1>4, <1>5, <1>6, <1>7, Zenon DEF Started
<1> QED BY <1>1, <1>2, <1>8, NoDataMoves, Zenon DEF Started

LEMMA ReconnectStep ==
    ASSUME Inv, Reconnect
    PROVE  Inv'
<1> DEFINE x == [conn EXCEPT !.connect = "connecting", !.closed = @ \ {"server"}, !.fin = @ \ {"server"}]
<1>1. Started
    BY StartedFrom, Zenon
<1>2. conn.connect = "waiting" /\ UNCHANGED <<script, broken, data, aborted>>
    BY Zenon DEF Reconnect
<1>3. conn' = x \/ conn' = [conn EXCEPT !.connect = "none"]
    BY Zenon DEF Reconnect, Handle
<1>4. Good([conn EXCEPT !.connect = "none"], Delivered, taken)
    BY <1>2, ConnectsOver, Zenon DEF Phase
<1>5. Aside(conn, x)
    BY <1>1, <1>2, Zenon DEF Started, Aside, Connection, Phase
<1> HIDE DEF x
<1>6. Good(x, Delivered, taken)
    BY <1>1, <1>5, AsideKeeps, Zenon DEF Started
<1> QED BY <1>1, <1>2, <1>3, <1>4, <1>6, NoDataMoves, Zenon DEF Started

LEMMA HandshakenStep ==
    ASSUME Inv, Handshaken
    PROVE  Inv'
<1>1. Started
    BY StartedFrom, Zenon
<1>2. conn.connect # "forwarding" /\ UNCHANGED <<script, broken, data>> /\ (UNCHANGED aborted \/ aborted' = TRUE)
    BY Zenon DEF Handshaken
<1>3. (conn' = StartForward(conn) /\ conn.valid) \/ conn' = [conn EXCEPT !.connect = "none"] \/ conn' = [conn EXCEPT !.connect = "failed"]
    BY Zenon DEF Handshaken, Handle
<1>4. Good([conn EXCEPT !.connect = "none"], Delivered, taken) /\ Good([conn EXCEPT !.connect = "failed"], Delivered, taken)
    BY <1>2, ConnectsOver, Zenon DEF Phase
<1>5. conn.valid => Good(StartForward(conn), Delivered, taken)
    BY <1>1, <1>2, StartForwardKeeps, Zenon DEF Started
<1>6. Good(conn', Delivered, taken)
    BY <1>3, <1>4, <1>5, Zenon
<1> QED BY <1>1, <1>2, <1>6, NoDataMoves, Zenon DEF Started

LEMMA TrafficTickStep ==
    ASSUME Inv, TrafficTick
    PROVE  Inv'
<1> DEFINE over == [conn EXCEPT !.traffic = FALSE]
           c == [conn EXCEPT !.recv_window = [d \in Dir |-> conn.window]]
           x == ResumeRead(c, "c2s")
           y == ResumeRead(x, "s2c")
<1>1. Started
    BY StartedFrom, Zenon
<1>2. UNCHANGED <<script, broken, data, aborted>> /\ (conn' = over \/ conn' = y)
    BY Zenon DEF TrafficTick, Handle
<1>3. Aside(conn, over)
    BY <1>1, Zenon DEF Started, Aside, Connection
<1>4. Aside(conn, c)
    <2>1. [d \in Dir |-> conn.window] \in [Dir -> 0..SpeedLimit]
        BY <1>1, ForwardAssumption DEF Started, Connection
    <2> QED BY <1>1, <2>1, Zenon DEF Started, Aside, Connection
<1> HIDE DEF over, c
<1>5. Good(over, Delivered, taken) /\ Good(c, Delivered, taken)
    BY <1>1, <1>3, <1>4, AsideKeeps, Zenon DEF Started
<1>6. Good(x, Delivered, taken)
    BY <1>1, <1>5, ResumeReadKeeps, Zenon DEF Started, Dir
<1>7. Good(y, Delivered, taken)
    <2> HIDE DEF x
    <2> QED BY <1>1, <1>6, ResumeReadKeeps, Zenon DEF Started, Dir
<1> QED BY <1>1, <1>2, <1>5, <1>7, NoDataMoves, Zenon DEF Started

LEMMA EndStep ==
    ASSUME Inv, IdleExpires \/ ReleaseObj \/ Release \/ CloseUpstream
    PROVE  Inv'
<1> DEFINE a == [conn EXCEPT !.idle = FALSE]
           b == [conn EXCEPT !.valid = FALSE, !.releasing = TRUE]
           c == [conn EXCEPT !.releasing = FALSE]
           e == [conn EXCEPT !.closing = FALSE, !.closed = @ \cup {"client"}, !.fin = @ \cup {"client"}]
<1>1. Started
    BY StartedFrom, Zenon
<1>2. UNCHANGED <<script, broken, data>> /\ (UNCHANGED aborted \/ aborted' = TRUE)
    BY Zenon DEF IdleExpires, ReleaseObj, Release, CloseUpstream
<1>3. \/ conn' = a \/ conn' = HandleDisconnect(a, TrafficProxyCloseAll)
      \/ conn' = b \/ conn' = HandleDisconnect(c, TrafficProxyCloseAll) \/ conn' = e
    BY Zenon DEF IdleExpires, ReleaseObj, Release, CloseUpstream, Handle
<1>4. Aside(conn, a) /\ Aside(conn, c) /\ Aside(conn, e)
    BY <1>1, Zenon DEF Started, Aside, Connection, Side
<1>5. b \in Connection /\ b.overlapped = conn.overlapped /\ \A d \in Dir : SameDir(conn, b, d)
    BY <1>1, Zenon DEF Started, SameDir, Connection
<1> HIDE DEF a, b, c, e
<1>6. Good(a, Delivered, taken) /\ Good(b, Delivered, taken) /\ Good(c, Delivered, taken) /\ Good(e, Delivered, taken)
    <2>1. Good(a, Delivered, taken) /\ Good(c, Delivered, taken) /\ Good(e, Delivered, taken)
        BY <1>1, <1>4, AsideKeeps, Zenon DEF Started
    <2>2. \A d \in Dir : GoodDir(b, d, Delivered[d], taken[d])
        BY <1>1, <1>5, SameDirKeeps, Zenon DEF Started, Good
    <2> QED BY <1>1, <1>5, <2>1, <2>2, Zenon DEF Started, Good
<1>7. /\ Good(HandleDisconnect(a, TrafficProxyCloseAll), Delivered, taken)
      /\ Good(HandleDisconnect(c, TrafficProxyCloseAll), Delivered, taken)
    BY <1>1, <1>6, HandleDisconnectKeeps, Zenon DEF Started
<1>8. Good(conn', Delivered, taken)
    BY <1>3, <1>6, <1>7, Zenon
<1> QED BY <1>1, <1>2, <1>8, NoDataMoves, Zenon DEF Started

LEMMA PeerBreaksStep ==
    ASSUME Inv, NEW s \in Side, PeerBreaks(s)
    PROVE  Inv'
<1>1. Started
    BY StartedFrom, Zenon
<1>2. UNCHANGED <<script, data>> /\ conn' = conn /\ broken' = {s} /\ aborted' = TRUE
    BY Zenon DEF PeerBreaks
<1> QED BY <1>1, <1>2, NoDataMoves, Zenon DEF Started

(* An operation of direction d is over: nothing depends on it any more.        *)
LEMMA ReadOver ==
    ASSUME NEW D, NEW T, NEW c, Good(c, D, T), NEW d \in Dir
    PROVE  Good([c EXCEPT !.read[d] = "none"], D, T)
<1> DEFINE e == [c EXCEPT !.read[d] = "none"]
<1>1. c \in Connection /\ ~c.overlapped /\ \A x \in Dir : GoodDir(c, x, D[x], T[x])
    BY Zenon DEF Good
<1>2. /\ e \in Connection /\ e.overlapped = c.overlapped /\ e.cache = c.cache
      /\ e.read = [c.read EXCEPT ![d] = "none"] /\ c.read \in [Dir -> Operation]
      /\ e.is_writing = c.is_writing /\ e.delay_read_more = c.delay_read_more
      /\ e.write = c.write /\ e.out = c.out /\ e.valid = c.valid /\ e.connect = c.connect
    BY <1>1, Zenon DEF Connection, Operation
<1> HIDE DEF e
<1>3. e.read[d] = "none" /\ \A x \in Dir : x # d => e.read[x] = c.read[x]
    BY <1>2, Zenon
<1>4. GoodDir(e, d, D[d], T[d])
    <2>1. GoodDir(c, d, D[d], T[d])
        BY <1>1, Zenon
    <2> QED BY <1>2, <1>3, <2>1, ZenonT(40) DEF GoodDir
<1>5. ASSUME NEW x \in Dir, x # d PROVE GoodDir(e, x, D[x], T[x])
    BY <1>1, <1>2, <1>3, <1>5, SameDirKeeps, Zenon DEF SameDir
<1> QED BY <1>1, <1>2, <1>4, <1>5, Zenon DEF Good, e

LEMMA WriteOver ==
    ASSUME NEW D, NEW T, NEW c, Good(c, D, T), NEW d \in Dir
    PROVE  Good([c EXCEPT !.write[d] = "none", !.out[d] = <<>>], D, T)
<1> DEFINE e == [c EXCEPT !.write[d] = "none", !.out[d] = <<>>]
<1>1. c \in Connection /\ ~c.overlapped /\ \A x \in Dir : GoodDir(c, x, D[x], T[x])
    BY Zenon DEF Good
<1>2. /\ e \in Connection /\ e.overlapped = c.overlapped /\ e.cache = c.cache /\ e.read = c.read
      /\ e.write = [c.write EXCEPT ![d] = "none"] /\ c.write \in [Dir -> Operation]
      /\ e.out = [c.out EXCEPT ![d] = <<>>] /\ c.out \in [Dir -> Seq(Nat)]
      /\ e.is_writing = c.is_writing /\ e.delay_read_more = c.delay_read_more
      /\ e.valid = c.valid /\ e.connect = c.connect
    <2>1. c.write \in [Dir -> Operation] /\ c.out \in [Dir -> Seq(Nat)]
        BY <1>1 DEF Connection
    <2>2. [c.write EXCEPT ![d] = "none"] \in [Dir -> Operation] /\ [c.out EXCEPT ![d] = <<>>] \in [Dir -> Seq(Nat)]
        BY <2>1 DEF Operation
    <2>3. e = [c EXCEPT !.write = [c.write EXCEPT ![d] = "none"], !.out = [c.out EXCEPT ![d] = <<>>]]
        BY <1>1 DEF Connection
    <2> QED BY <1>1, <2>1, <2>2, <2>3, Zenon DEF Connection
<1> HIDE DEF e
<1>3. e.write[d] = "none" /\ \A x \in Dir : x # d => e.write[x] = c.write[x] /\ e.out[x] = c.out[x]
    BY <1>2, Zenon
<1>4. GoodDir(e, d, D[d], T[d])
    <2>1. GoodDir(c, d, D[d], T[d])
        BY <1>1, Zenon
    <2> QED BY <1>2, <1>3, <2>1, Zenon DEF GoodDir
<1>5. ASSUME NEW x \in Dir, x # d PROVE GoodDir(e, x, D[x], T[x])
    BY <1>1, <1>2, <1>3, <1>5, SameDirKeeps, Zenon DEF SameDir
<1> QED BY <1>1, <1>2, <1>4, <1>5, Zenon DEF Good, e

(* Once reference_ is invalid, what a direction has moved matters no more.     *)
LEMMA InvalidMoves ==
    ASSUME NEW c, ~c.valid, NEW D, NEW T, Good(c, D, T), NEW E, NEW U,
           \A d \in Dir : c.write[d] = "none" \/ E[d] = D[d]
    PROVE  Good(c, E, U)
<1>1. ASSUME NEW d \in Dir PROVE GoodDir(c, d, E[d], U[d])
    <2>1. GoodDir(c, d, D[d], T[d]) /\ (c.write[d] = "none" \/ E[d] = D[d])
        BY Zenon DEF Good
    <2> QED BY <2>1, Zenon DEF GoodDir
<1> QED BY <1>1, Zenon DEF Good

(* What the start of a write needs.                                            *)
CanWrite(c, d) == c.valid /\ c.cache[d] # <<>>

(* The reader of direction d is neither at work nor stopped.                   *)
Idle(c, d) ==
    /\ c.cache[d] # <<>> /\ c.read[d] = "none" /\ ~c.delay_read_more[d]
    /\ d = "s2c" => c.connect = "forwarding"

LEMMA ReadMoreKeeps ==
    ASSUME NEW D \in [Dir -> Nat], NEW T \in [Dir -> Nat], NEW c, Good(c, D, T), NEW d \in Dir, Idle(c, d)
    PROVE  Good(ReadMore(c, d), D, T) /\ (c.valid => CanWrite(ReadMore(c, d), d))
<1> DEFINE e == [c EXCEPT !.delay_read_more[d] = TRUE]
<1>0. c.cache[d] # <<>> /\ c.read[d] = "none" /\ ~c.delay_read_more[d] /\ (d = "s2c" => c.connect = "forwarding")
    BY Zenon DEF Idle
<1>1. ReadMore(c, d) = e \/ ReadMore(c, d) = StartRead(c, d)
    BY Zenon DEF ReadMore
<1>2. Good(StartRead(c, d), D, T) /\ StartRead(c, d).cache[d] # <<>> /\ StartRead(c, d).valid = c.valid
    <2>1. Good(StartRead(c, d), D, T) /\ Kept(c, StartRead(c, d))
        BY <1>0, StartReadKeeps, Zenon
    <2> QED BY <1>0, <2>1, Zenon DEF Kept
<1>3. c \in Connection /\ ~c.overlapped /\ \A x \in Dir : GoodDir(c, x, D[x], T[x])
    BY Zenon DEF Good
<1>4. /\ e \in Connection /\ e.overlapped = c.overlapped /\ e.cache = c.cache /\ e.read = c.read
      /\ e.delay_read_more = [c.delay_read_more EXCEPT ![d] = TRUE] /\ c.delay_read_more \in [Dir -> BOOLEAN]
      /\ e.is_writing = c.is_writing
      /\ e.write = c.write /\ e.out = c.out /\ e.valid = c.valid /\ e.connect = c.connect
    BY <1>3, Zenon DEF Connection
<1> HIDE DEF e
<1>5. \A x \in Dir : x # d => e.delay_read_more[x] = c.delay_read_more[x]
    BY <1>4, Zenon
<1>6. GoodDir(e, d, D[d], T[d])
    <2>1. GoodDir(c, d, D[d], T[d])
        BY <1>3, Zenon
    <2> QED BY <1>0, <1>4, <2>1, Zenon DEF GoodDir
<1>7. ASSUME NEW x \in Dir, x # d PROVE GoodDir(e, x, D[x], T[x])
    BY <1>3, <1>4, <1>5, <1>7, SameDirKeeps, Zenon DEF SameDir
<1>8. Good(e, D, T) /\ e.cache[d] # <<>> /\ e.valid = c.valid
    BY <1>0, <1>3, <1>4, <1>6, <1>7, Zenon DEF Good
<1> QED BY <1>1, <1>2, <1>8, Zenon DEF CanWrite

(* j more chunks of direction d.                                               *)
More(f, d, j) == [f EXCEPT ![d] = @ + j]

LEMMA MoreIs ==
    ASSUME NEW f \in [Dir -> Nat], NEW d \in Dir, NEW j \in Nat
    PROVE  More(f, d, j) \in [Dir -> Nat] /\ More(f, d, j)[d] = f[d] + j /\ \A x \in Dir : x # d => More(f, d, j)[x] = f[x]
BY DEF More

LEMMA CountsOn ==
    ASSUME NEW a \in Seq(Nat), \A i \in 1..Len(a) : a[i] = i,
           NEW s \in Seq(Nat), \A i \in 1..Len(s) : s[i] = Len(a) + i
    PROVE  /\ a \o s \in Seq(Nat) /\ Len(a \o s) = Len(a) + Len(s)
           /\ \A i \in 1..Len(a \o s) : (a \o s)[i] = i
<1>1. a \o s \in Seq(Nat) /\ Len(a \o s) = Len(a) + Len(s)
    OBVIOUS
<1>2. ASSUME NEW i \in 1..Len(a \o s) PROVE (a \o s)[i] = i
    <2>1. CASE i <= Len(a)
        BY <1>1, <2>1
    <2>2. CASE i > Len(a)
        <3>1. (a \o s)[i] = s[i - Len(a)] /\ i - Len(a) \in 1..Len(s)
            BY <1>1, <2>2
        <3>2. s[i - Len(a)] = Len(a) + (i - Len(a))
            BY <3>1
        <3> QED BY <3>1, <3>2
    <2> QED BY <2>1, <2>2
<1> QED BY <1>1, <1>2

(* The read handler's own part: the chunk is in the cache.                     *)
ChunkIn(k, d, chunk) ==
    [RestartTimeoutIdleCheck([k EXCEPT !.read[d] = "none"]) EXCEPT
        !.cache[d] = UpdateReadBuffer(@, chunk), !.recv_window[d] = IF @ > 0 THEN @ - 1 ELSE 0]

LEMMA ChunkRead ==
    ASSUME NEW D \in [Dir -> Nat], NEW T \in [Dir -> Nat], NEW k, Good(k, D, T), NEW d \in Dir, k.read[d] # "none"
    PROVE  LET c == ChunkIn(k, d, T[d] + 1)
           IN  Good(c, D, More(T, d, 1)) /\ Idle(c, d) /\ c.valid = k.valid
<1> DEFINE q == UpdateReadBuffer(k.cache[d], T[d] + 1)
           w == IF k.recv_window[d] > 0 THEN k.recv_window[d] - 1 ELSE 0
           c == ChunkIn(k, d, T[d] + 1)
           U == More(T, d, 1)
<1>1. k \in Connection /\ ~k.overlapped /\ (\A x \in Dir : GoodDir(k, x, D[x], T[x])) /\ GoodDir(k, d, D[d], T[d])
    BY Zenon DEF Good
<1>2. Shape(k.cache[d]) /\ k.cache[d] # <<>> /\ Len(k.cache[d][Len(k.cache[d])].data) < BufferChunks
    BY <1>1, Zenon DEF GoodDir
<1>3. D[d] \in Nat /\ T[d] \in Nat /\ U \in [Dir -> Nat] /\ U[d] = T[d] + 1 /\ \A x \in Dir : x # d => U[x] = T[x]
    BY MoreIs
<1>4. /\ Shape(q) /\ Len(q) = Len(k.cache[d])
      /\ q[1].sent = k.cache[d][1].sent /\ Len(q[1].data) >= Len(k.cache[d][1].data)
      /\ Linked(k.cache[d], D[d], T[d]) => Linked(q, D[d], T[d] + 1)
    BY <1>2, <1>3, UpdateReadBufferKeeps, Zenon
<1>5. q \in Seq(Buffer) /\ q # <<>> /\ 1 \in 1..Len(q) /\ 1 \in 1..Len(k.cache[d]) /\ k.cache[d] \in Seq(Buffer)
    BY <1>2, <1>4 DEF Shape
<1> HIDE DEF q
<1>6. w \in 0..SpeedLimit /\ k.recv_window \in [Dir -> 0..SpeedLimit]
    BY <1>1, ForwardAssumption DEF Connection
<1>7. c = [k EXCEPT !.read = [k.read EXCEPT ![d] = "none"], !.idle = FALSE,
                    !.cache = [k.cache EXCEPT ![d] = q], !.recv_window = [k.recv_window EXCEPT ![d] = w]]
    BY <1>1 DEF ChunkIn, Connection, RestartTimeoutIdleCheck, q
<1> HIDE DEF w, c, U
<1>8. /\ c \in Connection /\ c.overlapped = k.overlapped /\ c.cache = [k.cache EXCEPT ![d] = q]
      /\ c.read = [k.read EXCEPT ![d] = "none"] /\ c.delay_read_more = k.delay_read_more
      /\ c.is_writing = k.is_writing /\ c.write = k.write /\ c.out = k.out /\ c.valid = k.valid /\ c.connect = k.connect
    BY <1>1, <1>5, <1>6, <1>7, Zenon DEF Connection, Operation
<1>9. k.cache \in [Dir -> Seq(Buffer)] /\ k.read \in [Dir -> Operation] /\ k.out[d] \in Seq(Nat)
    BY <1>1 DEF Connection
<1>10. /\ c.cache[d] = q /\ c.read[d] = "none"
       /\ \A x \in Dir : x # d => c.cache[x] = k.cache[x] /\ c.read[x] = k.read[x]
    BY <1>8, <1>9, Zenon
<1>11. GoodDir(c, d, D[d], U[d])
    <2>1. ASSUME k.write[d] # "none" PROVE Len(k.out[d]) <= Len(q[1].data) - q[1].sent
        <3>1. q[1] \in Buffer /\ k.cache[d][1] \in Buffer
            BY <1>5
        <3>2. /\ Len(q[1].data) \in Nat /\ q[1].sent \in Nat /\ Len(k.cache[d][1].data) \in Nat
              /\ k.cache[d][1].sent \in Nat /\ Len(k.out[d]) \in Nat
            BY <1>9, <3>1, BufferFacts
        <3>3. Len(k.out[d]) <= Len(k.cache[d][1].data) - k.cache[d][1].sent
            BY <1>1, <2>1, Zenon DEF GoodDir
        <3>4. q[1].sent = k.cache[d][1].sent /\ Len(q[1].data) >= Len(k.cache[d][1].data)
            BY <1>4, Zenon
        <3>5. \A o, a, b, s, t \in Nat : o <= a - s /\ t = s /\ b >= a => o <= b - t
            OBVIOUS
        <3> QED BY <3>2, <3>3, <3>4, <3>5, Zenon
    <2>2. /\ Shape(c.cache[d]) /\ c.cache[d] # <<>> /\ c.read[d] = "none"
          /\ c.valid => Linked(c.cache[d], D[d], U[d])
        BY <1>1, <1>3, <1>4, <1>5, <1>8, <1>10, Zenon DEF GoodDir
    <2>3. c.write[d] # "none" =>
             /\ c.is_writing[d]
             /\ Len(c.out[d]) > 0 /\ Len(c.out[d]) <= Len(c.cache[d][1].data) - c.cache[d][1].sent
             /\ \A j \in 1..Len(c.out[d]) : c.out[d][j] = D[d] + j
        BY <1>1, <1>8, <1>10, <2>1, Zenon DEF GoodDir
    <2>4. ~k.delay_read_more[d]
        BY <1>1, Zenon DEF GoodDir
    <2> QED BY <1>8, <2>2, <2>3, <2>4, Zenon DEF GoodDir
<1>12. ASSUME NEW x \in Dir, x # d PROVE GoodDir(c, x, D[x], U[x])
    BY <1>1, <1>3, <1>8, <1>10, <1>12, SameDirKeeps, Zenon DEF SameDir
<1>13. ~k.delay_read_more[d] /\ (d = "s2c" => k.connect = "forwarding")
    BY <1>1, Zenon DEF GoodDir
<1>14. Good(c, D, U)
    BY <1>1, <1>8, <1>11, <1>12, Zenon DEF Good
<1>15. Idle(c, d)
    BY <1>5, <1>8, <1>10, <1>13, Zenon DEF Idle
<1> QED BY <1>8, <1>14, <1>15, Zenon DEF c, U

(* The write handler's own part: j chunks have left the cache.                 *)
ChunksOut(k, d, j) ==
    [RestartTimeoutIdleCheck([k EXCEPT !.write[d] = "none", !.out[d] = <<>>]) EXCEPT
        !.is_writing[d] = FALSE, !.cache[d] = UpdateWriteBuffer(@, j)]

LEMMA ChunksWritten ==
    ASSUME NEW D \in [Dir -> Nat], NEW T \in [Dir -> Nat], NEW k, Good(k, D, T), NEW d \in Dir, k.write[d] # "none",
           NEW j \in 1..Len(k.out[d])
    PROVE  LET c == ChunksOut(k, d, j)
           IN  Good(c, More(D, d, j), T) /\ (k.valid => CanWrite(c, d))
<1> DEFINE q == UpdateWriteBuffer(k.cache[d], j)
           c == ChunksOut(k, d, j)
           E == More(D, d, j)
<1>1. k \in Connection /\ ~k.overlapped /\ (\A x \in Dir : GoodDir(k, x, D[x], T[x])) /\ GoodDir(k, d, D[d], T[d])
    BY Zenon DEF Good
<1>2. /\ Shape(k.cache[d]) /\ k.cache[d] # <<>>
      /\ Len(k.out[d]) <= Len(k.cache[d][1].data) - k.cache[d][1].sent
    BY <1>1, Zenon DEF GoodDir
<1>3. k.cache \in [Dir -> Seq(Buffer)] /\ k.out \in [Dir -> Seq(Nat)] /\ k.write \in [Dir -> Operation] /\ k.is_writing \in [Dir -> BOOLEAN]
    BY <1>1, SMTT(40) DEF Connection
<1>4. j \in Nat /\ j <= Len(k.cache[d][1].data) - k.cache[d][1].sent
    <2>1. 1 \in 1..Len(k.cache[d]) /\ k.cache[d][1] \in Buffer
        BY <1>2 DEF Shape
    <2>2. Len(k.cache[d][1].data) \in Nat /\ k.cache[d][1].sent \in Nat /\ Len(k.out[d]) \in Nat
        BY <1>3, <2>1, BufferFacts
    <2>3. \A o, a, s \in Nat : \A i \in 1..o : o <= a - s => i \in Nat /\ i <= a - s
        OBVIOUS
    <2> QED BY <1>2, <2>2, <2>3, Zenon
<1>5. D[d] \in Nat /\ T[d] \in Nat /\ E[d] = D[d] + j /\ \A x \in Dir : x # d => E[x] = D[x]
    BY <1>4, MoreIs, Zenon
<1>6. /\ Shape(q) /\ Len(q) = Len(k.cache[d]) /\ q[Len(q)].data = k.cache[d][Len(k.cache[d])].data
      /\ Linked(k.cache[d], D[d], T[d]) => Linked(q, D[d] + j, T[d])
    BY <1>2, <1>4, <1>5, UpdateWriteBufferKeeps, Zenon
<1>7. q \in Seq(Buffer) /\ q # <<>>
    BY <1>2, <1>6 DEF Shape
<1> HIDE DEF q
<1>8. c = [k EXCEPT !.write = [k.write EXCEPT ![d] = "none"], !.out = [k.out EXCEPT ![d] = <<>>], !.idle = FALSE,
                    !.is_writing = [k.is_writing EXCEPT ![d] = FALSE], !.cache = [k.cache EXCEPT ![d] = q]]
    BY <1>1 DEF ChunksOut, Connection, RestartTimeoutIdleCheck, q
<1> HIDE DEF c, E
<1>9. /\ [k.write EXCEPT ![d] = "none"] \in [Dir -> Operation] /\ [k.out EXCEPT ![d] = <<>>] \in [Dir -> Seq(Nat)]
      /\ [k.is_writing EXCEPT ![d] = FALSE] \in [Dir -> BOOLEAN] /\ [k.cache EXCEPT ![d] = q] \in [Dir -> Seq(Buffer)]
    BY <1>3, <1>7, SMTT(40) DEF Operation
<1>10. /\ c \in Connection /\ c.overlapped = k.overlapped /\ c.cache = [k.cache EXCEPT ![d] = q]
       /\ c.read = k.read /\ c.delay_read_more = k.delay_read_more /\ c.valid = k.valid /\ c.connect = k.connect
       /\ c.is_writing = [k.is_writing EXCEPT ![d] = FALSE] /\ c.write = [k.write EXCEPT ![d] = "none"]
       /\ c.out = [k.out EXCEPT ![d] = <<>>]
    BY <1>1, <1>8, <1>9, Zenon DEF Connection
<1>11. /\ c.cache[d] = q /\ c.write[d] = "none"
       /\ \A x \in Dir : x # d => /\ c.cache[x] = k.cache[x] /\ c.write[x] = k.write[x]
                                  /\ c.out[x] = k.out[x] /\ c.is_writing[x] = k.is_writing[x]
    BY <1>3, <1>10, Zenon
<1>12. GoodDir(c, d, E[d], T[d])
    BY <1>1, <1>5, <1>6, <1>7, <1>10, <1>11, Zenon DEF GoodDir
<1>13. ASSUME NEW x \in Dir, x # d PROVE GoodDir(c, x, E[x], T[x])
    BY <1>1, <1>5, <1>10, <1>11, <1>13, SameDirKeeps, ZenonT(40) DEF SameDir
<1>14. Good(c, E, T)
    BY <1>1, <1>10, <1>12, <1>13, Zenon DEF Good
<1>15. k.valid => CanWrite(c, d)
    BY <1>7, <1>10, <1>11, Zenon DEF CanWrite
<1> QED BY <1>14, <1>15, Zenon DEF c, E

LEMMA ReadSomeStep ==
    ASSUME Inv, NEW d \in Dir, ReadSome(d)
    PROVE  Inv'
<1> DEFINE over == [conn EXCEPT !.read[d] = "none"]
           c == ChunkIn(conn, d, taken[d] + 1)
           T == More(taken, d, 1)
<1>1. Started
    BY StartedFrom, Zenon
<1>2. conn.read[d] # "none" /\ taken' = T /\ UNCHANGED <<script, broken, delivered, aborted>>
    BY Zenon DEF ReadSome, More
<1>3. conn' = IF conn.valid THEN StartWrite(ReadMore(c, d), d) ELSE over
    BY Zenon DEF ReadSome, Handle, ChunkIn
<1>4. T \in [Dir -> Nat]
    BY <1>1, MoreIs, Zenon DEF Started
<1>5. ASSUME ~conn.valid PROVE Good(conn', Delivered, T)
    <2>1. Good(over, Delivered, taken)
        BY <1>1, ReadOver, Zenon DEF Started
    <2>2. over.valid = conn.valid
        BY <1>1 DEF Started, Connection
    <2> HIDE DEF over, T
    <2>3. Good(over, Delivered, T)
        BY <1>5, <2>1, <2>2, InvalidMoves, Zenon
    <2> QED BY <1>3, <1>5, <2>3, Zenon
<1>6. ASSUME conn.valid PROVE Good(conn', Delivered, T)
    <2>1. Good(c, Delivered, T) /\ Idle(c, d) /\ c.valid = conn.valid
        BY <1>1, <1>2, ChunkRead, ZenonT(40) DEF Started
    <2> HIDE DEF c, T
    <2>2. Good(ReadMore(c, d), Delivered, T) /\ CanWrite(ReadMore(c, d), d)
        <3>1. Good(ReadMore(c, d), Delivered, T)
            BY <1>1, <1>4, <2>1, ReadMoreKeeps, Zenon DEF Started
        <3>2. c.valid => CanWrite(ReadMore(c, d), d)
            BY <1>1, <1>4, <2>1, ReadMoreKeeps, Zenon DEF Started
        <3> QED BY <1>6, <2>1, <3>1, <3>2, Zenon
    <2>3. Good(StartWrite(ReadMore(c, d), d), Delivered, T)
        BY <1>1, <1>4, <2>2, StartWriteKeeps, Zenon DEF Started, CanWrite
    <2> QED BY <1>3, <1>6, <2>3, Zenon
<1>7. Good(conn', Delivered, T)
    BY <1>5, <1>6, Zenon
<1> HIDE DEF T
<1>8. Delivered' = Delivered /\ total' = total /\ ends' = ends
    BY <1>2, Zenon DEF Delivered, script
<1> QED BY <1>2, <1>4, <1>7, <1>8, Zenon DEF Inv

LEMMA ReadEndsStep ==
    ASSUME Inv, NEW d \in Dir, ReadEnds(d)
    PROVE  Inv'
<1> DEFINE over == [conn EXCEPT !.read[d] = "none"]
           c == RestartTimeoutIdleCheck(over)
           e == HandleDisconnect(c, {Reading(d)})
<1>1. Started
    BY StartedFrom, Zenon
<1>2. conn.read[d] # "none" /\ UNCHANGED <<script, broken, data, aborted>>
    BY Zenon DEF ReadEnds
<1>3. conn' = IF conn.valid THEN StartWrite(e, d) ELSE over
    BY Zenon DEF ReadEnds, Handle
<1>4. Good(over, Delivered, taken)
    BY <1>1, ReadOver, Zenon DEF Started
<1>5. over.valid = conn.valid /\ over.cache[d] # <<>>
    <2>1. over.valid = conn.valid /\ over.cache = conn.cache
        BY <1>1 DEF Started, Connection
    <2>2. conn.cache[d] # <<>>
        BY <1>1, <1>2, Zenon DEF Started, Good, GoodDir
    <2> QED BY <2>1, <2>2, Zenon
<1> HIDE DEF over
<1>6. Good(c, Delivered, taken) /\ Kept(over, c)
    BY <1>4, RestartKeeps, Zenon
<1> HIDE DEF c
<1>7. Good(e, Delivered, taken) /\ Kept(c, e)
    BY <1>1, <1>6, HandleDisconnectKeeps, Zenon DEF Started
<1>8. e.valid = conn.valid /\ e.cache[d] # <<>>
    <2>1. Kept(over, e)
        BY <1>6, <1>7, KeptTransitive, Zenon
    <2> QED BY <1>5, <2>1, Zenon DEF Kept
<1> HIDE DEF e
<1>9. conn.valid => Good(StartWrite(e, d), Delivered, taken)
    BY <1>1, <1>7, <1>8, StartWriteKeeps, Zenon DEF Started
<1>10. Good(conn', Delivered, taken)
    BY <1>3, <1>4, <1>9, Zenon
<1> QED BY <1>1, <1>2, <1>10, NoDataMoves, Zenon DEF Started

LEMMA WriteFailsStep ==
    ASSUME Inv, NEW d \in Dir, WriteFails(d)
    PROVE  Inv'
<1> DEFINE over == [conn EXCEPT !.write[d] = "none", !.out[d] = <<>>]
<1>1. Started
    BY StartedFrom, Zenon
<1>2. /\ UNCHANGED <<script, broken, data, aborted>>
      /\ conn' = HandleDisconnect(over, {Writing(d)}) \/ conn' = over
    BY Zenon DEF WriteFails, Handle
<1>3. Good(over, Delivered, taken)
    BY <1>1, WriteOver, Zenon DEF Started
<1> HIDE DEF over
<1>4. Good(HandleDisconnect(over, {Writing(d)}), Delivered, taken)
    BY <1>1, <1>3, HandleDisconnectKeeps, Zenon DEF Started
<1> QED BY <1>1, <1>2, <1>3, <1>4, NoDataMoves, Zenon DEF Started

(* The first n elements of a sequence.                                          *)
LEMMA FirstFacts ==
    ASSUME NEW a \in Seq(Nat), NEW n \in 1..Len(a)
    PROVE  /\ SubSeq(a, 1, n) \in Seq(Nat) /\ Len(SubSeq(a, 1, n)) = n
           /\ \A k \in 1..n : SubSeq(a, 1, n)[k] = a[k] /\ k \in 1..Len(a)
OBVIOUS

LEMMA WriteSomeStep ==
    ASSUME Inv, NEW d \in Dir, NEW n, WriteSome(d, n)
    PROVE  Inv'
<1> DEFINE over == [conn EXCEPT !.write[d] = "none", !.out[d] = <<>>]
           c == ChunksOut(conn, d, n)
           E == More(Delivered, d, n)
           s == SubSeq(conn.out[d], 1, n)
<1>1. Started
    BY StartedFrom, Zenon
<1>2. /\ conn.write[d] # "none" /\ n \in 1..Len(conn.out[d]) /\ UNCHANGED <<script, broken, taken, aborted>>
      /\ delivered' = [delivered EXCEPT ![d] = @ \o s]
    BY Zenon DEF WriteSome
<1>3. conn' = IF conn.valid THEN StartWrite(c, d) ELSE over
    BY Zenon DEF WriteSome, Handle, ChunksOut
<1>4. /\ conn.out[d] \in Seq(Nat) /\ n \in Nat /\ delivered \in [Dir -> Seq(Nat)] /\ delivered[d] \in Seq(Nat)
      /\ Delivered[d] = Len(delivered[d])
    <2>1. conn.out[d] \in Seq(Nat) /\ delivered \in [Dir -> Seq(Nat)] /\ delivered[d] \in Seq(Nat)
        BY <1>1 DEF Started, Connection, Inv
    <2> QED BY <1>2, <2>1, DeliveredType
<1>5. E \in [Dir -> Nat] /\ E[d] = Delivered[d] + n /\ \A x \in Dir : x # d => E[x] = Delivered[x]
    BY <1>1, <1>4, MoreIs, Zenon DEF Started
<1>6. ASSUME ~conn.valid PROVE Good(conn', E, taken)
    <2>1. Good(over, Delivered, taken)
        BY <1>1, WriteOver, Zenon DEF Started
    <2>2. over.valid = conn.valid /\ over.write[d] = "none"
        BY <1>1 DEF Started, Connection
    <2> HIDE DEF over, E
    <2>3. Good(over, E, taken)
        BY <1>5, <1>6, <2>1, <2>2, InvalidMoves, Zenon
    <2> QED BY <1>3, <1>6, <2>3, Zenon
<1>7. ASSUME conn.valid PROVE Good(conn', E, taken)
    <2>1. Good(c, E, taken)
        BY <1>1, <1>2, ChunksWritten, Zenon DEF Started
    <2>2. CanWrite(c, d)
        BY <1>1, <1>2, <1>7, ChunksWritten, Zenon DEF Started
    <2> HIDE DEF c, E
    <2>3. Good(StartWrite(c, d), E, taken)
        BY <1>1, <1>5, <2>1, <2>2, StartWriteKeeps, Zenon DEF Started, CanWrite
    <2> QED BY <1>3, <1>7, <2>3, Zenon
<1>8. s \in Seq(Nat) /\ Len(s) = n /\ \A k \in 1..Len(s) : s[k] = Len(delivered[d]) + k
    <2>1. s \in Seq(Nat) /\ Len(s) = n /\ \A k \in 1..n : s[k] = conn.out[d][k] /\ k \in 1..Len(conn.out[d])
        BY <1>2, <1>4, FirstFacts, Zenon
    <2>2. \A k \in 1..Len(conn.out[d]) : conn.out[d][k] = Delivered[d] + k
        BY <1>1, <1>2, Zenon DEF Started, Good, GoodDir
    <2> HIDE DEF s
    <2> QED BY <1>4, <2>1, <2>2, Zenon
<1> HIDE DEF s, E, over, c
<1>9. delivered' \in [Dir -> Seq(Nat)] /\ delivered'[d] = delivered[d] \o s /\ \A x \in Dir : x # d => delivered'[x] = delivered[x]
    BY <1>2, <1>4, <1>8
<1>10. Len(delivered'[d]) = Len(delivered[d]) + n /\ \A i \in 1..Len(delivered'[d]) : delivered'[d][i] = i
    <2>1. \A i \in 1..Len(delivered[d]) : delivered[d][i] = i
        BY Zenon DEF Inv
    <2> QED BY <1>4, <1>8, <1>9, <2>1, CountsOn, Zenon
<1>11. Delivered' = E
    <2>1. Delivered' = [x \in Dir |-> Len(delivered'[x])]
        BY Zenon DEF Delivered
    <2>2. \A x \in Dir : Len(delivered'[x]) = E[x]
        BY <1>1, <1>4, <1>5, <1>9, <1>10, DeliveredType, Zenon
    <2> QED BY <1>5, <2>1, <2>2
<1>12. \A x \in Dir : \A i \in 1..Len(delivered'[x]) : delivered'[x][i] = i
    BY <1>9, <1>10, Zenon DEF Inv
<1>13. Good(conn', E, taken)
    BY <1>6, <1>7, Zenon
<1>14. total' = total /\ ends' = ends
    BY <1>2, Zenon DEF script
<1> QED BY <1>2, <1>9, <1>11, <1>12, <1>13, <1>14, Zenon DEF Inv

LEMMA InitInv == Init => Inv
<1> SUFFICES ASSUME Init PROVE Inv
    OBVIOUS
<1> DEFINE first == [data |-> [i \in 1..Preread |-> i], sent |-> 0]
           C(tls) == [status |-> UpstreamBits \cup {"ProxyDnsResolving"}, valid |-> TRUE,
                 cache |-> [d \in Dir |-> IF d = "c2s" THEN <<first>> ELSE <<>>],
                 is_writing |-> [d \in Dir |-> FALSE], delay_read_more |-> [d \in Dir |-> FALSE],
                 window |-> 0, recv_window |-> [d \in Dir |-> 0],
                 read |-> [d \in Dir |-> "none"], write |-> [d \in Dir |-> "none"],
                 out |-> [d \in Dir |-> <<>>], idle |-> TRUE, traffic |-> FALSE,
                 connect |-> "resolving", tries |-> 0, tls |-> tls, fin |-> {}, closed |-> {},
                 releasing |-> FALSE, closing |-> FALSE, overlapped |-> FALSE]
<1>1. PICK tls \in Tls : conn = StartRead(C(tls), "c2s")
    BY Zenon DEF Init
<1> DEFINE c == C(tls)
<1>2. taken = [d \in Dir |-> IF d = "c2s" THEN Preread ELSE 0] /\ Preread \in Nat
    BY ForwardAssumption DEF Init
<1>3. taken \in [Dir -> Nat] /\ taken["c2s"] = Preread /\ taken["s2c"] = 0
    BY <1>2 DEF Dir
<1>4. delivered = [d \in Dir |-> <<>>] /\ ends \in [Dir -> BOOLEAN] /\ broken = {} /\ aborted = FALSE
    BY Zenon DEF Init
<1>5. delivered \in [Dir -> Seq(Nat)] /\ \A d \in Dir : delivered[d] = <<>>
    BY <1>4
<1>6. Delivered \in [Dir -> Nat] /\ \A d \in Dir : Delivered[d] = 0
    BY <1>5, DeliveredType
<1>7. total \in [Dir -> Nat]
    <2>1. total \in [Dir -> 0..MaxUp + MaxDown]
        BY Zenon DEF Init
    <2> QED BY <2>1, ForwardAssumption
<1>8. first \in Buffer /\ first.sent = 0 /\ first.data = [i \in 1..Preread |-> i] /\ Len(first.data) = Preread
    <2>1. [i \in 1..Preread |-> i] \in Seq(Nat) /\ Len([i \in 1..Preread |-> i]) = Preread
        BY <1>2
    <2> QED BY <2>1, Zenon DEF Buffer
<1>9. /\ c.cache = [d \in Dir |-> IF d = "c2s" THEN <<first>> ELSE <<>>]
      /\ c.delay_read_more = [d \in Dir |-> FALSE] /\ c.read = [d \in Dir |-> "none"] /\ c.write = [d \in Dir |-> "none"]
      /\ c.overlapped = FALSE
    BY Zenon
<1> HIDE DEF first
<1>10. <<first>> \in Seq(Buffer) /\ <<>> \in Seq(Buffer) /\ Len(<<first>>) = 1 /\ <<first>>[1] = first
    BY <1>8
<1>11. c \in Connection
    <2>1. [d \in Dir |-> IF d = "c2s" THEN <<first>> ELSE <<>>] \in [Dir -> Seq(Buffer)]
        BY <1>10
    <2>2. tls \in BOOLEAN /\ 0 \in 0..kMaxReconnectCnts /\ 0 \in 0..SpeedLimit /\ 0 \in {0, SpeedLimit}
        BY ForwardAssumption
    <2>3. UpstreamBits \cup {"ProxyDnsResolving"} \subseteq TrafficProxyCloseAll
        BY DEF TrafficProxyCloseAll
    <2>4. /\ [d \in Dir |-> FALSE] \in [Dir -> BOOLEAN] /\ [d \in Dir |-> 0] \in [Dir -> 0..SpeedLimit]
          /\ [d \in Dir |-> "none"] \in [Dir -> Operation] /\ [d \in Dir |-> <<>>] \in [Dir -> Seq(Nat)]
        BY <2>2 DEF Operation
    <2> QED BY <2>1, <2>2, <2>3, <2>4, Zenon DEF Connection, Phase
<1> HIDE DEF c
<1>12. "c2s" \in Dir /\ "s2c" \in Dir /\ Dir = {"c2s", "s2c"}
    BY Zenon DEF Dir
<1>13. c.cache["c2s"] = <<first>> /\ c.cache["s2c"] = <<>>
    BY <1>9, <1>12
<1>14. Shape(<<first>>) /\ Shape(<<>>)
    BY <1>8, <1>10, ForwardAssumption DEF Shape
<1>15. Linked(<<first>>, 0, Preread)
    <2> DEFINE b == [i \in 1..2 |-> IF i = 1 THEN 0 ELSE Preread]
               q == <<first>>
    <2>1. b \in [1..2 -> Nat] /\ b[1] = 0 /\ b[2] = Preread
        BY <1>2
    <2>2. Len(q) = 1 /\ q[1] = first /\ q # <<>>
        BY <1>10
    <2> HIDE DEF b, q
    <2>3. \A k \in 1..Len(first.data) : first.data[k] = 0 + k
        BY <1>2, <1>8
    <2>4. Numbered(q, b, 0, Preread)
        BY <1>2, <1>8, <2>1, <2>2, <2>3 DEF Numbered
    <2> QED BY <2>1, <2>2, <2>4 DEF Linked, q
<1>16. Linked(<<>>, 0, 0)
    <2> DEFINE b == [i \in 1..1 |-> 0]
    <2>1. b \in [1..1 -> Nat] /\ b[1] = 0 /\ Len(<<>>) = 0
        OBVIOUS
    <2> HIDE DEF b
    <2>2. Numbered(<<>>, b, 0, 0)
        BY <2>1 DEF Numbered
    <2> QED BY <2>1, <2>2 DEF Linked
<1>17. \A d \in Dir : c.read[d] = "none" /\ c.write[d] = "none" /\ ~c.delay_read_more[d]
    BY <1>9, Zenon
<1>18. GoodDir(c, "c2s", Delivered["c2s"], taken["c2s"])
    BY <1>3, <1>6, <1>12, <1>13, <1>14, <1>15, <1>17 DEF GoodDir
<1>19. GoodDir(c, "s2c", Delivered["s2c"], taken["s2c"])
    BY <1>3, <1>6, <1>12, <1>13, <1>14, <1>16, <1>17 DEF GoodDir
<1>20. Good(c, Delivered, taken)
    BY <1>9, <1>11, <1>12, <1>18, <1>19, Zenon DEF Good
<1>21. Good(StartRead(c, "c2s"), Delivered, taken)
    BY <1>3, <1>6, <1>12, <1>17, <1>20, StartReadKeeps
<1>22. \A d \in Dir : \A i \in 1..Len(delivered[d]) : delivered[d][i] = i
    BY <1>5
<1> QED BY <1>1, <1>3, <1>4, <1>5, <1>7, <1>21, <1>22, Zenon DEF Inv, c

-----------------------------------------------------------------------------
(* What a linked cache holds.                                                  *)

(* The chunks n + 1 to n + j.                                                  *)
Run(n, j) == [k \in 1..j |-> n + k]

LEMMA RunIs ==
    ASSUME NEW n \in Nat, NEW j \in Nat
    PROVE  Run(n, j) \in Seq(Nat) /\ Len(Run(n, j)) = j /\ (\A k \in 1..j : Run(n, j)[k] = n + k) /\ Run(n, 0) = <<>>
BY DEF Run

LEMMA RunGoesOn ==
    ASSUME NEW n \in Nat, NEW j \in Nat, NEW s \in Seq(Nat), \A k \in 1..Len(s) : s[k] = n + j + k
    PROVE  Run(n, j) \o s = Run(n, j + Len(s))
<1> DEFINE a == Run(n, j)
           c == Run(n, j + Len(s))
<1>1. a \in Seq(Nat) /\ Len(a) = j /\ \A k \in 1..j : a[k] = n + k
    BY RunIs, Zenon
<1>0. Len(s) \in Nat /\ j + Len(s) \in Nat
    OBVIOUS
<1>2. c \in Seq(Nat) /\ Len(c) = j + Len(s) /\ \A k \in 1..j + Len(s) : c[k] = n + k
    BY <1>0, RunIs, Zenon
<1> HIDE DEF a, c
<1>3. a \o s \in Seq(Nat) /\ Len(a \o s) = j + Len(s)
    BY <1>1, ConcatProperties, Zenon
<1>4. ASSUME NEW k \in 1..j + Len(s) PROVE (a \o s)[k] = c[k]
    <2>1. CASE k <= j
        BY <1>1, <1>2, <2>1
    <2>2. CASE k > j
        <3>1. (a \o s)[k] = s[k - j] /\ k - j \in 1..Len(s)
            BY <1>1, <2>2
        <3>2. s[k - j] = n + j + (k - j)
            BY <3>1
        <3> QED BY <1>0, <1>2, <3>1, <3>2
    <2>3. k <= j \/ k > j
        BY <1>0
    <2> QED BY <2>1, <2>2, <2>3, Zenon
<1>5. a \o s = c
    BY <1>2, <1>3, <1>4, SeqEqual, Zenon
<1> QED BY <1>5 DEF a, c

(* A non-empty set of naturals has a least element: < is well founded.         *)
LEMMA LeastOf ==
    ASSUME NEW S, S \subseteq Nat, S # {}
    PROVE  \E x \in S : \A y \in S : x <= y
<1>1. \E x \in S : \A y \in S : ~(<<y, x>> \in OpToRel(<, Nat))
    BY NatLessThanWellFounded, WFMin, Zenon
<1>2. OpToRel(<, Nat) = {ss \in Nat \X Nat : ss[1] < ss[2]}
    BY Zenon DEF OpToRel
<1>3. \A x, y \in Nat : y < x => <<y, x>> \in OpToRel(<, Nat)
    <2>1. \A x, y \in Nat : y < x => <<y, x>> \in {ss \in Nat \X Nat : ss[1] < ss[2]}
        OBVIOUS
    <2> QED BY <1>2, <2>1, Zenon
<1>4. \E x \in S : \A y \in S : ~(y < x)
    BY <1>1, <1>3, Zenon
<1> QED BY <1>4

(* What is left of a sequence after its first j elements.                      *)
LeftOf(a, j, t) ==
    /\ t \in Seq(Nat) /\ Len(t) = Len(a) - j
    /\ \A k \in 1..Len(t) : t[k] = a[j + k] /\ j + k \in 1..Len(a)

LEMMA RestFacts ==
    ASSUME NEW a \in Seq(Nat), NEW j \in Nat, j <= Len(a)
    PROVE  LeftOf(a, j, SubSeq(a, j + 1, Len(a)))
<1> DEFINE t == SubSeq(a, j + 1, Len(a))
<1>1. j + 1 \in Int /\ Len(a) \in Int /\ \A k \in (j + 1)..Len(a) : a[k] \in Nat
    OBVIOUS
<1>2. /\ t \in Seq(Nat) /\ Len(t) = (IF j + 1 <= Len(a) THEN Len(a) - (j + 1) + 1 ELSE 0)
      /\ \A k \in 1..(Len(a) - (j + 1) + 1) : t[k] = a[j + 1 + k - 1]
    BY <1>1, SubSeqProperties
<1> HIDE DEF t
<1>3. Len(t) = Len(a) - j /\ Len(a) \in Nat
    BY <1>2
<1>4. ASSUME NEW k \in 1..Len(t) PROVE t[k] = a[j + k] /\ j + k \in 1..Len(a)
    <2>1. k \in 1..(Len(a) - (j + 1) + 1) /\ j + 1 + k - 1 = j + k /\ j + k \in 1..Len(a)
        BY <1>3
    <2> QED BY <1>2, <2>1
<1> QED BY <1>2, <1>3, <1>4, Zenon DEF t, LeftOf

LEMMA UnsentIs ==
    ASSUME NEW q, Shape(q), NEW n \in Nat, NEW m \in Nat, Linked(q, n, m)
    PROVE  n <= m /\ Unsent(q) = Run(n, m - n)
<1> DEFINE l == Len(q)
           R(i) == SubSeq(q[i].data, q[i].sent + 1, Len(q[i].data))
           G(f) == [i \in 0..l |-> IF i = 0 THEN <<>> ELSE f[i - 1] \o R(i)]
           rest == CHOOSE f : f = G(f)
<1>1. Unsent(q) = rest[l]
    BY Zenon DEF Unsent
<1>2. q \in Seq(Buffer) /\ l \in Nat /\ \A i \in 1..l : q[i] \in Buffer
    BY DEF Shape
<1>3. PICK b \in [1..l + 1 -> Nat] : Numbered(q, b, n, m)
    BY Zenon DEF Linked
<1> DEFINE e == [i \in 0..l |-> IF i = 0 THEN n ELSE b[i + 1]]
<1>4. e \in [0..l -> Nat] /\ e[0] = n /\ \A i \in 1..l : e[i] = b[i + 1]
    BY <1>2, <1>3
<1>5. e[l] = m
    BY <1>2, <1>3, <1>4 DEF Numbered
<1> HIDE DEF e
(* The rest of buffer i goes on where the rest of the buffers before it ends.  *)
<1>6. ASSUME NEW i \in 1..l
      PROVE  /\ R(i) \in Seq(Nat) /\ e[i] = e[i - 1] + Len(R(i))
             /\ \A k \in 1..Len(R(i)) : R(i)[k] = e[i - 1] + k
    <2> DEFINE a == q[i].data
               s == q[i].sent
    <2>1. a \in Seq(Nat) /\ s \in Nat /\ Len(a) \in Nat /\ s <= Len(a) /\ (i > 1 => s = 0)
        BY <1>2, BufferFacts DEF Shape
    <2>2. b[i] \in Nat /\ b[i + 1] = b[i] + Len(a) /\ \A k \in 1..Len(a) : a[k] = b[i] + k
        BY <1>2, <1>3, SMTT(40) DEF Numbered
    <2>3. e[i - 1] = b[i] + s
        <3>1. CASE i = 1
            BY <1>2, <1>3, <1>4, <3>1 DEF Numbered
        <3>2. CASE i > 1
            BY <1>2, <1>4, <2>1, <2>2, <3>2
        <3> QED BY <3>1, <3>2
    <2>4. R(i) = SubSeq(a, s + 1, Len(a))
        BY Zenon
    <2> HIDE DEF a, s, R
    <2>5. R(i) \in Seq(Nat) /\ Len(R(i)) = Len(a) - s /\ \A k \in 1..Len(R(i)) : R(i)[k] = a[s + k] /\ s + k \in 1..Len(a)
        <3>1. LeftOf(a, s, R(i))
            BY <2>1, <2>4, RestFacts, Zenon
        <3> QED BY <3>1, Zenon DEF LeftOf
    <2>6. ASSUME NEW k \in 1..Len(R(i)) PROVE R(i)[k] = e[i - 1] + k
        <3>1. R(i)[k] = a[s + k] /\ s + k \in 1..Len(a)
            BY <2>5, Zenon
        <3>2. a[s + k] = b[i] + (s + k)
            BY <2>2, <3>1, Zenon
        <3>3. b[i] + (s + k) = (b[i] + s) + k
            BY <2>1, <2>2
        <3> QED BY <2>3, <3>1, <3>2, <3>3, Zenon
    <2> QED BY <1>4, <2>1, <2>2, <2>3, <2>5, <2>6
<1> HIDE DEF R, l
<1>7. \A i \in 0..l : n <= e[i]
    <2> DEFINE S == {i \in 0..l : ~(n <= e[i])}
    <2>1. CASE S # {}
        <3>1. S \subseteq Nat
            BY <1>2
        <3>2. PICK i \in S : \A j \in S : i <= j
            BY <2>1, <3>1, LeastOf, Zenon
        <3>3. i \in 1..l /\ i - 1 \in 0..l /\ ~(n <= e[i])
            BY <1>2, <1>4, <3>2
        <3>4. n <= e[i - 1]
            BY <3>2, <3>3
        <3>5. e[i - 1] \in Nat /\ Len(R(i)) \in Nat /\ e[i] = e[i - 1] + Len(R(i))
            BY <1>4, <1>6, <3>3
        <3> QED BY <3>3, <3>4, <3>5
    <2> QED BY <2>1
<1> DEFINE g == [i \in 0..l |-> Run(n, e[i] - n)]
<1>8. ASSUME NEW i \in 1..l PROVE Run(n, e[i - 1] - n) \o R(i) = Run(n, e[i] - n)
    <2>1. i - 1 \in 0..l /\ e[i - 1] \in Nat /\ n <= e[i - 1] /\ R(i) \in Seq(Nat) /\ Len(R(i)) \in Nat
        BY <1>2, <1>4, <1>6, <1>7
    <2>2. e[i - 1] - n \in Nat /\ e[i] - n = (e[i - 1] - n) + Len(R(i))
        BY <1>6, <2>1
    <2>3. \A k \in 1..Len(R(i)) : R(i)[k] = n + (e[i - 1] - n) + k
        BY <1>6, <2>1
    <2> DEFINE j == e[i - 1] - n
    <2>4. j \in Nat /\ e[i] - n = j + Len(R(i)) /\ \A k \in 1..Len(R(i)) : R(i)[k] = n + j + k
        BY <2>2, <2>3, Zenon
    <2> HIDE DEF j
    <2>5. Run(n, j) \o R(i) = Run(n, j + Len(R(i)))
        BY <2>1, <2>4, RunGoesOn, Zenon
    <2> QED BY <2>4, <2>5, Zenon DEF j
<1>9. g = G(g)
    <2> SUFFICES ASSUME NEW i \in 0..l PROVE g[i] = IF i = 0 THEN <<>> ELSE g[i - 1] \o R(i)
        BY Zenon
    <2>1. CASE i = 0
        <3>1. e[0] - n = 0
            BY <1>4
        <3> QED BY <2>1, <3>1, RunIs, Zenon
    <2>2. CASE i # 0
        <3>1. i \in 1..l /\ i - 1 \in 0..l
            BY <1>2, <2>2
        <3>2. g[i] = Run(n, e[i] - n) /\ g[i - 1] = Run(n, e[i - 1] - n)
            BY <3>1, Zenon
        <3> QED BY <1>8, <2>2, <3>1, <3>2, Zenon
    <2> QED BY <2>1, <2>2
<1>10. rest = G(rest)
    <2> HIDE DEF G, g
    <2> QED BY <1>9, Zenon
<1>11. rest[0] = <<>> /\ \A i \in 1..l : rest[i] = rest[i - 1] \o R(i)
    <2> HIDE DEF rest
    <2>1. \A i \in 0..l : rest[i] = IF i = 0 THEN <<>> ELSE rest[i - 1] \o R(i)
        BY <1>10, Zenon
    <2>2. 0 \in 0..l /\ \A i \in 1..l : i \in 0..l /\ i # 0
        BY <1>2
    <2> QED BY <2>1, <2>2, Zenon
<1> HIDE DEF rest, G, g
<1>12. \A i \in 0..l : rest[i] = Run(n, e[i] - n)
    <2> DEFINE S == {i \in 0..l : rest[i] # Run(n, e[i] - n)}
    <2>1. CASE S # {}
        <3>1. S \subseteq Nat
            BY <1>2
        <3>2. PICK i \in S : \A j \in S : i <= j
            BY <2>1, <3>1, LeastOf, Zenon
        <3>3. i # 0
            <4>1. e[0] - n = 0
                BY <1>4
            <4>2. Run(n, e[0] - n) = <<>>
                BY <4>1, RunIs, Zenon
            <4> QED BY <1>11, <3>2, <4>2
        <3>4. i \in 1..l /\ i - 1 \in 0..l /\ i - 1 \notin S
            BY <1>2, <3>1, <3>2, <3>3
        <3>5. rest[i - 1] = Run(n, e[i - 1] - n)
            BY <3>4
        <3>6. rest[i] = Run(n, e[i] - n)
            BY <1>8, <1>11, <3>4, <3>5, Zenon
        <3> QED BY <3>2, <3>6
    <2> QED BY <2>1
<1>13. l \in 0..l
    BY <1>2
<1> QED BY <1>1, <1>5, <1>7, <1>12, <1>13, Zenon

-----------------------------------------------------------------------------
(* The steps together, and what the invariant says.                            *)

LEMMA NextInv == Inv /\ [Next]_vars => Inv'
<1> SUFFICES ASSUME Inv, [Next]_vars PROVE Inv'
    OBVIOUS
<1>1. CASE Resolved
    BY <1>1, ResolvedStep, Zenon
<1>2. CASE Establish
    BY <1>2, EstablishStep, Zenon
<1>3. CASE Connected
    BY <1>3, ConnectedStep, Zenon
<1>4. CASE Reconnect
    BY <1>4, ReconnectStep, Zenon
<1>5. CASE Handshaken
    BY <1>5, HandshakenStep, Zenon
<1>6. CASE TrafficTick
    BY <1>6, TrafficTickStep, Zenon
<1>7. CASE IdleExpires \/ ReleaseObj \/ Release \/ CloseUpstream
    BY <1>7, EndStep, Zenon
<1>8. CASE \E d \in Dir : ReadSome(d)
    BY <1>8, ReadSomeStep, Zenon
<1>9. CASE \E d \in Dir : ReadEnds(d)
    BY <1>9, ReadEndsStep, Zenon
<1>10. CASE \E d \in Dir : WriteFails(d)
    BY <1>10, WriteFailsStep, Zenon
<1>11. CASE \E d \in Dir, n \in 1..BufferChunks : WriteSome(d, n)
    BY <1>11, WriteSomeStep, Zenon
<1>12. CASE \E s \in Side : PeerBreaks(s)
    BY <1>12, PeerBreaksStep, Zenon
<1>13. CASE UNCHANGED vars
    BY <1>13, Zenon DEF vars, script, data, Inv, Delivered
<1> QED BY <1>1, <1>2, <1>3, <1>4, <1>5, <1>6, <1>7, <1>8, <1>9, <1>10, <1>11, <1>12, <1>13, Zenon DEF Next

LEMMA Invariant == Spec => []Inv
BY InitInv, NextInv, PTL DEF Spec

(* The buffers a connection caches stay within their size and are written no    *)
(* further than they are filled, and every field of the connection keeps its    *)
(* type, through every order of reads, writes, half closes, speed ticks and the *)
(* release.                                                                     *)
THEOREM Types == Spec => []TypeOK
<1>1. Inv => TypeOK
    <2> SUFFICES ASSUME Inv PROVE TypeOK
        OBVIOUS
    <2>1. conn \in Connection /\ \A d \in Dir : Shape(conn.cache[d])
        BY Zenon DEF Inv, Good, GoodDir
    <2>2. \A d \in Dir : \A i \in 1..Len(conn.cache[d]) :
             Len(conn.cache[d][i].data) <= BufferChunks /\ conn.cache[d][i].sent <= Len(conn.cache[d][i].data)
        BY <2>1, Zenon DEF Shape
    <2> QED BY <2>1, <2>2, Zenon DEF Inv, TypeOK
<1> QED BY <1>1, Invariant, PTL

(* A read is never issued on a socket that has one in flight, nor a write:      *)
(* DoStartRead after the speed control stopped a reader, after a handler and    *)
(* after a half close, and HandleStartWrite from the reader and from the        *)
(* writer, start an operation only when the one before it is over.              *)
THEOREM OneOperation == Spec => []OneOperationEach
<1>1. Inv => OneOperationEach
    BY Zenon DEF Inv, Good, OneOperationEach
<1> QED BY <1>1, Invariant, PTL

(* What a direction delivered is a prefix of what it read, and while the        *)
(* connection is valid what it delivered and what its buffers still hold is all *)
(* it read, in order: for every buffer size, every number of buffers and every  *)
(* split of the writes.                                                         *)
THEOREM NothingLost == Spec => []NothingLostInside
<1>1. Inv => NothingLostInside
    <2> SUFFICES ASSUME Inv, NEW d \in Dir
                 PROVE  /\ delivered[d] = [i \in 1..Len(delivered[d]) |-> i]
                        /\ conn.valid => delivered[d] \o Unsent(conn.cache[d]) = [i \in 1..taken[d] |-> i]
        BY Zenon DEF NothingLostInside
    <2> DEFINE a == delivered[d]
               n == Len(a)
               m == taken[d]
               q == conn.cache[d]
    <2>1. a \in Seq(Nat) /\ n \in Nat /\ m \in Nat /\ \A i \in 1..n : a[i] = i
        BY DEF Inv
    <2>2. Shape(q) /\ (conn.valid => Linked(q, n, m))
        <3>1. GoodDir(conn, d, Delivered[d], taken[d])
            BY Zenon DEF Inv, Good
        <3>2. Delivered[d] = n
            BY DeliveredType, Zenon DEF Inv
        <3> QED BY <3>1, <3>2, Zenon DEF GoodDir
    <2> HIDE DEF a, m, q
    <2>3. a = [i \in 1..n |-> i]
        BY <2>1
    <2>4. \A j \in Nat : Run(0, j) = [i \in 1..j |-> i]
        BY DEF Run
    <2>5. ASSUME conn.valid PROVE a \o Unsent(q) = [i \in 1..m |-> i]
        <3>1. n <= m /\ Unsent(q) = Run(n, m - n)
            BY <2>1, <2>2, <2>5, UnsentIs, Zenon
        <3> DEFINE s == Run(n, m - n)
        <3>2. m - n \in Nat /\ 0 \in Nat /\ n + (m - n) = m
            BY <2>1, <3>1
        <3>3. s \in Seq(Nat) /\ Len(s) = m - n /\ \A k \in 1..m - n : s[k] = n + k
            BY <2>1, <3>2, RunIs, Zenon
        <3> HIDE DEF s
        <3>4. \A k \in 1..Len(s) : s[k] = 0 + n + k
            BY <2>1, <3>3
        <3>5. Run(0, n) \o s = Run(0, n + Len(s))
            BY <2>1, <3>2, <3>3, <3>4, RunGoesOn, Zenon
        <3>6. a = Run(0, n) /\ Run(0, n + Len(s)) = [i \in 1..m |-> i]
            BY <2>1, <2>3, <2>4, <3>2, <3>3, Zenon
        <3> QED BY <3>1, <3>5, <3>6, Zenon DEF s
    <2> QED BY <2>3, <2>5, Zenon DEF a, m, q
<1> QED BY <1>1, Invariant, PTL
=============================================================================
