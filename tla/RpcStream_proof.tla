-------------------------- MODULE RpcStream_proof --------------------------
(***************************************************************************)
(* What a stream delivers, for any scripts of the two users, any limits of  *)
(* the caches and the queue, and any number of messages.                    *)
(***************************************************************************)
EXTENDS RpcStream, TLAPS

(* The largest cache a pause allows.                                        *)
Limit(e) == ReadMax[e] + (IF e = "server" THEN 1 ELSE 2)

(* The read loop and its pause: a cache at the limit belongs to a reader    *)
(* that is paused with no read in flight, or that caches nothing any more.  *)
Paused(e) ==
    /\ io[e] # "free" \/ pausing[e] => ~reading[e]
    /\ io[e] = "check" => ~pausing[e]
    /\ io[e] = "next" => finishing[e] \/ pausing[e] \/ Len(cache[e]) < Limit(e) - 1
    /\ Len(cache[e]) <= Limit(e)
    /\ Len(cache[e]) = Limit(e) => finishing[e] \/ (pausing[e] /\ io[e] = "free")

(* How an end goes away: what has ended is no longer valid, and an end that *)
(* has closed its socket alone has written its last frame.                  *)
Ending(e) ==
    /\ Over(e) => ~valid[e]
    /\ io[e] # "free" => status[e] = data
    /\ \A i \in 1..Len(posted[e]) : posted[e][i].type = release => ~valid[e]
    /\ writing[e] => write_cache[e] # <<>>
    /\ ~open[e] /\ open[Peer(e)] => ~valid[e] /\ ~writing[e]

(* The data frames of q are the messages lo + 1 to hi, in this order.       *)
Line(q, lo, hi) ==
    /\ lo \in Nat /\ hi \in Nat /\ lo <= hi
    /\ \A i \in 1..Len(q) : q[i].type = data => q[i].message \in (lo + 1)..hi
    /\ \A m \in (lo + 1)..hi : \E i \in 1..Len(q) : q[i].type = data /\ q[i].message = m
    /\ \A i, j \in 1..Len(q) :
          i < j /\ q[i].type = data /\ q[j].type = data => q[i].message < q[j].message

(* A write_done in q, whose last message is hi, is behind all m messages,   *)
(* and no other Write will come.                                            *)
Sealed(q, hi, m, last) ==
    \A i \in 1..Len(q) : q[i].type = write_done =>
        last /\ hi = m /\ \A j \in 1..Len(q) : i < j => q[j].type # data

NoWrites(k) == \A i \in 1..Len(k) : k[i] # "write"
DoneLast(k) == \A i, j \in 1..Len(k) : i < j /\ k[i] = "done" => k[j] # "write"

(* From the n messages the reader has taken to the m the writer has         *)
(* accepted: on the wire, in the queue of a writer that is open, and posted *)
(* by one that is valid.  Where the user keeps its promise, the same for    *)
(* write_done.                                                              *)
Chain(w, q, s, o, v, n, m, last, promise) ==
    \E a, b \in 0..m :
        /\ Line(w, n, a) /\ (o => Line(q, a, b)) /\ (o /\ v => Line(s, b, m))
        /\ promise => Sealed(w, a, m, last) /\ (o => Sealed(q, b, m, last))
                      /\ (o /\ v => Sealed(s, m, m, last))

Seen(e) == Len(received[e]) + Len(cache[e])
Taken(e) == IF io[e] = "free" THEN Seen(e) ELSE Seen(e) + 1

(* What the reader has is the beginning of what the writer has accepted.    *)
Ordered(e) ==
    /\ \A i \in 1..Len(received[e]) : received[e][i] = i
    /\ \A i \in 1..Len(cache[e]) : cache[e][i] = Len(received[e]) + i
    /\ Seen(e) <= written[Peer(e)]
    /\ io[e] # "free" /\ ~finishing[e] => current[e] = Seen(e) + 1 /\ current[e] <= written[Peer(e)]

(* As long as the reader takes messages, none is missing before it.         *)
Takes(e) == open[e] /\ ~Over(e) /\ ~finishing[e]
Linked(e) ==
    Takes(Peer(e)) => Chain(wire[e], write_cache[e], posted[e], open[e], valid[e], Taken(Peer(e)), written[e],
                            NoWrites(script[e]), WriteDoneIsLast(e))

(* The calls that are left keep the promise, and the second half of Finish  *)
(* comes after the first.                                                   *)
Calling(e) ==
    /\ WriteDoneIsLast(e) => DoneLast(script[e])
    /\ \A i \in 1..Len(script[e]) : script[e][i] = "post" => finishing[e]

(* A server that has met the write_done of the client has all its messages. *)
Complete ==
    WriteDoneIsLast("client") =>
        /\ status["server"] = write_done => success["server"]
        /\ success["server"] =>
              /\ status["server"] >= write_done
              /\ ~finishing["server"] => NoWrites(script["client"]) /\ Seen("server") >= written["client"]

Inv ==
    /\ TypeOK
    /\ \A e \in End : Paused(e) /\ Ending(e) /\ Ordered(e) /\ Linked(e) /\ Calling(e)
    /\ Complete

-----------------------------------------------------------------------------
(* Lines of frames.                                                         *)

(* The two ends.                                                            *)
LEMMA Peers ==
    ASSUME NEW e \in End
    PROVE  /\ Peer(e) \in End /\ Peer(e) # e /\ Peer(Peer(e)) = e
           /\ \A d \in End : d = e \/ d = Peer(e)
BY Zenon DEF End, Peer

LEMMA LineEmpty ==
    ASSUME NEW n \in Nat
    PROVE  Line(<<>>, n, n)
BY DEF Line

LEMMA SealedEmpty ==
    ASSUME NEW hi, NEW m, NEW last
    PROVE  Sealed(<<>>, hi, m, last)
BY DEF Sealed

(* A frame that carries no message goes unnoticed at the end of a line.     *)
LEMMA LineAppendOther ==
    ASSUME NEW S, NEW q \in Seq(S), NEW f \in S, f.type # data,
           NEW lo, NEW hi, Line(q, lo, hi)
    PROVE  Line(Append(q, f), lo, hi)
<1> DEFINE r == Append(q, f)
<1>1. Len(r) = Len(q) + 1 /\ Len(q) \in Nat /\ \A i \in 1..Len(r) : r[i] = IF i <= Len(q) THEN q[i] ELSE f
    OBVIOUS
<1> HIDE DEF r
<1>2. \A i \in 1..Len(r) : r[i].type = data => i \in 1..Len(q) /\ r[i] = q[i]
    BY <1>1
<1>3. \A i \in 1..Len(q) : i \in 1..Len(r) /\ r[i] = q[i]
    BY <1>1
<1>4. Line(r, lo, hi)
    BY <1>2, <1>3, Zenon DEF Line
<1> QED
    BY <1>4, Zenon DEF r

(* The next message continues it.                                           *)
LEMMA LineAppendData ==
    ASSUME NEW S, NEW q \in Seq(S), NEW f \in S, NEW lo, NEW hi, Line(q, lo, hi),
           f.type = data, f.message = hi + 1
    PROVE  Line(Append(q, f), lo, hi + 1)
<1> DEFINE r == Append(q, f)
<1>1. Len(r) = Len(q) + 1 /\ Len(q) \in Nat /\ \A i \in 1..Len(r) : r[i] = IF i <= Len(q) THEN q[i] ELSE f
    OBVIOUS
<1> HIDE DEF r
<1>0. lo \in Nat /\ hi \in Nat /\ lo <= hi
    BY Zenon DEF Line
<1>2. \A i \in 1..Len(r) : \/ i \in 1..Len(q) /\ r[i] = q[i]
                           \/ i = Len(q) + 1 /\ r[i] = f
    BY <1>1
<1>3. \A i \in 1..Len(q) : i \in 1..Len(r) /\ r[i] = q[i]
    BY <1>1
<1>4. Len(q) + 1 \in 1..Len(r) /\ r[Len(q) + 1] = f
    BY <1>1
<1>5. \A i \in 1..Len(r) : r[i].type = data => r[i].message \in (lo + 1)..(hi + 1)
    BY <1>0, <1>2 DEF Line
<1>6. ASSUME NEW m \in (lo + 1)..(hi + 1)
      PROVE  \E i \in 1..Len(r) : r[i].type = data /\ r[i].message = m
    <2>1. CASE m = hi + 1
        BY <2>1, <1>4, Zenon
    <2>2. CASE m # hi + 1
        <3>1. m \in (lo + 1)..hi
            BY <2>2, <1>0
        <3> QED
            BY <3>1, <1>3, Zenon DEF Line
    <2> QED
        BY <2>1, <2>2, Zenon
<1>7. \A i, j \in 1..Len(r) :
          i < j /\ r[i].type = data /\ r[j].type = data => r[i].message < r[j].message
    <2> SUFFICES ASSUME NEW i \in 1..Len(r), NEW j \in 1..Len(r), i < j, r[i].type = data, r[j].type = data
                 PROVE  r[i].message < r[j].message
        BY Zenon
    <2>1. i \in 1..Len(q) /\ r[i] = q[i]
        BY <1>1, <1>2
    <2>2. q[i].message \in (lo + 1)..hi
        BY <2>1, Zenon DEF Line
    <2>3. CASE j \in 1..Len(q) /\ r[j] = q[j]
        BY <2>1, <2>3, Zenon DEF Line
    <2>4. CASE r[j] = f
        BY <2>1, <2>2, <2>4, <1>0
    <2> QED
        BY <2>3, <2>4, <1>2, Zenon
<1>8. Line(r, lo, hi + 1)
    BY <1>0, <1>5, <1>6, <1>7 DEF Line
<1> QED
    BY <1>8, Zenon DEF r

(* The first frame leaves.                                                  *)
LEMMA LineTailOther ==
    ASSUME NEW S, NEW q \in Seq(S), q # <<>>, Head(q).type # data, NEW lo, NEW hi, Line(q, lo, hi)
    PROVE  Line(Tail(q), lo, hi)
<1> DEFINE r == Tail(q)
<1>1. Len(q) \in Nat /\ Len(q) >= 1 /\ Len(r) = Len(q) - 1 /\ Head(q) = q[1] /\ \A i \in 1..Len(r) : r[i] = q[i + 1]
    OBVIOUS
<1> HIDE DEF r
<1>2. \A i \in 1..Len(r) : i + 1 \in 1..Len(q) /\ r[i] = q[i + 1]
    BY <1>1
<1>3. \A i \in 1..Len(q) : q[i].type = data => i - 1 \in 1..Len(r) /\ r[i - 1] = q[i]
    BY <1>1
<1>4. \A i \in 1..Len(r) : r[i].type = data => r[i].message \in (lo + 1)..hi
    BY <1>2 DEF Line
<1>5. \A m \in (lo + 1)..hi : \E i \in 1..Len(r) : r[i].type = data /\ r[i].message = m
    BY <1>3 DEF Line
<1>6. ASSUME NEW i \in 1..Len(r), NEW j \in 1..Len(r), i < j, r[i].type = data, r[j].type = data
      PROVE  r[i].message < r[j].message
    <2>1. i + 1 \in 1..Len(q) /\ j + 1 \in 1..Len(q) /\ i + 1 < j + 1
        BY <1>2, <1>6
    <2>2. r[i] = q[i + 1] /\ r[j] = q[j + 1]
        BY <1>2, Zenon
    <2>3. q[i + 1].message < q[j + 1].message
        BY <2>1, <2>2, <1>6, Zenon DEF Line
    <2> QED
        BY <2>2, <2>3, Zenon
<1>7. Line(r, lo, hi)
    BY <1>4, <1>5, <1>6, Zenon DEF Line
<1> QED
    BY <1>7, Zenon DEF r

LEMMA LineTailData ==
    ASSUME NEW S, NEW q \in Seq(S), q # <<>>, Head(q).type = data, NEW lo, NEW hi, Line(q, lo, hi)
    PROVE  Head(q).message = lo + 1 /\ lo < hi /\ Line(Tail(q), lo + 1, hi)
<1> DEFINE r == Tail(q)
<1>1. Len(q) \in Nat /\ Len(q) >= 1 /\ Len(r) = Len(q) - 1 /\ Head(q) = q[1] /\ \A i \in 1..Len(r) : r[i] = q[i + 1]
    OBVIOUS
<1> HIDE DEF r
<1>0. lo \in Nat /\ hi \in Nat /\ lo <= hi
    BY Zenon DEF Line
<1>2. \A i \in 1..Len(r) : i + 1 \in 1..Len(q) /\ r[i] = q[i + 1]
    BY <1>1
<1>a. 1 \in 1..Len(q) /\ q[1].type = data
    BY <1>1
<1>b. q[1].message \in (lo + 1)..hi
    BY <1>a, Zenon DEF Line
<1>c. lo + 1 \in (lo + 1)..hi
    BY <1>b, <1>0
<1>d. PICK k \in 1..Len(q) : q[k].type = data /\ q[k].message = lo + 1
    BY <1>c, Zenon DEF Line
<1>e. k = 1
    <2> SUFFICES ASSUME k # 1 PROVE FALSE
        BY Zenon
    <2>1. 1 < k
        OBVIOUS
    <2>2. q[1].message < q[k].message
        BY <2>1, <1>a, <1>d, Zenon DEF Line
    <2> QED
        BY <2>2, <1>b, <1>d, <1>0
<1>f. q[1].message = lo + 1
    BY <1>d, <1>e, Zenon
<1>4. ASSUME NEW i \in 1..Len(r), r[i].type = data PROVE r[i].message \in (lo + 2)..hi
    <2>1. q[i + 1].message \in (lo + 1)..hi
        BY <1>2, <1>4, Zenon DEF Line
    <2>2. 1 < i + 1 /\ i + 1 \in 1..Len(q) /\ q[i + 1].type = data
        BY <1>2, <1>4
    <2>3. q[1].message < q[i + 1].message
        BY <2>2, <1>a, Zenon DEF Line
    <2> QED
        BY <2>1, <2>3, <1>2, <1>f, <1>0
<1>5. ASSUME NEW m \in (lo + 2)..hi PROVE \E i \in 1..Len(r) : r[i].type = data /\ r[i].message = m
    <2>1. m \in (lo + 1)..hi
        BY <1>0
    <2>2. PICK i \in 1..Len(q) : q[i].type = data /\ q[i].message = m
        BY <2>1, Zenon DEF Line
    <2>3. i # 1
        BY <2>2, <1>f, <1>0
    <2>4. i - 1 \in 1..Len(r) /\ r[i - 1] = q[i]
        BY <2>3, <1>1
    <2> QED
        BY <2>2, <2>4, Zenon
<1>6. ASSUME NEW i \in 1..Len(r), NEW j \in 1..Len(r), i < j, r[i].type = data, r[j].type = data
      PROVE  r[i].message < r[j].message
    <2>1. i + 1 \in 1..Len(q) /\ j + 1 \in 1..Len(q) /\ i + 1 < j + 1
        BY <1>2, <1>6
    <2>2. r[i] = q[i + 1] /\ r[j] = q[j + 1]
        BY <1>2, Zenon
    <2>3. q[i + 1].message < q[j + 1].message
        BY <2>1, <2>2, <1>6, Zenon DEF Line
    <2> QED
        BY <2>2, <2>3, Zenon
<1>7. lo + 1 \in Nat /\ lo + 1 <= hi /\ (lo + 1) + 1 = lo + 2
    BY <1>0, <1>c
<1>8. Line(r, lo + 1, hi)
    BY <1>0, <1>4, <1>5, <1>6, <1>7, Zenon DEF Line
<1> QED
    BY <1>8, <1>f, <1>7, <1>1, <1>0 DEF r

(* The same of a write_done in the line.                                    *)
LEMMA SealedAppend ==
    ASSUME NEW S, NEW q \in Seq(S), NEW f \in S, f.type # data, NEW hi, NEW m, NEW last,
           Sealed(q, hi, m, last), f.type = write_done => last /\ hi = m
    PROVE  Sealed(Append(q, f), hi, m, last)
<1> DEFINE r == Append(q, f)
<1>1. Len(r) = Len(q) + 1 /\ Len(q) \in Nat /\ \A i \in 1..Len(r) : r[i] = IF i <= Len(q) THEN q[i] ELSE f
    OBVIOUS
<1> HIDE DEF r
<1>2. \A i \in 1..Len(r) : \/ i \in 1..Len(q) /\ r[i] = q[i]
                           \/ i = Len(q) + 1 /\ r[i] = f
    BY <1>1
<1>3. ASSUME NEW i \in 1..Len(r), r[i].type = write_done
      PROVE  last /\ hi = m /\ \A j \in 1..Len(r) : i < j => r[j].type # data
    <2>1. CASE i \in 1..Len(q) /\ r[i] = q[i]
        BY <2>1, <1>2, <1>3, Zenon DEF Sealed
    <2>2. CASE i = Len(q) + 1 /\ r[i] = f
        BY <2>2, <1>1, <1>3
    <2> QED
        BY <2>1, <2>2, <1>2, Zenon
<1>4. Sealed(r, hi, m, last)
    BY <1>3, Zenon DEF Sealed
<1> QED
    BY <1>4, Zenon DEF r

(* Where more Writes may come there is no write_done yet.                   *)
LEMMA SealedAppendData ==
    ASSUME NEW S, NEW q \in Seq(S), NEW f \in S, f.type = data, NEW hi, NEW m, NEW last,
           Sealed(q, hi, m, last), ~(last /\ hi = m), NEW high, NEW most, NEW final
    PROVE  Sealed(Append(q, f), high, most, final)
<1> DEFINE r == Append(q, f)
<1>1. Len(r) = Len(q) + 1 /\ Len(q) \in Nat /\ \A i \in 1..Len(r) : r[i] = IF i <= Len(q) THEN q[i] ELSE f
    OBVIOUS
<1> HIDE DEF r
<1>2. \A i \in 1..Len(q) : q[i].type # write_done
    BY Zenon DEF Sealed
<1>3. \A i \in 1..Len(r) : r[i].type # write_done
    BY <1>1, <1>2 DEF data, write_done
<1>4. Sealed(r, high, most, final)
    BY <1>3, Zenon DEF Sealed
<1> QED
    BY <1>4, Zenon DEF r

LEMMA SealedTail ==
    ASSUME NEW S, NEW q \in Seq(S), q # <<>>, NEW hi, NEW m, NEW last, Sealed(q, hi, m, last)
    PROVE  Sealed(Tail(q), hi, m, last)
<1> DEFINE r == Tail(q)
<1>1. Len(q) \in Nat /\ Len(q) >= 1 /\ Len(r) = Len(q) - 1 /\ \A i \in 1..Len(r) : r[i] = q[i + 1]
    OBVIOUS
<1> HIDE DEF r
<1>2. \A i \in 1..Len(r) : i + 1 \in 1..Len(q) /\ r[i] = q[i + 1]
    BY <1>1
<1>3. ASSUME NEW i \in 1..Len(r), r[i].type = write_done
      PROVE  last /\ hi = m /\ \A j \in 1..Len(r) : i < j => r[j].type # data
    <2>1. q[i + 1].type = write_done /\ i + 1 \in 1..Len(q)
        BY <1>2, <1>3, Zenon
    <2>2. last /\ hi = m /\ \A j \in 1..Len(q) : i + 1 < j => q[j].type # data
        BY <2>1, Zenon DEF Sealed
    <2>3. ASSUME NEW j \in 1..Len(r), i < j PROVE r[j].type # data
        <3>1. j + 1 \in 1..Len(q) /\ i + 1 < j + 1 /\ r[j] = q[j + 1]
            BY <2>3, <1>2
        <3> QED
            BY <3>1, <2>2, Zenon
    <2> QED
        BY <2>2, <2>3, Zenon
<1>4. Sealed(r, hi, m, last)
    BY <1>3, Zenon DEF Sealed
<1> QED
    BY <1>4, Zenon DEF r

(* Behind a write_done at the front nothing is missing.                     *)
LEMMA SealedHead ==
    ASSUME NEW S, NEW q \in Seq(S), q # <<>>, Head(q).type = write_done, NEW lo, NEW hi, NEW m, NEW last,
           Line(q, lo, hi), Sealed(q, hi, m, last)
    PROVE  last /\ lo = m /\ hi = m
<1>1. Len(q) \in Nat /\ Len(q) >= 1 /\ Head(q) = q[1] /\ 1 \in 1..Len(q)
    OBVIOUS
<1>2. last /\ hi = m /\ \A j \in 1..Len(q) : 1 < j => q[j].type # data
    BY <1>1, Zenon DEF Sealed
<1>3. \A j \in 1..Len(q) : q[j].type # data
    BY <1>1, <1>2 DEF write_done, data
<1>4. lo \in Nat /\ hi \in Nat /\ lo <= hi
    BY Zenon DEF Line
<1>5. ASSUME lo < hi PROVE FALSE
    <2>1. lo + 1 \in (lo + 1)..hi
        BY <1>4, <1>5
    <2> QED
        BY <2>1, <1>3, Zenon DEF Line
<1> QED
    BY <1>2, <1>4, <1>5

(* A promise kept becomes no weaker.                                        *)
LEMMA SealedLast ==
    ASSUME NEW q, NEW hi, NEW m, NEW last, NEW final, Sealed(q, hi, m, last), last => final
    PROVE  Sealed(q, hi, m, final)
BY Zenon DEF Sealed

(* A message more, where no write_done has been posted.                     *)
LEMMA SealedMore ==
    ASSUME NEW q, NEW hi, NEW m, NEW last, NEW high, NEW most, NEW final, Sealed(q, hi, m, last), ~last
    PROVE  Sealed(q, high, most, final)
BY Zenon DEF Sealed

-----------------------------------------------------------------------------
(* Chains.                                                                  *)

(* A writer that is no longer valid or open owes less.                      *)
LEMMA ChainWeaker ==
    ASSUME NEW w, NEW q, NEW s, NEW o, NEW v, NEW n, NEW m, NEW last, NEW promise,
           Chain(w, q, s, o, v, n, m, last, promise),
           NEW o2, NEW v2, NEW last2, o2 => o, v2 => v, last => last2
    PROVE  Chain(w, q, s, o2, v2, n, m, last2, promise)
<1>1. PICK a \in 0..m, b \in 0..m :
        /\ Line(w, n, a) /\ (o => Line(q, a, b)) /\ (o /\ v => Line(s, b, m))
        /\ promise => Sealed(w, a, m, last) /\ (o => Sealed(q, b, m, last))
                      /\ (o /\ v => Sealed(s, m, m, last))
    BY Zenon DEF Chain
<1>2. /\ Line(w, n, a) /\ (o2 => Line(q, a, b)) /\ (o2 /\ v2 => Line(s, b, m))
      /\ promise => Sealed(w, a, m, last2) /\ (o2 => Sealed(q, b, m, last2))
                    /\ (o2 /\ v2 => Sealed(s, m, m, last2))
    BY <1>1, SealedLast
<1> QED
    BY <1>2, Zenon DEF Chain

(* A writer that has closed owes nothing but what is on the wire.           *)
LEMMA ChainClosed ==
    ASSUME NEW w, NEW q, NEW s, NEW o, NEW v, NEW n, NEW m, NEW last, NEW promise,
           Chain(w, q, s, o, v, n, m, last, promise), NEW q2, NEW s2, NEW v2
    PROVE  Chain(w, q2, s2, FALSE, v2, n, m, last, promise)
BY Zenon DEF Chain

(* And not even that when the connection was reset.                         *)
LEMMA ChainReset ==
    ASSUME NEW w, NEW q, NEW s, NEW o, NEW v, NEW n, NEW m \in Nat, NEW last, NEW promise,
           Chain(w, q, s, o, v, n, m, last, promise), NEW q2, NEW s2, NEW v2
    PROVE  Chain(<<>>, q2, s2, FALSE, v2, n, m, last, promise)
<1>1. PICK a \in 0..m : Line(w, n, a)
    BY Zenon DEF Chain
<1>2. n \in 0..m
    BY <1>1 DEF Line
<1>3. Line(<<>>, n, n) /\ Sealed(<<>>, n, m, last)
    BY <1>2, LineEmpty, SealedEmpty
<1> QED
    BY <1>2, <1>3, Zenon DEF Chain

(* The queue of a writer that has ended is dropped.                         *)
LEMMA ChainDropped ==
    ASSUME NEW w, NEW q, NEW s, NEW o, NEW v, NEW n, NEW m \in Nat, NEW last, NEW promise,
           Chain(w, q, s, o, v, n, m, last, promise), NEW s2
    PROVE  Chain(w, <<>>, s2, o, FALSE, n, m, last, promise)
<1>1. PICK a \in 0..m : Line(w, n, a) /\ (promise => Sealed(w, a, m, last))
    BY Zenon DEF Chain
<1>2. Line(<<>>, a, a) /\ Sealed(<<>>, a, m, last)
    BY LineEmpty, SealedEmpty
<1> QED
    BY <1>1, <1>2, Zenon DEF Chain

(* The bounds of a chain.                                                   *)
LEMMA ChainBound ==
    ASSUME NEW w, NEW q, NEW s, NEW o, NEW v, NEW n, NEW m \in Nat, NEW last, NEW promise,
           Chain(w, q, s, o, v, n, m, last, promise)
    PROVE  n \in 0..m
BY DEF Chain, Line

(* Something that is neither a message nor write_done is posted.            *)
LEMMA ChainPostOther ==
    ASSUME NEW S, NEW w, NEW q, NEW s \in Seq(S), NEW o, NEW v, NEW n, NEW m, NEW last, NEW promise,
           Chain(w, q, s, o, v, n, m, last, promise),
           NEW f \in S, f.type # data, f.type # write_done
    PROVE  Chain(w, q, Append(s, f), o, v, n, m, last, promise)
<1>1. PICK a \in 0..m, b \in 0..m :
        /\ Line(w, n, a) /\ (o => Line(q, a, b)) /\ (o /\ v => Line(s, b, m))
        /\ promise => Sealed(w, a, m, last) /\ (o => Sealed(q, b, m, last))
                      /\ (o /\ v => Sealed(s, m, m, last))
    BY Zenon DEF Chain
<1>2. o /\ v => Line(Append(s, f), b, m)
    BY <1>1, LineAppendOther, Zenon
<1>3. promise /\ o /\ v => Sealed(Append(s, f), m, m, last)
    BY <1>1, SealedAppend, Zenon
<1> QED
    BY <1>1, <1>2, <1>3, Zenon DEF Chain

(* WriteDone posts, and the script says that no Write will come.            *)
LEMMA ChainPostDone ==
    ASSUME NEW S, NEW w, NEW q, NEW s \in Seq(S), NEW o, NEW v, NEW n, NEW m, NEW last, NEW promise,
           Chain(w, q, s, o, v, n, m, last, promise),
           NEW f \in S, f.type # data, NEW last2, last => last2, promise => last2
    PROVE  Chain(w, q, Append(s, f), o, v, n, m, last2, promise)
<1>0. Chain(w, q, s, o, v, n, m, last2, promise)
    BY ChainWeaker
<1>1. PICK a \in 0..m, b \in 0..m :
        /\ Line(w, n, a) /\ (o => Line(q, a, b)) /\ (o /\ v => Line(s, b, m))
        /\ promise => Sealed(w, a, m, last2) /\ (o => Sealed(q, b, m, last2))
                      /\ (o /\ v => Sealed(s, m, m, last2))
    BY <1>0, Zenon DEF Chain
<1>2. o /\ v => Line(Append(s, f), b, m)
    BY <1>1, LineAppendOther, Zenon
<1>3. promise /\ o /\ v => Sealed(Append(s, f), m, m, last2)
    BY <1>1, SealedAppend, Zenon
<1> QED
    BY <1>1, <1>2, <1>3, Zenon DEF Chain

(* Write posts its message; it could not have come after write_done.        *)
LEMMA ChainPostData ==
    ASSUME NEW S, NEW w, NEW q, NEW s \in Seq(S), NEW o, NEW v, NEW n, NEW m \in Nat, NEW last, NEW promise,
           Chain(w, q, s, o, v, n, m, last, promise), ~last, NEW last2,
           NEW f \in S, f.type = data, f.message = m + 1
    PROVE  Chain(w, q, Append(s, f), o, v, n, m + 1, last2, promise)
<1>1. PICK a \in 0..m, b \in 0..m :
        /\ Line(w, n, a) /\ (o => Line(q, a, b)) /\ (o /\ v => Line(s, b, m))
        /\ promise => Sealed(w, a, m, last) /\ (o => Sealed(q, b, m, last))
                      /\ (o /\ v => Sealed(s, m, m, last))
    BY Zenon DEF Chain
<1>2. o /\ v => Line(Append(s, f), b, m + 1)
    BY <1>1, LineAppendData, Zenon
<1>3. promise /\ o /\ v => Sealed(Append(s, f), m + 1, m + 1, last2)
    BY <1>1, SealedAppendData
<1>4. promise => Sealed(w, a, m + 1, last2) /\ (o => Sealed(q, b, m + 1, last2))
    BY <1>1, SealedMore
<1>5. a \in 0..(m + 1) /\ b \in 0..(m + 1)
    OBVIOUS
<1> QED
    BY <1>1, <1>2, <1>3, <1>4, <1>5, Zenon DEF Chain

(* A heartbeat is queued.                                                   *)
LEMMA ChainQueueOther ==
    ASSUME NEW S, NEW w, NEW q \in Seq(S), NEW s, NEW o, NEW v, NEW n, NEW m, NEW last, NEW promise,
           Chain(w, q, s, o, v, n, m, last, promise),
           NEW f \in S, f.type # data, f.type # write_done
    PROVE  Chain(w, Append(q, f), s, o, v, n, m, last, promise)
<1>1. PICK a \in 0..m, b \in 0..m :
        /\ Line(w, n, a) /\ (o => Line(q, a, b)) /\ (o /\ v => Line(s, b, m))
        /\ promise => Sealed(w, a, m, last) /\ (o => Sealed(q, b, m, last))
                      /\ (o /\ v => Sealed(s, m, m, last))
    BY Zenon DEF Chain
<1>2. o => Line(Append(q, f), a, b)
    BY <1>1, LineAppendOther, Zenon
<1>3. promise /\ o => Sealed(Append(q, f), b, m, last)
    BY <1>1, SealedAppend, Zenon
<1> QED
    BY <1>1, <1>2, <1>3, Zenon DEF Chain

(* A line hands its first frame on to the end of the one before it.         *)
LEMMA LinePass ==
    ASSUME NEW S, NEW T, NEW q \in Seq(S), NEW s \in Seq(T), s # <<>>, NEW f \in S, f = Head(s),
           NEW lo, NEW mid, NEW hi, NEW m, NEW last, NEW promise,
           Line(q, lo, mid), Line(s, mid, hi), hi <= m, hi \in Nat, m \in Nat,
           promise => Sealed(q, mid, m, last) /\ Sealed(s, hi, m, last)
    PROVE  \E c \in 0..m : /\ Line(Append(q, f), lo, c) /\ Line(Tail(s), c, hi)
                           /\ promise => Sealed(Append(q, f), c, m, last) /\ Sealed(Tail(s), hi, m, last)
<1>0. mid \in Nat /\ mid <= hi
    BY Zenon DEF Line
<1>a. promise => Sealed(Tail(s), hi, m, last)
    BY SealedTail, Zenon
<1>1. CASE f.type = data
    <2>1. Head(s).message = mid + 1 /\ mid < hi /\ Line(Tail(s), mid + 1, hi)
        BY <1>1, LineTailData, Zenon
    <2>2. Line(Append(q, f), lo, mid + 1)
        BY <1>1, <2>1, LineAppendData, Zenon
    <2>3. promise => Sealed(Append(q, f), mid + 1, m, last)
        <3> SUFFICES ASSUME promise PROVE Sealed(Append(q, f), mid + 1, m, last)
            BY Zenon
        <3>1. ~(last /\ mid = m)
            BY <2>1, <1>0
        <3> QED
            BY <1>1, <3>1, SealedAppendData, Zenon
    <2>4. mid + 1 \in 0..m
        BY <2>1, <1>0
    <2> QED
        BY <2>1, <2>2, <2>3, <2>4, <1>a, Zenon
<1>2. CASE f.type # data
    <2>1. Line(Tail(s), mid, hi)
        BY <1>2, LineTailOther, Zenon
    <2>2. Line(Append(q, f), lo, mid)
        BY <1>2, LineAppendOther, Zenon
    <2>3. promise => Sealed(Append(q, f), mid, m, last)
        <3> SUFFICES ASSUME promise PROVE Sealed(Append(q, f), mid, m, last)
            BY Zenon
        <3>1. f.type = write_done => last /\ mid = m /\ hi = m
            BY SealedHead, Zenon
        <3> QED
            BY <1>2, <3>1, SealedAppend, Zenon
    <2>4. mid \in 0..m
        BY <1>0
    <2> QED
        BY <2>1, <2>2, <2>3, <2>4, <1>a, Zenon
<1> QED
    BY <1>1, <1>2, Zenon

(* What is posted is queued.                                                *)
LEMMA ChainQueue ==
    ASSUME NEW S, NEW T, NEW w, NEW q \in Seq(S), NEW s \in Seq(T), NEW o, NEW n, NEW m \in Nat,
           NEW last, NEW promise, Chain(w, q, s, o, TRUE, n, m, last, promise),
           s # <<>>, NEW f \in S, f = Head(s)
    PROVE  Chain(w, Append(q, f), Tail(s), o, TRUE, n, m, last, promise)
<1>1. PICK a \in 0..m, b \in 0..m :
        /\ Line(w, n, a) /\ (o => Line(q, a, b)) /\ (o => Line(s, b, m))
        /\ promise => Sealed(w, a, m, last) /\ (o => Sealed(q, b, m, last)) /\ (o => Sealed(s, m, m, last))
    BY Zenon DEF Chain
<1>2. CASE o
    <2>0. m <= m
        OBVIOUS
    <2>1. \E c \in 0..m : /\ Line(Append(q, f), a, c) /\ Line(Tail(s), c, m)
                          /\ promise => Sealed(Append(q, f), c, m, last) /\ Sealed(Tail(s), m, m, last)
        BY <1>1, <1>2, <2>0, LinePass, Zenon
    <2> QED
        BY <1>1, <1>2, <2>1, Zenon DEF Chain
<1>3. CASE ~o
    BY <1>1, <1>3, Zenon DEF Chain
<1> QED
    BY <1>2, <1>3, Zenon

(* What is queued is written.                                               *)
LEMMA ChainSend ==
    ASSUME NEW S, NEW w \in Seq(S), NEW q \in Seq(S), NEW s, NEW v, NEW n, NEW m \in Nat,
           NEW last, NEW promise, Chain(w, q, s, TRUE, v, n, m, last, promise), q # <<>>
    PROVE  Chain(Append(w, Head(q)), Tail(q), s, TRUE, v, n, m, last, promise)
<1>1. PICK a \in 0..m, b \in 0..m :
        /\ Line(w, n, a) /\ Line(q, a, b) /\ (v => Line(s, b, m))
        /\ promise => Sealed(w, a, m, last) /\ Sealed(q, b, m, last) /\ (v => Sealed(s, m, m, last))
    BY Zenon DEF Chain
<1>2. PICK f \in S : f = Head(q)
    OBVIOUS
<1>3. b \in Nat /\ b <= m
    OBVIOUS
<1>4. \E c \in 0..m : /\ Line(Append(w, f), n, c) /\ Line(Tail(q), c, b)
                      /\ promise => Sealed(Append(w, f), c, m, last) /\ Sealed(Tail(q), b, m, last)
    BY <1>1, <1>2, <1>3, LinePass, Zenon
<1> QED
    BY <1>1, <1>2, <1>4, Zenon DEF Chain

(* The reader takes a frame: the next message, or something else.           *)
LEMMA ChainTakeData ==
    ASSUME NEW S, NEW w \in Seq(S), NEW q, NEW s, NEW o, NEW v, NEW n, NEW m \in Nat, NEW last, NEW promise,
           Chain(w, q, s, o, v, n, m, last, promise), w # <<>>, Head(w).type = data
    PROVE  /\ Head(w).message = n + 1 /\ n + 1 <= m
           /\ Chain(Tail(w), q, s, o, v, n + 1, m, last, promise)
<1>1. PICK a \in 0..m, b \in 0..m :
        /\ Line(w, n, a) /\ (o => Line(q, a, b)) /\ (o /\ v => Line(s, b, m))
        /\ promise => Sealed(w, a, m, last) /\ (o => Sealed(q, b, m, last))
                      /\ (o /\ v => Sealed(s, m, m, last))
    BY Zenon DEF Chain
<1>2. Head(w).message = n + 1 /\ n < a /\ Line(Tail(w), n + 1, a)
    BY <1>1, LineTailData, Zenon
<1>3. promise => Sealed(Tail(w), a, m, last)
    BY <1>1, SealedTail, Zenon
<1>4. n \in Nat
    BY <1>1, Zenon DEF Line
<1>5. Chain(Tail(w), q, s, o, v, n + 1, m, last, promise)
    BY <1>1, <1>2, <1>3, Zenon DEF Chain
<1> QED
    BY <1>2, <1>4, <1>5

LEMMA ChainTakeOther ==
    ASSUME NEW S, NEW w \in Seq(S), NEW q, NEW s, NEW o, NEW v, NEW n, NEW m \in Nat, NEW last, NEW promise,
           Chain(w, q, s, o, v, n, m, last, promise), w # <<>>, Head(w).type # data
    PROVE  /\ Chain(Tail(w), q, s, o, v, n, m, last, promise)
           /\ promise /\ Head(w).type = write_done => last /\ n = m
<1>1. PICK a \in 0..m, b \in 0..m :
        /\ Line(w, n, a) /\ (o => Line(q, a, b)) /\ (o /\ v => Line(s, b, m))
        /\ promise => Sealed(w, a, m, last) /\ (o => Sealed(q, b, m, last))
                      /\ (o /\ v => Sealed(s, m, m, last))
    BY Zenon DEF Chain
<1>2. Line(Tail(w), n, a)
    BY <1>1, LineTailOther, Zenon
<1>3. promise => Sealed(Tail(w), a, m, last)
    BY <1>1, SealedTail, Zenon
<1>4. promise /\ Head(w).type = write_done => last /\ n = m /\ a = m
    BY <1>1, SealedHead, Zenon
<1>5. Chain(Tail(w), q, s, o, v, n, m, last, promise)
    BY <1>1, <1>2, <1>3, Zenon DEF Chain
<1> QED
    BY <1>4, <1>5, Zenon

-----------------------------------------------------------------------------
(* Types.                                                                   *)

LEMMA Frames ==
    /\ \A t \in heartbeat..finish : FrameOf(t) \in Frame /\ FrameOf(t).type = t
    /\ \A t \in heartbeat..release : FrameOf(t) \in Item /\ FrameOf(t).type = t
    /\ \A f \in Frame : f \in Item
    /\ \A f \in Item : f.type <= finish => f \in Frame
    /\ heartbeat \in heartbeat..finish /\ write_done \in heartbeat..finish /\ finish \in heartbeat..finish
    /\ resume \in heartbeat..release /\ release \in heartbeat..release
    /\ data \in heartbeat..finish
    /\ write_done \in heartbeat..release /\ finish \in heartbeat..release
BY DEF FrameOf, Frame, Item, heartbeat, finish, release, data, write_done, resume

(* What posting keeps.                                                      *)
LEMMA PostTypes ==
    ASSUME TypeOK, NEW e \in End, NEW items \in Seq(Item), Post(e, items)
    PROVE  posted' \in [End -> Seq(Item)]
BY DEF TypeOK, Post

LEMMA SetStatusTypes ==
    ASSUME TypeOK, NEW e \in End, NEW new \in none..failed, NEW ok \in BOOLEAN, SetStatus(e, new, ok)
    PROVE  /\ status' \in [End -> none..failed] /\ success' \in [End -> BOOLEAN] /\ valid' \in [End -> BOOLEAN]
           /\ posted' \in [End -> Seq(Item)]
<1>1. CASE Over(e)
    BY <1>1, Zenon DEF SetStatus, TypeOK, ended
<1>2. CASE ~Over(e)
    <2>1. (IF new >= finish THEN <<FrameOf(release)>> ELSE <<>>) \in Seq(Item)
        BY Frames
    <2>2. posted' \in [End -> Seq(Item)]
        BY <1>2, <2>1, PostTypes, Zenon DEF SetStatus
    <2>3. /\ status' = [status EXCEPT ![e] = new]
          /\ success' = [success EXCEPT ![e] = ok]
          /\ valid' = [valid EXCEPT ![e] = @ /\ new < finish]
        BY <1>2, Zenon DEF SetStatus
    <2>4. valid' \in [End -> BOOLEAN]
        BY <2>3, Zenon DEF TypeOK
    <2> QED
        BY <2>2, <2>3, <2>4, Zenon DEF TypeOK
<1> QED
    BY <1>1, <1>2, Zenon

LEMMA EnqueueTypes ==
    ASSUME TypeOK, NEW e \in End, NEW f \in Frame, Enqueue(e, f)
    PROVE  write_cache' \in [End -> Seq(Frame)] /\ writing' \in [End -> BOOLEAN]
<1>1. <<f>> \in Seq(Frame) /\ Append(write_cache[e], f) \in Seq(Frame) /\ <<>> \in Seq(Frame)
    BY DEF TypeOK
<1>2. CASE write_cache[e] = <<>>
    BY <1>1, <1>2, Zenon DEF Enqueue, HandleWrite, TypeOK
<1>3. CASE write_cache[e] # <<>>
    BY <1>1, <1>3, Zenon DEF Enqueue, TypeOK
<1> QED
    BY <1>2, <1>3, Zenon

LEMMA ReadHeadTypes ==
    ASSUME TypeOK, NEW e \in End, ReadHead(e)
    PROVE  reading' \in [End -> BOOLEAN] /\ overlapped' \in BOOLEAN
BY Zenon DEF TypeOK, ReadHead

LEMMA TypeInit == Init => TypeOK
<1> SUFFICES ASSUME Init PROVE TypeOK
    BY Zenon
<1> USE RpcStreamAssumption
<1>1. script \in [End -> Seq(Call \cup {"post", "wait"})]
    BY DEF Init
<1>2. /\ status \in [End -> none..failed] /\ success \in [End -> BOOLEAN] /\ valid \in [End -> BOOLEAN]
      /\ posted \in [End -> Seq(Item)] /\ write_cache \in [End -> Seq(Frame)] /\ wire \in [End -> Seq(Frame)]
      /\ writing \in [End -> BOOLEAN] /\ tokens \in [End -> 0..WriteMax]
    BY DEF Init, none, failed
<1>3. /\ reading \in [End -> BOOLEAN] /\ io \in [End -> {"free", "check", "next"}]
      /\ current \in [End -> Nat] /\ cache \in [End -> Seq(Nat)] /\ received \in [End -> Seq(Nat)]
      /\ pausing \in [End -> BOOLEAN] /\ finishing \in [End -> BOOLEAN] /\ waiting \in [End -> BOOLEAN]
      /\ beats \in 0..MaxBeats /\ written \in [End -> Nat]
      /\ open \in [End -> BOOLEAN]
    BY DEF Init
<1>4. overlapped \in BOOLEAN
    BY Zenon DEF Init
<1> QED
    BY <1>1, <1>2, <1>3, <1>4, Zenon DEF TypeOK

LEMMA RunPostedTypes ==
    ASSUME TypeOK, NEW e \in End, Ending(e), RunPosted(e)
    PROVE  TypeOK'
<1> USE DEF ended, writeSide, readSide, calls, net
<1>0. posted[e] \in Seq(Item) /\ posted[e] # <<>>
    BY Zenon DEF RunPosted, TypeOK
<1>1. PICK item \in Item : item = Head(posted[e])
    BY <1>0
<1>2. Tail(posted[e]) \in Seq(Item)
    BY <1>0
<1>3. CASE item.type = release
    <2>1. Release(e) /\ UNCHANGED <<success, valid, tokens, overlapped>>
        BY <1>1, <1>3 DEF RunPosted, release, resume, finish
    <2>2. writing[e] => write_cache[e] # <<>>
        BY Zenon DEF Ending
    <2>3. ASSUME writing[e] PROVE Append(wire[e], Head(write_cache[e])) \in Seq(Frame)
        BY <2>2, <2>3 DEF TypeOK
    <2>a. PICK left \in {wire[e]} \cup (IF writing[e] /\ Len(wire[e]) < MaxWire
                                        THEN {Append(wire[e], Head(write_cache[e]))} ELSE {})
                                   \cup (IF wire[Peer(e)] # <<>> THEN {<<>>} ELSE {}) :
              wire' = [wire EXCEPT ![e] = left]
        BY <2>1, Zenon DEF Release
    <2>b. wire[e] \in Seq(Frame) /\ <<>> \in Seq(Frame)
        BY DEF TypeOK
    <2>c. left \in Seq(Frame)
        BY <2>3, <2>b, Zenon
    <2>4. wire' \in [End -> Seq(Frame)]
        BY <2>a, <2>c, Zenon DEF TypeOK
    <2>5. status' \in [End -> none..failed]
        BY <2>1 DEF Release, TypeOK, none, failed, finish
    <2>6. /\ posted' \in [End -> Seq(Item)] /\ write_cache' \in [End -> Seq(Frame)]
          /\ writing' \in [End -> BOOLEAN] /\ reading' \in [End -> BOOLEAN] /\ open' \in [End -> BOOLEAN]
        BY <2>1, SMTT(40) DEF Release, TypeOK
    <2> QED
        BY <2>1, <2>4, <2>5, <2>6, Zenon DEF RunPosted, TypeOK
<1>4. CASE item.type = resume
    <2>1. /\ posted' = [posted EXCEPT ![e] = Tail(@)]
          /\ IF valid[e] THEN ReadHead(e) ELSE UNCHANGED <<reading, overlapped>>
          /\ UNCHANGED <<ended, writeSide, net>>
        BY <1>1, <1>4 DEF RunPosted, release, resume, finish
    <2>2. reading' \in [End -> BOOLEAN] /\ overlapped' \in BOOLEAN
        BY <2>1, ReadHeadTypes, Zenon DEF TypeOK
    <2>3. posted' \in [End -> Seq(Item)]
        BY <2>1, <1>2, Zenon DEF TypeOK
    <2> QED
        BY <2>1, <2>2, <2>3, Zenon DEF RunPosted, TypeOK
<1>5. CASE item.type <= finish
    <2>1. /\ posted' = [posted EXCEPT ![e] = Tail(@)]
          /\ IF valid[e] THEN Enqueue(e, item) ELSE UNCHANGED <<write_cache, writing>>
          /\ UNCHANGED <<ended, tokens, reading, overlapped, net>>
        BY <1>1, <1>5 DEF RunPosted, release, resume, finish
    <2>2. item \in Frame
        BY <1>5, Frames, Zenon
    <2>3. write_cache' \in [End -> Seq(Frame)] /\ writing' \in [End -> BOOLEAN]
        BY <2>1, <2>2, EnqueueTypes, Zenon DEF TypeOK
    <2>4. posted' \in [End -> Seq(Item)]
        BY <2>1, <1>2, Zenon DEF TypeOK
    <2> QED
        BY <2>1, <2>3, <2>4, Zenon DEF RunPosted, TypeOK
<1> QED
    BY <1>1, <1>3, <1>4, <1>5, Zenon DEF RunPosted

LEMMA WrittenTypes ==
    ASSUME TypeOK, NEW e \in End, Ending(e), Written(e)
    PROVE  TypeOK'
<1> USE DEF ended, writeSide, readSide, calls, net
<1>0. write_cache[e] \in Seq(Frame) /\ write_cache[e] # <<>>
    BY Zenon DEF Written, TypeOK, Ending
<1>1. Head(write_cache[e]) \in Frame /\ Tail(write_cache[e]) \in Seq(Frame)
      /\ Append(wire[e], Head(write_cache[e])) \in Seq(Frame)
    BY <1>0 DEF TypeOK
<1>b. <<>> \in Seq(Frame)
    OBVIOUS
<1>2. wire' \in [End -> Seq(Frame)]
    <2>1. \/ wire' = [wire EXCEPT ![e] = Append(@, Head(write_cache[e]))]
          \/ \E left \in {wire[Peer(e)], <<>>} : wire' = [wire EXCEPT ![Peer(e)] = left]
        BY Zenon DEF Written
    <2>2. wire \in [End -> Seq(Frame)] /\ wire[Peer(e)] \in Seq(Frame) /\ <<>> \in Seq(Frame)
        BY Peers DEF TypeOK
    <2>3. CASE wire' = [wire EXCEPT ![e] = Append(@, Head(write_cache[e]))]
        BY <2>2, <2>3, <1>1, Zenon
    <2>4. CASE \E left \in {wire[Peer(e)], <<>>} : wire' = [wire EXCEPT ![Peer(e)] = left]
        BY <2>2, <2>4, Zenon
    <2> QED
        BY <2>1, <2>3, <2>4, Zenon
<1>3. waiting' \in [End -> BOOLEAN]
    BY Zenon DEF Written, TypeOK
<1>4. \A q \in Seq(Frame) : TokensAfter(q) \in 0..WriteMax
    BY RpcStreamAssumption DEF TokensAfter
<1>5. tokens' \in [End -> 0..WriteMax]
    <2>1. \/ tokens' = [tokens EXCEPT ![e] = TokensAfter(<<>>)]
          \/ tokens' = [tokens EXCEPT ![e] = TokensAfter(Tail(write_cache[e]))]
        BY Zenon DEF Written
    <2>2. TokensAfter(<<>>) \in 0..WriteMax /\ TokensAfter(Tail(write_cache[e])) \in 0..WriteMax
        BY <1>1, <1>4, <1>b, Zenon
    <2>3. tokens \in [End -> 0..WriteMax]
        BY Zenon DEF TypeOK
    <2> QED
        BY <2>1, <2>2, <2>3, Zenon
<1>6. write_cache' \in [End -> Seq(Frame)] /\ writing' \in [End -> BOOLEAN]
    <2>1. \/ /\ write_cache' = [write_cache EXCEPT ![e] = <<>>]
             /\ writing' = [writing EXCEPT ![e] = FALSE]
          \/ HandleWrite(e, Tail(write_cache[e]))
        BY Zenon DEF Written
    <2>2. CASE HandleWrite(e, Tail(write_cache[e]))
        <3>1. PICK q \in Seq(Frame) : q = IF Over(e) /\ e = "server" THEN <<>> ELSE Tail(write_cache[e])
            BY <1>1, <1>b, Zenon
        <3>2. PICK b \in BOOLEAN : b = (Tail(write_cache[e]) # <<>> /\ ~Over(e))
            BY Zenon
        <3>3. write_cache' = [write_cache EXCEPT ![e] = q] /\ writing' = [writing EXCEPT ![e] = b]
            BY <2>2, <3>1, <3>2, Zenon DEF HandleWrite
        <3> QED
            BY <3>3, Zenon DEF TypeOK
    <2>3. CASE write_cache' = [write_cache EXCEPT ![e] = <<>>] /\ writing' = [writing EXCEPT ![e] = FALSE]
        BY <2>3, <1>b, Zenon DEF TypeOK
    <2> QED
        BY <2>1, <2>2, <2>3, Zenon
<1>7. /\ status' \in [End -> none..failed] /\ success' \in [End -> BOOLEAN] /\ valid' \in [End -> BOOLEAN]
      /\ posted' \in [End -> Seq(Item)]
    <2>0. finish \in none..failed
        BY DEF finish, none, failed
    <2>1. CASE SetStatus(e, finish, TRUE)
        BY <2>0, <2>1, SetStatusTypes, Zenon
    <2>2. CASE UNCHANGED <<ended, posted>>
        BY <2>2, Zenon DEF TypeOK
    <2> QED
        BY <2>1, <2>2, Zenon DEF Written
<1> QED
    BY <1>2, <1>3, <1>5, <1>6, <1>7, Zenon DEF Written, TypeOK

LEMMA ReadFrameTypes ==
    ASSUME TypeOK, NEW e \in End, ReadFrame(e)
    PROVE  TypeOK'
<1> USE DEF ended, writeSide, readSide, calls, net
<1>0. Peer(e) \in End
    BY Peers, Zenon
<1>1. wire[Peer(e)] \in Seq(Frame) /\ wire[Peer(e)] # <<>>
    BY <1>0, Zenon DEF ReadFrame, TypeOK
<1>2. PICK frame \in Frame : frame = Head(wire[Peer(e)])
    BY <1>1
<1>3. wire' = [wire EXCEPT ![Peer(e)] = Tail(@)] /\ waiting' = [waiting EXCEPT ![e] = FALSE]
      /\ UNCHANGED <<beats, cache, pausing, calls, open>>
    BY Zenon DEF ReadFrame
<1>4. wire' \in [End -> Seq(Frame)] /\ waiting' \in [End -> BOOLEAN]
    <2>1. Tail(wire[Peer(e)]) \in Seq(Frame)
        BY <1>1
    <2> QED
        BY <1>0, <1>3, <2>1, Zenon DEF TypeOK
<1>5. overlapped' = overlapped /\ (reading' = reading \/ reading' = [reading EXCEPT ![e] = FALSE])
    BY Zenon DEF ReadFrame
<1>6. reading' \in [End -> BOOLEAN] /\ overlapped' \in BOOLEAN
    BY <1>5, Zenon DEF TypeOK
<1>7. CASE SetStatus(e, failed, FALSE) /\ UNCHANGED <<writeSide, io, current>>
    <2>1. failed \in none..failed
        BY DEF failed, none
    <2>2. /\ status' \in [End -> none..failed] /\ success' \in [End -> BOOLEAN] /\ valid' \in [End -> BOOLEAN]
          /\ posted' \in [End -> Seq(Item)]
        BY <1>7, <2>1, SetStatusTypes, Zenon
    <2> QED
        BY <1>3, <1>4, <1>6, <1>7, <2>2, Zenon DEF TypeOK
<1>8. CASE /\ IF e = "server" THEN Enqueue(e, frame) ELSE UNCHANGED <<write_cache, writing>>
           /\ UNCHANGED <<ended, posted, tokens, io, current>>
    <2>1. write_cache' \in [End -> Seq(Frame)] /\ writing' \in [End -> BOOLEAN]
        BY <1>8, EnqueueTypes, Zenon DEF TypeOK
    <2> QED
        BY <1>3, <1>4, <1>6, <1>8, <2>1, Zenon DEF TypeOK
<1>9. CASE /\ status' = [status EXCEPT ![e] = data]
           /\ current' = [current EXCEPT ![e] = frame.message]
           /\ io' = [io EXCEPT ![e] = IF finishing[e] THEN "next" ELSE "check"]
           /\ UNCHANGED <<success, valid, posted, writeSide>>
    <2>1. data \in none..failed /\ frame.message \in Nat
        BY DEF data, none, failed, Frame
    <2>2. status' \in [End -> none..failed] /\ current' \in [End -> Nat] /\ io' \in [End -> {"free", "check", "next"}]
        BY <1>9, <2>1, Zenon DEF TypeOK
    <2> QED
        BY <1>3, <1>4, <1>6, <1>9, <2>2, Zenon DEF TypeOK
<1>10. CASE (SetStatus(e, write_done, TRUE) \/ SetStatus(e, finish, TRUE)) /\ UNCHANGED <<writeSide, io, current>>
    <2>1. write_done \in none..failed /\ finish \in none..failed
        BY DEF write_done, finish, failed, none
    <2>2. /\ status' \in [End -> none..failed] /\ success' \in [End -> BOOLEAN] /\ valid' \in [End -> BOOLEAN]
          /\ posted' \in [End -> Seq(Item)]
        BY <1>10, <2>1, SetStatusTypes, Zenon
    <2> QED
        BY <1>3, <1>4, <1>6, <1>10, <2>2, Zenon DEF TypeOK
<1> QED
    BY <1>2, <1>7, <1>8, <1>9, <1>10, Zenon DEF ReadFrame

LEMMA IoTypes ==
    ASSUME TypeOK, NEW e \in End, Ending(e), Io(e) \/ TimerFires(e)
    PROVE  TypeOK'
<1> USE DEF ended, writeSide, readSide, calls, net
<1>0. failed \in none..failed /\ FrameOf(heartbeat) \in Frame
    BY Frames DEF failed, none
<1>1. CASE WriteFails(e)
    <2>1. /\ status' \in [End -> none..failed] /\ success' \in [End -> BOOLEAN] /\ valid' \in [End -> BOOLEAN]
          /\ posted' \in [End -> Seq(Item)]
        BY <1>1, <1>0, SetStatusTypes, Zenon DEF WriteFails
    <2> QED
        BY <1>1, <2>1, Zenon DEF WriteFails, TypeOK
<1>2. CASE ReadFails(e)
    <2>1. /\ status' \in [End -> none..failed] /\ success' \in [End -> BOOLEAN] /\ valid' \in [End -> BOOLEAN]
          /\ posted' \in [End -> Seq(Item)]
        BY <1>2, <1>0, SetStatusTypes, Zenon DEF ReadFails
    <2> QED
        BY <1>2, <2>1, Zenon DEF ReadFails, TypeOK
<1>3. CASE CheckPauseRead(e)
    <2>1. (pausing[e] \/ Full(e)) \in BOOLEAN
        BY Zenon
    <2>2. pausing' \in [End -> BOOLEAN] /\ io' \in [End -> {"free", "check", "next"}]
        BY <1>3, <2>1, Zenon DEF CheckPauseRead, TypeOK
    <2> QED
        BY <1>3, <2>2, Zenon DEF CheckPauseRead, TypeOK
<1>4. CASE ReadNext(e)
    <2>1. reading' \in [End -> BOOLEAN] /\ overlapped' \in BOOLEAN
        BY <1>4, ReadHeadTypes, Zenon DEF ReadNext
    <2>2. Append(cache[e], current[e]) \in Seq(Nat)
        BY DEF TypeOK
    <2>3. cache' \in [End -> Seq(Nat)] /\ io' \in [End -> {"free", "check", "next"}] /\ current' \in [End -> Nat]
        BY <1>4, <2>2, Zenon DEF ReadNext, TypeOK
    <2> QED
        BY <1>4, <2>1, <2>3, Zenon DEF ReadNext, TypeOK
<1>5. CASE TimerFires(e) /\ waiting[e]
    <2>1. /\ status' \in [End -> none..failed] /\ success' \in [End -> BOOLEAN] /\ valid' \in [End -> BOOLEAN]
          /\ posted' \in [End -> Seq(Item)]
        BY <1>5, <1>0, SetStatusTypes, Zenon DEF TimerFires
    <2> QED
        BY <1>5, <2>1, Zenon DEF TimerFires, TypeOK
<1>6. CASE TimerFires(e) /\ ~waiting[e]
    <2>1. write_cache' \in [End -> Seq(Frame)] /\ writing' \in [End -> BOOLEAN]
        BY <1>6, <1>0, EnqueueTypes, Zenon DEF TimerFires, TypeOK
    <2>2. beats' \in 0..MaxBeats
        BY <1>6, RpcStreamAssumption, SMTT(40) DEF TimerFires, TypeOK
    <2>3. waiting' \in [End -> BOOLEAN]
        BY <1>6, Zenon DEF TimerFires, TypeOK
    <2>4. UNCHANGED <<ended, posted, tokens, readSide, calls, net>>
        BY <1>6, Zenon DEF TimerFires
    <2> QED
        BY <2>1, <2>2, <2>3, <2>4, Zenon DEF TypeOK
<1> QED
    BY <1>1, <1>2, <1>3, <1>4, <1>5, <1>6, RunPostedTypes, WrittenTypes, ReadFrameTypes, Zenon DEF Io

LEMMA UserTypes ==
    ASSUME TypeOK, NEW e \in End, User(e)
    PROVE  TypeOK'
<1> USE DEF ended, writeSide, readSide, calls, net
<1>0. script[e] \in Seq(Call \cup {"post", "wait"}) /\ script[e] # <<>>
    BY Zenon DEF User, Write, WriteDone, Read, Finish, PostFinish, EndFinish, ReleaseObj, In, TypeOK
<1>a. Tail(script[e]) \in Seq(Call \cup {"post", "wait"})
    BY <1>0
<1>b. Return(e) => script' \in [End -> Seq(Call \cup {"post", "wait"})]
    BY <1>a, Zenon DEF Return, TypeOK
<1>c. \A k \in Seq(Call \cup {"post", "wait"}) :
          script' = [script EXCEPT ![e] = k] => script' \in [End -> Seq(Call \cup {"post", "wait"})]
    BY Zenon DEF TypeOK
<1>d. <<FrameOf(write_done)>> \in Seq(Item) /\ <<FrameOf(release)>> \in Seq(Item) /\ <<>> \in Seq(Item)
      /\ <<FrameOf(resume)>> \in Seq(Item) /\ <<FrameOf(finish)>> \in Seq(Item)
    BY Frames
<1>e. ResumePosts(e) \in Seq(Item)
    BY <1>d, Zenon DEF ResumePosts
<1>1. CASE Write(e) /\ Over(e)
    BY <1>1, <1>b, Zenon DEF Write, TypeOK
<1>2. CASE Write(e) /\ ~Over(e)
    <2>1. tokens[e] \in 0..WriteMax /\ tokens[e] > 0
        BY <1>2, Zenon DEF Write, TypeOK
    <2>2. tokens' \in [End -> 0..WriteMax] /\ written' \in [End -> Nat]
        <3>1. tokens' = [tokens EXCEPT ![e] = @ - 1] /\ written' = [written EXCEPT ![e] = @ + 1]
            BY <1>2, Zenon DEF Write
        <3>2. tokens[e] - 1 \in 0..WriteMax
            BY <2>1, RpcStreamAssumption
        <3>3. written[e] + 1 \in Nat
            BY DEF TypeOK
        <3> QED
            BY <3>1, <3>2, <3>3, Zenon DEF TypeOK
    <2>3. [type |-> data, message |-> written'[e]] \in Item
        BY <2>2 DEF Item, data, heartbeat, release
    <2>4. posted' \in [End -> Seq(Item)]
        BY <1>2, <2>3, PostTypes, SMTT(40) DEF Write
    <2> QED
        BY <1>2, <1>b, <2>2, <2>4, Zenon DEF Write, TypeOK
<1>3. CASE WriteDone(e)
    <2>1. (IF Over(e) THEN <<>> ELSE <<FrameOf(write_done)>>) \in Seq(Item)
        BY <1>d, Zenon
    <2>2. posted' \in [End -> Seq(Item)]
        BY <1>3, <2>1, PostTypes, Zenon DEF WriteDone
    <2> QED
        BY <1>3, <1>b, <2>2, Zenon DEF WriteDone, TypeOK
<1>4. CASE Read(e) /\ cache[e] = <<>>
    BY <1>4, <1>b, Zenon DEF Read, TypeOK
<1>5. CASE Read(e) /\ cache[e] # <<>>
    <2>1. Head(cache[e]) \in Nat /\ Tail(cache[e]) \in Seq(Nat)
        BY <1>5 DEF TypeOK
    <2>2. Append(received[e], Head(cache[e])) \in Seq(Nat)
        BY <2>1 DEF TypeOK
    <2>3. received' \in [End -> Seq(Nat)] /\ cache' \in [End -> Seq(Nat)]
        BY <1>5, <2>1, <2>2, Zenon DEF Read, TypeOK
    <2>4. pausing' \in [End -> BOOLEAN]
        BY <1>5, Zenon DEF Read, ClearPausing, TypeOK
    <2>5. posted' \in [End -> Seq(Item)]
        <3>1. CASE Over(e)
            BY <1>5, <3>1, Zenon DEF Read, TypeOK
        <3>2. CASE ~Over(e)
            BY <1>5, <1>e, <3>2, PostTypes, Zenon DEF Read
        <3> QED
            BY <3>1, <3>2, Zenon
    <2> QED
        BY <1>5, <1>b, <2>3, <2>4, <2>5, Zenon DEF Read, TypeOK
<1>6. CASE Finish(e)
    <2>1. (IF Over(e) /\ e = "client" THEN <<>> ELSE <<"post">>) \o Tail(script[e])
              \in Seq(Call \cup {"post", "wait"})
        <3>1. <<"post">> \in Seq(Call \cup {"post", "wait"}) /\ <<>> \in Seq(Call \cup {"post", "wait"})
            OBVIOUS
        <3>2. \A k \in Seq(Call \cup {"post", "wait"}) :
                  k \o Tail(script[e]) \in Seq(Call \cup {"post", "wait"})
            BY <1>a
        <3> QED
            BY <3>1, <3>2, Zenon
    <2>2. script' \in [End -> Seq(Call \cup {"post", "wait"})]
        BY <1>6, <1>c, <2>1, Zenon DEF Finish
    <2> QED
        BY <1>6, <2>2, Zenon DEF Finish, TypeOK
<1>7. CASE PostFinish(e)
    <2>1. <<"wait">> \o Tail(script[e]) \in Seq(Call \cup {"post", "wait"})
        BY <1>a
    <2>2. script' \in [End -> Seq(Call \cup {"post", "wait"})]
        BY <1>7, <1>c, <2>1, Zenon DEF PostFinish
    <2>3. (IF e = "client" THEN <<FrameOf(finish)>> ELSE <<>>) \o ResumePosts(e) \in Seq(Item)
        BY <1>d, <1>e
    <2>4. posted' \in [End -> Seq(Item)]
        BY <1>7, <2>3, PostTypes, Zenon DEF PostFinish
    <2> QED
        BY <1>7, <2>2, <2>4, Zenon DEF PostFinish, ClearPausing, TypeOK
<1>8. CASE EndFinish(e)
    BY <1>8, <1>b, Zenon DEF EndFinish, TypeOK
<1>9. CASE ReleaseObj(e)
    <2>1. posted' \in [End -> Seq(Item)]
        BY <1>9, <1>d, PostTypes, Zenon DEF ReleaseObj
    <2> QED
        BY <1>9, <1>b, <2>1, Zenon DEF ReleaseObj, TypeOK
<1> QED
    BY <1>1, <1>2, <1>3, <1>4, <1>5, <1>6, <1>7, <1>8, <1>9, Zenon DEF User

LEMMA BreakTypes ==
    ASSUME TypeOK, Break
    PROVE  TypeOK'
<1>1. open' \in [End -> BOOLEAN] /\ wire' \in [End -> Seq(Frame)]
    BY DEF Break
<1> QED
    BY <1>1, Zenon DEF Break, TypeOK, ended, writeSide, readSide, calls, net

-----------------------------------------------------------------------------
(* The pause.                                                               *)

(* Paused(d) looks at five variables of d.                                  *)
LEMMA PausedSame ==
    ASSUME NEW d, Paused(d), io'[d] = io[d], pausing'[d] = pausing[d], reading'[d] => reading[d],
           cache'[d] = cache[d], finishing[d] => finishing'[d]
    PROVE  Paused(d)'
BY Zenon DEF Paused, Limit

LEMMA LimitFacts ==
    ASSUME NEW e \in End
    PROVE  Limit(e) \in Nat /\ Limit(e) >= 1 /\ (TypeOK => (Full(e) <=> Len(cache[e]) >= Limit(e) - 1))
BY RpcStreamAssumption, SMTT(20) DEF Limit, Full, TypeOK

LEMMA PausedStep ==
    ASSUME TypeOK, NEW e \in End, Paused(e), Calling(e), Io(e) \/ TimerFires(e) \/ User(e)
    PROVE  Paused(e)'
<1> USE DEF ended, writeSide, readSide, calls, net
<1>0. Limit(e) \in Nat /\ Limit(e) >= 1 /\ (Full(e) <=> Len(cache[e]) >= Limit(e) - 1)
    BY LimitFacts, Zenon
<1>a. Len(cache[e]) \in Nat /\ pausing[e] \in BOOLEAN /\ reading[e] \in BOOLEAN
    BY DEF TypeOK
<1>1. CASE RunPosted(e)
    <2>1. UNCHANGED <<io, cache, pausing, finishing>> /\ io[e] = "free"
        BY <1>1, Zenon DEF RunPosted
    <2>2. \/ reading'[e] = (reading[e] \/ ~pausing[e])
          \/ reading'[e] = reading[e] \/ reading'[e] = FALSE
        BY <1>1, Zenon DEF RunPosted, Release, ReadHead, TypeOK
    <2> QED
        BY <2>1, <2>2, Zenon DEF Paused, Limit
<1>2. CASE Written(e) \/ WriteFails(e) \/ TimerFires(e)
    <2>1. UNCHANGED readSide /\ UNCHANGED finishing
        BY <1>2, Zenon DEF Written, WriteFails, TimerFires
    <2> QED
        BY <2>1, PausedSame, Zenon
<1>3. CASE ReadFails(e)
    <2>1. UNCHANGED <<io, cache, pausing, finishing>> /\ reading'[e] = FALSE
        BY <1>3, Zenon DEF ReadFails, TypeOK
    <2> QED
        BY <2>1, PausedSame, Zenon
<1>4. CASE ReadFrame(e)
    <2>1. UNCHANGED <<cache, pausing, finishing>> /\ io[e] = "free" /\ reading[e]
        BY <1>4, Zenon DEF ReadFrame
    <2>2. \/ io' = io /\ (reading' = reading \/ reading' = [reading EXCEPT ![e] = FALSE])
          \/ /\ io' = [io EXCEPT ![e] = IF finishing[e] THEN "next" ELSE "check"]
             /\ reading' = [reading EXCEPT ![e] = FALSE]
        BY <1>4, Zenon DEF ReadFrame
    <2>3. \/ io'[e] = io[e] /\ (reading'[e] = reading[e] \/ reading'[e] = FALSE)
          \/ (io'[e] = IF finishing[e] THEN "next" ELSE "check") /\ reading'[e] = FALSE
        BY <2>2, Zenon DEF TypeOK
    <2>4. ~pausing[e]
        BY <2>1, Zenon DEF Paused
    <2>5. Len(cache[e]) = Limit(e) => finishing[e]
        BY <2>4, Zenon DEF Paused
    <2> QED
        BY <2>1, <2>3, <2>4, <2>5, Zenon DEF Paused, Limit
<1>5. CASE CheckPauseRead(e)
    <2>1. UNCHANGED <<cache, reading, finishing>> /\ io[e] = "check"
        BY <1>5, Zenon DEF CheckPauseRead
    <2>2. pausing'[e] = (pausing[e] \/ Full(e)) /\ io'[e] = "next"
        BY <1>5, Zenon DEF CheckPauseRead, TypeOK
    <2>3. Len(cache[e]) <= Limit(e) /\ (Len(cache[e]) = Limit(e) => finishing[e]) /\ ~reading[e]
        BY <2>1, Zenon DEF Paused
    <2>4. Limit(e)' = Limit(e)
        BY Zenon DEF Limit
    <2>5. ~pausing'[e] => Len(cache[e]) < Limit(e) - 1
        <3>1. ~pausing'[e] => ~Full(e)
            BY <2>2, Zenon
        <3> QED
            BY <3>1, <1>0, <1>a
    <2> QED
        BY <1>0, <1>a, <2>1, <2>2, <2>3, <2>4, <2>5, Zenon DEF Paused
<1>6. CASE ReadNext(e)
    <2>1. UNCHANGED <<pausing, finishing>> /\ io[e] = "next"
        BY <1>6, Zenon DEF ReadNext
    <2>2. reading'[e] = (reading[e] \/ ~pausing[e]) /\ io'[e] = "free"
        BY <1>6, Zenon DEF ReadNext, ReadHead, TypeOK
    <2>3. cache'[e] = IF finishing[e] THEN cache[e] ELSE Append(cache[e], current[e])
        BY <1>6, Zenon DEF ReadNext, TypeOK
    <2>4. ~finishing[e] => Len(cache'[e]) = Len(cache[e]) + 1
        BY <2>3 DEF TypeOK
    <2>5. /\ Len(cache[e]) <= Limit(e) /\ (Len(cache[e]) = Limit(e) => finishing[e]) /\ ~reading[e]
          /\ finishing[e] \/ pausing[e] \/ Len(cache[e]) < Limit(e) - 1
        BY <2>1, Zenon DEF Paused
    <2>6. Limit(e)' = Limit(e)
        BY Zenon DEF Limit
    <2>7. CASE finishing[e]
        BY <2>7, <2>1, <2>2, <2>3, <2>5, <2>6, <1>0, <1>a, Zenon DEF Paused
    <2>8. CASE ~finishing[e]
        BY <2>8, <2>1, <2>2, <2>4, <2>5, <2>6, <1>0, <1>a DEF Paused
    <2> QED
        BY <2>7, <2>8, Zenon
<1>7. CASE Read(e)
    <2>1. UNCHANGED <<reading, io, finishing>>
        BY <1>7, Zenon DEF Read
    <2>2. \/ cache' = cache /\ pausing' = pausing
          \/ /\ cache[e] # <<>> /\ cache'[e] = Tail(cache[e])
             /\ pausing' = pausing \/ pausing'[e] = FALSE
        BY <1>7, Zenon DEF Read, ClearPausing, TypeOK
    <2>3. CASE cache' = cache /\ pausing' = pausing
        BY <2>1, <2>3, PausedSame, Zenon
    <2>4. CASE cache[e] # <<>> /\ cache'[e] = Tail(cache[e]) /\ (pausing' = pausing \/ pausing'[e] = FALSE)
        <3>1. Len(cache'[e]) = Len(cache[e]) - 1 /\ Len(cache[e]) >= 1
            BY <2>4, SMTT(40) DEF TypeOK
        <3>2. Limit(e)' = Limit(e)
            BY Zenon DEF Limit
        <3>3. /\ Len(cache[e]) <= Limit(e) /\ (io[e] # "free" => ~reading[e]) /\ (pausing[e] => ~reading[e])
              /\ io[e] = "check" => ~pausing[e]
              /\ Len(cache[e]) = Limit(e) => finishing[e] \/ (pausing[e] /\ io[e] = "free")
              /\ io[e] = "next" => finishing[e] \/ pausing[e] \/ Len(cache[e]) < Limit(e) - 1
            BY Zenon DEF Paused
        <3>4. pausing'[e] => pausing[e]
            BY <2>4, Zenon
        <3>5. io[e] = "next" => finishing[e] \/ Len(cache'[e]) < Limit(e) - 1
            BY <3>1, <3>3, <1>0, <1>a
        <3>6. Len(cache'[e]) < Limit(e)
            BY <3>1, <3>3, <1>0, <1>a
        <3> QED
            BY <2>1, <3>1, <3>2, <3>3, <3>4, <3>5, <3>6, <1>0, <1>a DEF Paused
    <2> QED
        BY <2>2, <2>3, <2>4, Zenon
<1>8. CASE Finish(e)
    <2>1. UNCHANGED readSide /\ finishing'[e]
        BY <1>8, Zenon DEF Finish, TypeOK
    <2> QED
        BY <2>1, PausedSame, Zenon
<1>9. CASE PostFinish(e)
    <2>1. UNCHANGED <<reading, io, cache, finishing>> /\ pausing'[e] = FALSE
        BY <1>9, Zenon DEF PostFinish, ClearPausing, TypeOK
    <2>2. script[e] # <<>> /\ Head(script[e]) = "post" /\ script[e] \in Seq(Call \cup {"post", "wait"})
        BY <1>9, Zenon DEF PostFinish, In, TypeOK
    <2>3. 1 \in 1..Len(script[e]) /\ script[e][1] = "post"
        BY <2>2
    <2>4. finishing[e]
        BY <2>3, Zenon DEF Calling
    <2>5. Limit(e)' = Limit(e)
        BY Zenon DEF Limit
    <2> QED
        BY <2>1, <2>4, <2>5, Zenon DEF Paused
<1>10. CASE Write(e) \/ WriteDone(e) \/ EndFinish(e) \/ ReleaseObj(e)
    <2>1. UNCHANGED readSide /\ UNCHANGED finishing
        BY <1>10, Zenon DEF Write, WriteDone, EndFinish, ReleaseObj
    <2> QED
        BY <2>1, PausedSame, Zenon
<1> QED
    BY <1>1, <1>2, <1>3, <1>4, <1>5, <1>6, <1>7, <1>8, <1>9, <1>10, Zenon DEF Io, User

-----------------------------------------------------------------------------
(* The calls.                                                               *)

LEMMA CallsTail ==
    ASSUME NEW S, NEW k \in Seq(S), k # <<>>
    PROVE  /\ Tail(k) \in Seq(S)
           /\ NoWrites(k) => NoWrites(Tail(k))
           /\ DoneLast(k) => DoneLast(Tail(k))
           /\ DoneLast(k) /\ Head(k) = "done" => NoWrites(Tail(k))
           /\ Head(k) = "write" => ~NoWrites(k)
           /\ \A i \in 1..Len(Tail(k)) : i + 1 \in 1..Len(k) /\ Tail(k)[i] = k[i + 1]
<1>1. \A i \in 1..Len(Tail(k)) : i + 1 \in 1..Len(k) /\ Tail(k)[i] = k[i + 1]
    OBVIOUS
<1>2. 1 \in 1..Len(k) /\ Head(k) = k[1] /\ Tail(k) \in Seq(S)
    OBVIOUS
<1>3. NoWrites(k) => NoWrites(Tail(k))
    BY <1>1, Zenon DEF NoWrites
<1>4. DoneLast(k) => DoneLast(Tail(k))
    <2> SUFFICES ASSUME DoneLast(k), NEW i \in 1..Len(Tail(k)), NEW j \in 1..Len(Tail(k)),
                        i < j, Tail(k)[i] = "done"
                 PROVE  Tail(k)[j] # "write"
        BY Zenon DEF DoneLast
    <2>1. i + 1 < j + 1 /\ i + 1 \in 1..Len(k) /\ j + 1 \in 1..Len(k) /\ k[i + 1] = "done"
        BY <1>1
    <2>2. k[j + 1] # "write"
        BY <2>1, Zenon DEF DoneLast
    <2> QED
        BY <2>2, <1>1, Zenon
<1>5. DoneLast(k) /\ Head(k) = "done" => NoWrites(Tail(k))
    <2> SUFFICES ASSUME DoneLast(k), Head(k) = "done", NEW i \in 1..Len(Tail(k)) PROVE Tail(k)[i] # "write"
        BY Zenon DEF NoWrites
    <2>1. 1 < i + 1 /\ i + 1 \in 1..Len(k) /\ k[1] = "done"
        BY <1>1, <1>2
    <2>2. k[i + 1] # "write"
        BY <2>1, <1>2, Zenon DEF DoneLast
    <2> QED
        BY <2>2, <1>1, Zenon
<1>6. Head(k) = "write" => ~NoWrites(k)
    BY <1>2, Zenon DEF NoWrites
<1> QED
    BY <1>1, <1>2, <1>3, <1>4, <1>5, <1>6, Zenon

(* The two halves of Finish are no Write and no WriteDone.                  *)
LEMMA CallsPush ==
    ASSUME NEW S, NEW k \in Seq(S), NEW x \in S, x # "write", x # "done"
    PROVE  /\ NoWrites(k) => NoWrites(<<x>> \o k)
           /\ DoneLast(k) => DoneLast(<<x>> \o k)
           /\ \A i \in 1..Len(<<x>> \o k) : (<<x>> \o k)[i] = x \/ (i - 1 \in 1..Len(k) /\ (<<x>> \o k)[i] = k[i - 1])
<1> DEFINE r == <<x>> \o k
<1>1. Len(k) \in Nat /\ Len(r) = Len(k) + 1 /\ r[1] = x /\ \A i \in 2..Len(r) : r[i] = k[i - 1]
    OBVIOUS
<1> HIDE DEF r
<1>2. \A i \in 1..Len(r) : (i = 1 /\ r[i] = x) \/ (i - 1 \in 1..Len(k) /\ r[i] = k[i - 1])
    BY <1>1
<1>3. NoWrites(k) => NoWrites(r)
    BY <1>2, Zenon DEF NoWrites
<1>4. DoneLast(k) => DoneLast(r)
    <2> SUFFICES ASSUME DoneLast(k), NEW i \in 1..Len(r), NEW j \in 1..Len(r), i < j, r[i] = "done"
                 PROVE  r[j] # "write"
        BY Zenon DEF DoneLast
    <2>1. i - 1 \in 1..Len(k) /\ r[i] = k[i - 1]
        BY <1>2, Zenon
    <2>2. j - 1 \in 1..Len(k) /\ r[j] = k[j - 1]
        BY <1>2
    <2>3. i - 1 < j - 1
        OBVIOUS
    <2> QED
        BY <2>1, <2>2, <2>3, Zenon DEF DoneLast
<1>5. \A i \in 1..Len(r) : r[i] = x \/ (i - 1 \in 1..Len(k) /\ r[i] = k[i - 1])
    BY <1>2, Zenon
<1> QED
    BY <1>3, <1>4, <1>5, Zenon DEF r

(* A user thread works its script off.                                      *)
LEMMA UserCalls ==
    ASSUME TypeOK, NEW e \in End, User(e), Calling(e)
    PROVE  /\ NoWrites(script[e]) => NoWrites(script'[e])
           /\ Calling(e)'
           /\ Write(e) => ~NoWrites(script[e])
           /\ WriteDone(e) => (WriteDoneIsLast(e) => NoWrites(script'[e]))
           /\ \A d \in End : d # e => script'[d] = script[d]
<1> DEFINE S == Call \cup {"post", "wait"}
<1> DEFINE k == script[e]
<1>0. k \in Seq(S) /\ k # <<>>
    BY Zenon DEF User, Write, WriteDone, Read, Finish, PostFinish, EndFinish, ReleaseObj, In, TypeOK
<1>1. /\ Tail(k) \in Seq(S)
      /\ NoWrites(k) => NoWrites(Tail(k))
      /\ DoneLast(k) => DoneLast(Tail(k))
      /\ DoneLast(k) /\ Head(k) = "done" => NoWrites(Tail(k))
      /\ Head(k) = "write" => ~NoWrites(k)
      /\ \A i \in 1..Len(Tail(k)) : i + 1 \in 1..Len(k) /\ Tail(k)[i] = k[i + 1]
    BY <1>0, CallsTail, Zenon
<1>2. finishing[e] => finishing'[e]
    BY Zenon DEF User, Write, WriteDone, Read, Finish, PostFinish, EndFinish, ReleaseObj, calls, TypeOK
<1>3. \A d \in End : d # e => script'[d] = script[d]
    BY Zenon DEF User, Write, WriteDone, Read, Finish, PostFinish, EndFinish, ReleaseObj, Return, TypeOK
<1>4. \A i \in 1..Len(Tail(k)) : Tail(k)[i] = "post" => finishing'[e]
    BY <1>1, <1>2, Zenon DEF Calling
<1>5. Write(e) => ~NoWrites(script[e])
    BY <1>1, Zenon DEF Write, In
<1>6. CASE script'[e] = Tail(k)
    <2>1. WriteDone(e) => (WriteDoneIsLast(e) => NoWrites(script'[e]))
        BY <1>1, <1>6, Zenon DEF WriteDone, In, Calling
    <2>2. Calling(e)'
        BY <1>1, <1>4, <1>6, Zenon DEF Calling, WriteDoneIsLast
    <2> QED
        BY <1>1, <1>3, <1>5, <1>6, <2>1, <2>2, Zenon
<1>7. ASSUME NEW x \in {"post", "wait"}, script'[e] = <<x>> \o Tail(k), x = "post" => finishing'[e], ~WriteDone(e)
      PROVE  /\ NoWrites(script[e]) => NoWrites(script'[e])
             /\ Calling(e)'
    <2>0. x \in S /\ x # "write" /\ x # "done"
        BY Zenon
    <2>1. /\ NoWrites(Tail(k)) => NoWrites(<<x>> \o Tail(k))
          /\ DoneLast(Tail(k)) => DoneLast(<<x>> \o Tail(k))
          /\ \A i \in 1..Len(<<x>> \o Tail(k)) :
                (<<x>> \o Tail(k))[i] = x \/ (i - 1 \in 1..Len(Tail(k)) /\ (<<x>> \o Tail(k))[i] = Tail(k)[i - 1])
        BY <1>1, <2>0, CallsPush, Zenon
    <2>2. \A i \in 1..Len(<<x>> \o Tail(k)) : (<<x>> \o Tail(k))[i] = "post" => finishing'[e]
        BY <2>1, <1>4, <1>7, Zenon
    <2> QED
        BY <1>1, <1>7, <2>1, <2>2, Zenon DEF Calling, WriteDoneIsLast
<1>8. CASE Finish(e)
    <2>1. finishing'[e] /\ ~WriteDone(e)
        BY <1>8, Zenon DEF Finish, WriteDone, In, TypeOK
    <2>2. script' = [script EXCEPT ![e] = (IF Over(e) /\ e = "client" THEN <<>> ELSE <<"post">>) \o Tail(@)]
        BY <1>8, Zenon DEF Finish
    <2>3. script'[e] = (IF Over(e) /\ e = "client" THEN <<>> ELSE <<"post">>) \o Tail(k)
        BY <2>2, Zenon DEF TypeOK
    <2>4. <<>> \o Tail(k) = Tail(k)
        BY <1>1
    <2>5. script'[e] = Tail(k) \/ script'[e] = <<"post">> \o Tail(k)
        BY <2>3, <2>4, Zenon
    <2> QED
        BY <1>3, <1>5, <1>6, <1>7, <2>1, <2>5, Zenon
<1>9. CASE PostFinish(e)
    <2>1. script'[e] = <<"wait">> \o Tail(k) /\ ~WriteDone(e)
        BY <1>9, Zenon DEF PostFinish, WriteDone, In, TypeOK
    <2> QED
        BY <1>3, <1>5, <1>7, <2>1, Zenon
<1>10. CASE ~Finish(e) /\ ~PostFinish(e)
    <2>1. script'[e] = Tail(k)
        BY <1>10, Zenon DEF User, Write, WriteDone, Read, EndFinish, ReleaseObj, Return, TypeOK
    <2> QED
        BY <1>6, <2>1, Zenon
<1> QED
    BY <1>8, <1>9, <1>10, Zenon

-----------------------------------------------------------------------------
(* Ending.                                                                  *)

(* What SetStatus does to its end: nothing, a new status, or the end.       *)
LEMMA SetStatusEffect ==
    ASSUME TypeOK, NEW e \in End, NEW new \in none..failed, NEW ok \in BOOLEAN, SetStatus(e, new, ok)
    PROVE  /\ \/ Over(e) /\ UNCHANGED <<status, success, valid, posted>>
              \/ /\ ~Over(e) /\ status'[e] = new /\ success'[e] = ok /\ new < finish
                 /\ valid'[e] = valid[e] /\ posted'[e] = posted[e]
              \/ /\ ~Over(e) /\ status'[e] = new /\ success'[e] = ok /\ new >= finish
                 /\ ~valid'[e] /\ posted'[e] = Append(posted[e], FrameOf(release))
           /\ \A d \in End : d # e => /\ status'[d] = status[d] /\ success'[d] = success[d]
                                      /\ valid'[d] = valid[d] /\ posted'[d] = posted[d]
<1>1. CASE Over(e)
    BY <1>1, Zenon DEF SetStatus, ended
<1>2. CASE ~Over(e)
    <2>1. /\ status' = [status EXCEPT ![e] = new]
          /\ success' = [success EXCEPT ![e] = ok]
          /\ valid' = [valid EXCEPT ![e] = @ /\ new < finish]
          /\ posted' = [posted EXCEPT ![e] = @ \o (IF new >= finish THEN <<FrameOf(release)>> ELSE <<>>)]
        BY <1>2, Zenon DEF SetStatus, Post
    <2>2. posted[e] \in Seq(Item) /\ FrameOf(release) \in Item
        BY Frames, Zenon DEF TypeOK
    <2>3. posted[e] \o <<>> = posted[e] /\ posted[e] \o <<FrameOf(release)>> = Append(posted[e], FrameOf(release))
        BY <2>2
    <2>4. \A d \in End : d # e => /\ status'[d] = status[d] /\ success'[d] = success[d]
                                  /\ valid'[d] = valid[d] /\ posted'[d] = posted[d]
        BY <2>1, Zenon DEF TypeOK
    <2>5. /\ status'[e] = new /\ success'[e] = ok /\ valid'[e] = (valid[e] /\ new < finish)
          /\ posted'[e] = posted[e] \o (IF new >= finish THEN <<FrameOf(release)>> ELSE <<>>)
        BY <2>1, Zenon DEF TypeOK
    <2>6. CASE new < finish
        <3>1. ~(new >= finish)
            BY <2>6 DEF finish, none, failed
        <3>2. valid'[e] = valid[e]
            BY <2>5, <2>6, Zenon DEF TypeOK
        <3>3. posted'[e] = posted[e]
            BY <2>3, <2>5, <3>1, Zenon
        <3> QED
            BY <1>2, <2>4, <2>5, <2>6, <3>2, <3>3, Zenon
    <2>7. CASE new >= finish
        <3>1. ~(new < finish)
            BY <2>7 DEF finish, none, failed
        <3>2. ~valid'[e]
            BY <2>5, <3>1, Zenon
        <3>3. posted'[e] = Append(posted[e], FrameOf(release))
            BY <2>3, <2>5, <2>7, Zenon
        <3> QED
            BY <1>2, <2>4, <2>5, <2>7, <3>2, <3>3, Zenon
    <2> QED
        BY <2>6, <2>7 DEF finish, none, failed
<1> QED
    BY <1>1, <1>2, Zenon

(* Enqueueing at an end that has not ended: the frame comes last, and is    *)
(* written at once if it is alone.                                          *)
LEMMA EnqueueEffect ==
    ASSUME TypeOK, NEW e \in End, NEW f \in Frame, Enqueue(e, f), ~Over(e)
    PROVE  /\ write_cache'[e] = Append(write_cache[e], f)
           /\ write_cache'[e] # <<>>
           /\ \A d \in End : d # e => write_cache'[d] = write_cache[d] /\ writing'[d] = writing[d]
<1>1. write_cache[e] \in Seq(Frame) /\ Append(<<>>, f) = <<f>>
    BY DEF TypeOK
<1>2. Append(write_cache[e], f) # <<>>
    BY <1>1
<1>3. CASE write_cache[e] = <<>>
    BY <1>1, <1>2, <1>3, Zenon DEF Enqueue, HandleWrite, TypeOK
<1>4. CASE write_cache[e] # <<>>
    BY <1>1, <1>2, <1>4, Zenon DEF Enqueue, TypeOK
<1> QED
    BY <1>3, <1>4, Zenon

(* The end that does not move.                                              *)
LEMMA EndingSame ==
    ASSUME NEW d, Ending(d), status'[d] = status[d], io'[d] = io[d], valid'[d] = valid[d],
           posted'[d] = posted[d], writing'[d] = writing[d], write_cache'[d] = write_cache[d],
           open'[d] = open[d], open'[Peer(d)] => open[Peer(d)]
    PROVE  Ending(d)'
BY Zenon DEF Ending, Over

(* A status set, with nothing else about the end changed but a write that   *)
(* stopped.                                                                 *)
LEMMA EndingSetStatus ==
    ASSUME TypeOK, NEW e \in End, Ending(e), NEW new \in none..failed, NEW ok \in BOOLEAN, SetStatus(e, new, ok),
           io[e] = "free", io'[e] = io[e], writing'[e] => writing[e] /\ write_cache'[e] = write_cache[e],
           open' = open
    PROVE  Ending(e)'
<1>1. \/ Over(e) /\ UNCHANGED <<status, success, valid, posted>>
      \/ /\ ~Over(e) /\ status'[e] = new /\ success'[e] = ok /\ new < finish
         /\ valid'[e] = valid[e] /\ posted'[e] = posted[e]
      \/ /\ ~Over(e) /\ status'[e] = new /\ success'[e] = ok /\ new >= finish
         /\ ~valid'[e] /\ posted'[e] = Append(posted[e], FrameOf(release))
    BY SetStatusEffect, Zenon
<1>2. ~open[e] /\ open[Peer(e)] => ~writing'[e]
    BY Zenon DEF Ending
<1>3. writing'[e] => write_cache'[e] # <<>>
    BY Zenon DEF Ending
<1>4. CASE Over(e) /\ UNCHANGED <<status, success, valid, posted>>
    BY <1>2, <1>3, <1>4, Zenon DEF Ending, Over
<1>5. CASE /\ ~Over(e) /\ status'[e] = new /\ new < finish
           /\ valid'[e] = valid[e] /\ posted'[e] = posted[e]
    <2>1. ~Over(e)'
        BY <1>5 DEF Over, finish, none, failed
    <2> QED
        BY <1>2, <1>3, <1>5, <2>1, Zenon DEF Ending
<1>6. CASE ~valid'[e]
    BY <1>2, <1>3, <1>6, Zenon DEF Ending
<1> QED
    BY <1>1, <1>4, <1>5, <1>6, Zenon

(* A step of one end changes nothing of the other but what is on the wire.  *)
OthersSame(d) ==
    /\ status'[d] = status[d] /\ success'[d] = success[d] /\ valid'[d] = valid[d] /\ posted'[d] = posted[d]
    /\ write_cache'[d] = write_cache[d] /\ writing'[d] = writing[d]
    /\ reading'[d] = reading[d] /\ io'[d] = io[d] /\ current'[d] = current[d] /\ cache'[d] = cache[d]
    /\ pausing'[d] = pausing[d] /\ finishing'[d] = finishing[d]
    /\ script'[d] = script[d] /\ written'[d] = written[d] /\ received'[d] = received[d]
    /\ open'[d] = open[d]

LEMMA OthersIo ==
    ASSUME TypeOK, NEW e \in End, NEW d \in End, d # e, Io(e) \/ TimerFires(e)
    PROVE  OthersSame(d)
<1> USE DEF ended, writeSide, readSide, calls, net
<1>1. ASSUME NEW new, NEW ok, SetStatus(e, new, ok)
      PROVE  status'[d] = status[d] /\ success'[d] = success[d] /\ valid'[d] = valid[d] /\ posted'[d] = posted[d]
    <2>1. CASE Over(e)
        BY <1>1, <2>1, Zenon DEF SetStatus
    <2>2. CASE ~Over(e)
        BY <1>1, <2>2 DEF SetStatus, Post, TypeOK
    <2> QED
        BY <2>1, <2>2, Zenon
<1>2. ASSUME NEW f, Enqueue(e, f) PROVE write_cache'[d] = write_cache[d] /\ writing'[d] = writing[d]
    BY <1>2, Zenon DEF Enqueue, HandleWrite, TypeOK
<1>3. CASE RunPosted(e)
    <2>1. UNCHANGED <<beats, io, current, cache, pausing, waiting, calls>>
        BY <1>3, Zenon DEF RunPosted
    <2>2. CASE Release(e) /\ UNCHANGED <<success, valid, tokens, overlapped>>
        <3>1. status'[d] = status[d] /\ open'[d] = open[d] /\ posted'[d] = posted[d]
              /\ write_cache'[d] = write_cache[d] /\ writing'[d] = writing[d] /\ reading'[d] = reading[d]
            BY <2>2, Zenon DEF Release, TypeOK
        <3> QED
            BY <2>1, <2>2, <3>1, Zenon DEF OthersSame
    <2>3. CASE /\ posted' = [posted EXCEPT ![e] = Tail(@)]
               /\ IF valid[e] THEN ReadHead(e) ELSE UNCHANGED <<reading, overlapped>>
               /\ UNCHANGED <<ended, writeSide, net>>
        <3>1. posted'[d] = posted[d] /\ reading'[d] = reading[d]
            BY <2>3, Zenon DEF ReadHead, TypeOK
        <3> QED
            BY <2>1, <2>3, <3>1, Zenon DEF OthersSame
    <2>4. CASE /\ posted' = [posted EXCEPT ![e] = Tail(@)]
               /\ IF valid[e] THEN Enqueue(e, Head(posted[e])) ELSE UNCHANGED <<write_cache, writing>>
               /\ UNCHANGED <<ended, tokens, reading, overlapped, net>>
        <3>1. posted'[d] = posted[d] /\ write_cache'[d] = write_cache[d] /\ writing'[d] = writing[d]
            BY <1>2, <2>4, Zenon DEF TypeOK
        <3> QED
            BY <2>1, <2>4, <3>1, Zenon DEF OthersSame
    <2> QED
        BY <1>3, <2>2, <2>3, <2>4, Zenon DEF RunPosted
<1>4. CASE Written(e)
    <2>1. UNCHANGED <<beats, readSide, calls, open>>
        BY <1>4, Zenon DEF Written
    <2>2. write_cache'[d] = write_cache[d] /\ writing'[d] = writing[d]
        BY <1>4, ZenonT(30) DEF Written, HandleWrite, TypeOK
    <2>3. status'[d] = status[d] /\ success'[d] = success[d] /\ valid'[d] = valid[d] /\ posted'[d] = posted[d]
        <3>1. SetStatus(e, finish, TRUE) \/ UNCHANGED <<ended, posted>>
            BY <1>4, Zenon DEF Written
        <3> QED
            BY <1>1, <3>1, Zenon
    <2> QED
        BY <2>1, <2>2, <2>3, Zenon DEF OthersSame
<1>5. CASE WriteFails(e)
    <2>1. status'[d] = status[d] /\ success'[d] = success[d] /\ valid'[d] = valid[d] /\ posted'[d] = posted[d]
        BY <1>1, <1>5, Zenon DEF WriteFails
    <2>2. writing'[d] = writing[d]
        BY <1>5, Zenon DEF WriteFails, TypeOK
    <2> QED
        BY <1>5, <2>1, <2>2, Zenon DEF OthersSame, WriteFails
<1>6. CASE ReadFrame(e)
    <2>1. UNCHANGED <<beats, cache, pausing, calls, open>>
        BY <1>6, Zenon DEF ReadFrame
    <2>2. reading'[d] = reading[d]
        BY <1>6, Zenon DEF ReadFrame, TypeOK
    <2>3. CASE (\E new, ok : SetStatus(e, new, ok)) /\ UNCHANGED <<writeSide, io, current>>
        BY <1>1, <2>1, <2>2, <2>3, Zenon DEF OthersSame
    <2>4. CASE (Enqueue(e, Head(wire[Peer(e)])) \/ UNCHANGED <<write_cache, writing>>)
               /\ UNCHANGED <<ended, posted, tokens, io, current>>
        BY <1>2, <2>1, <2>2, <2>4, Zenon DEF OthersSame
    <2>5. CASE /\ status' = [status EXCEPT ![e] = data]
               /\ current' = [current EXCEPT ![e] = Head(wire[Peer(e)]).message]
               /\ io' = [io EXCEPT ![e] = IF finishing[e] THEN "next" ELSE "check"]
               /\ UNCHANGED <<success, valid, posted, writeSide>>
        <3>1. status'[d] = status[d] /\ current'[d] = current[d] /\ io'[d] = io[d]
            BY <2>5, Zenon DEF TypeOK
        <3> QED
            BY <2>1, <2>2, <2>5, <3>1, Zenon DEF OthersSame
    <2> QED
        BY <1>6, <2>3, <2>4, <2>5, Zenon DEF ReadFrame
<1>7. CASE ReadFails(e)
    <2>1. status'[d] = status[d] /\ success'[d] = success[d] /\ valid'[d] = valid[d] /\ posted'[d] = posted[d]
        BY <1>1, <1>7, Zenon DEF ReadFails
    <2>2. reading'[d] = reading[d]
        BY <1>7, Zenon DEF ReadFails, TypeOK
    <2> QED
        BY <1>7, <2>1, <2>2, Zenon DEF OthersSame, ReadFails
<1>8. CASE CheckPauseRead(e)
    BY <1>8, Zenon DEF CheckPauseRead, OthersSame, TypeOK
<1>9. CASE ReadNext(e)
    BY <1>9, Zenon DEF ReadNext, ReadHead, OthersSame, TypeOK
<1>10. CASE TimerFires(e)
    <2>1. status'[d] = status[d] /\ success'[d] = success[d] /\ valid'[d] = valid[d] /\ posted'[d] = posted[d]
          /\ write_cache'[d] = write_cache[d] /\ writing'[d] = writing[d]
        BY <1>1, <1>2, <1>10, Zenon DEF TimerFires
    <2> QED
        BY <1>10, <2>1, Zenon DEF OthersSame, TimerFires
<1> QED
    BY <1>3, <1>4, <1>5, <1>6, <1>7, <1>8, <1>9, <1>10, Zenon DEF Io

LEMMA OthersUser ==
    ASSUME TypeOK, NEW e \in End, NEW d \in End, d # e, User(e)
    PROVE  OthersSame(d)
<1> USE DEF ended, writeSide, readSide, calls, net
<1>0. script'[d] = script[d]
    BY Zenon DEF User, Write, WriteDone, Read, Finish, PostFinish, EndFinish, ReleaseObj, Return, TypeOK
<1>a. ASSUME NEW items, Post(e, items) PROVE posted'[d] = posted[d]
    BY <1>a, Zenon DEF Post, TypeOK
<1>b. ClearPausing(e) => pausing'[d] = pausing[d]
    BY Zenon DEF ClearPausing, TypeOK
<1>1. CASE Write(e)
    <2>1. written'[d] = written[d] /\ posted'[d] = posted[d]
        BY <1>1, <1>a, Zenon DEF Write, TypeOK
    <2> QED
        BY <1>0, <1>1, <2>1, Zenon DEF Write, OthersSame
<1>2. CASE WriteDone(e)
    BY <1>0, <1>a, <1>2, Zenon DEF WriteDone, OthersSame
<1>3. CASE Read(e)
    <2>1. posted'[d] = posted[d] /\ pausing'[d] = pausing[d]
        BY <1>3, <1>a, <1>b, Zenon DEF Read
    <2>2. received'[d] = received[d] /\ cache'[d] = cache[d]
        <3>1. CASE cache[e] = <<>>
            BY <1>3, <3>1, Zenon DEF Read
        <3>2. CASE cache[e] # <<>>
            BY <1>3, <3>2 DEF Read, TypeOK
        <3> QED
            BY <3>1, <3>2, Zenon
    <2> QED
        BY <1>0, <1>3, <2>1, <2>2, Zenon DEF Read, OthersSame
<1>4. CASE Finish(e)
    <2>1. finishing'[d] = finishing[d]
        BY <1>4, Zenon DEF Finish, TypeOK
    <2> QED
        BY <1>0, <1>4, <2>1, Zenon DEF Finish, OthersSame
<1>5. CASE PostFinish(e)
    BY <1>0, <1>a, <1>b, <1>5, Zenon DEF PostFinish, OthersSame
<1>6. CASE EndFinish(e)
    BY <1>0, <1>6, Zenon DEF EndFinish, OthersSame
<1>7. CASE ReleaseObj(e)
    <2>1. valid'[d] = valid[d]
        BY <1>7, Zenon DEF ReleaseObj, TypeOK
    <2> QED
        BY <1>0, <1>a, <1>7, <2>1, Zenon DEF ReleaseObj, OthersSame
<1> QED
    BY <1>1, <1>2, <1>3, <1>4, <1>5, <1>6, <1>7, Zenon DEF User

(* What a user or the io thread posts besides release leaves Ending alone.  *)
LEMMA EndingPosted ==
    ASSUME TypeOK, NEW e \in End, Ending(e), status'[e] = status[e], io'[e] = io[e],
           writing'[e] = writing[e], write_cache'[e] = write_cache[e], open' = open,
           valid'[e] => valid[e],
           \A i \in 1..Len(posted'[e]) : posted'[e][i].type = release =>
               ~valid'[e] \/ \E j \in 1..Len(posted[e]) : posted[e][j].type = release
    PROVE  Ending(e)'
<1>1. Over(e)' = Over(e)
    BY Zenon DEF Over
<1>2. \A i \in 1..Len(posted'[e]) : posted'[e][i].type = release => ~valid'[e]
    BY Zenon DEF Ending
<1>3. Over(e) => ~valid'[e]
    BY Zenon DEF Ending
<1>4. ~open[e] /\ open[Peer(e)] => ~valid'[e] /\ ~writing'[e]
    BY Zenon DEF Ending
<1> QED
    BY <1>1, <1>2, <1>3, <1>4, Zenon DEF Ending

(* What a user posts.                                                       *)
PostsOne(e, f) == posted'[e] = Append(posted[e], f)

LEMMA PostOne ==
    ASSUME TypeOK, NEW e \in End, NEW f \in Item, Post(e, <<f>>)
    PROVE  PostsOne(e, f)
<1>1. posted[e] \in Seq(Item)
    BY Zenon DEF TypeOK
<1>2. posted'[e] = posted[e] \o <<f>>
    BY Zenon DEF Post, TypeOK
<1>3. posted[e] \o <<f>> = Append(posted[e], f)
    BY <1>1
<1> QED
    BY <1>2, <1>3, Zenon DEF PostsOne

LEMMA PostNothing ==
    ASSUME TypeOK, NEW e \in End, Post(e, <<>>)
    PROVE  posted'[e] = posted[e]
<1>1. posted[e] \in Seq(Item)
    BY Zenon DEF TypeOK
<1>2. posted'[e] = posted[e] \o <<>>
    BY Zenon DEF Post, TypeOK
<1>3. posted[e] \o <<>> = posted[e]
    BY <1>1
<1> QED
    BY <1>2, <1>3, Zenon

LEMMA UserPosts ==
    ASSUME TypeOK, NEW e \in End, User(e)
    PROVE  /\ written'[e] \in Nat
           /\ \/ Write(e) /\ written'[e] = written[e] + 1 /\ PostsOne(e, [type |-> data, message |-> written[e] + 1])
              \/ written'[e] = written[e] /\ posted'[e] = posted[e]
              \/ WriteDone(e) /\ written'[e] = written[e] /\ PostsOne(e, FrameOf(write_done))
              \/ ReleaseObj(e) /\ ~valid'[e] /\ written'[e] = written[e]
              \/ \E f \in {FrameOf(resume), FrameOf(finish)} : PostsOne(e, f) /\ written'[e] = written[e]
              \/ /\ posted'[e] = Append(Append(posted[e], FrameOf(finish)), FrameOf(resume))
                 /\ written'[e] = written[e]
           /\ ReleaseObj(e) => ~valid'[e]
           /\ ~ReleaseObj(e) => valid' = valid
           /\ UNCHANGED <<status, success, io, writing, write_cache, open, wire>>
<1> USE DEF ended, writeSide, readSide, calls, net
<1>0. written' \in [End -> Nat]
    BY UserTypes, Zenon DEF TypeOK
<1>1. UNCHANGED <<status, success, io, writing, write_cache, open, wire>>
    BY Zenon DEF User, Write, WriteDone, Read, Finish, PostFinish, EndFinish, ReleaseObj
<1>2. ~ReleaseObj(e) => valid' = valid
    BY Zenon DEF User, Write, WriteDone, Read, Finish, PostFinish, EndFinish
<1>3. ReleaseObj(e) => ~valid'[e] /\ written' = written
    BY Zenon DEF ReleaseObj, TypeOK
<1>4. FrameOf(resume) \in Item /\ FrameOf(finish) \in Item /\ FrameOf(write_done) \in Item
    BY Frames, Zenon
<1>5. CASE Write(e) /\ Over(e)
    BY <1>0, <1>1, <1>2, <1>3, <1>5, Zenon DEF Write
<1>6. CASE Write(e) /\ ~Over(e)
    <2>1. written'[e] = written[e] + 1 /\ Post(e, <<[type |-> data, message |-> written'[e]]>>)
        BY <1>6, Zenon DEF Write, TypeOK
    <2>2. [type |-> data, message |-> written[e] + 1] \in Item
        BY DEF Item, data, heartbeat, release, TypeOK
    <2>3. PostsOne(e, [type |-> data, message |-> written[e] + 1])
        BY <2>1, <2>2, PostOne, Zenon
    <2> QED
        BY <1>0, <1>1, <1>2, <1>3, <1>6, <2>1, <2>3, Zenon
<1>7. CASE WriteDone(e)
    <2>1. written' = written /\ Post(e, IF Over(e) THEN <<>> ELSE <<FrameOf(write_done)>>)
        BY <1>7, Zenon DEF WriteDone
    <2>2. posted'[e] = posted[e] \/ PostsOne(e, FrameOf(write_done))
        BY <1>4, <2>1, PostOne, PostNothing, Zenon
    <2> QED
        BY <1>0, <1>1, <1>2, <1>3, <1>7, <2>1, <2>2, Zenon
<1>8. CASE Read(e)
    <2>1. written' = written /\ (posted' = posted \/ Post(e, ResumePosts(e)))
        BY <1>8, Zenon DEF Read
    <2>2. ResumePosts(e) = <<FrameOf(resume)>> \/ ResumePosts(e) = <<>>
        BY Zenon DEF ResumePosts
    <2>3. posted'[e] = posted[e] \/ PostsOne(e, FrameOf(resume))
        BY <1>4, <2>1, <2>2, PostOne, PostNothing, Zenon
    <2> QED
        BY <1>0, <1>1, <1>2, <1>3, <2>1, <2>3, Zenon
<1>9. CASE PostFinish(e)
    <2>1. written' = written /\ Post(e, (IF e = "client" THEN <<FrameOf(finish)>> ELSE <<>>) \o ResumePosts(e))
        BY <1>9, Zenon DEF PostFinish
    <2>2. ResumePosts(e) = <<FrameOf(resume)>> \/ ResumePosts(e) = <<>>
        BY Zenon DEF ResumePosts
    <2>3. /\ <<>> \o <<>> = <<>> /\ <<>> \o <<FrameOf(resume)>> = <<FrameOf(resume)>>
          /\ <<FrameOf(finish)>> \o <<>> = <<FrameOf(finish)>>
        BY <1>4
    <2>4. \/ Post(e, <<>>) \/ Post(e, <<FrameOf(resume)>>) \/ Post(e, <<FrameOf(finish)>>)
          \/ Post(e, <<FrameOf(finish)>> \o <<FrameOf(resume)>>)
        BY <2>1, <2>2, <2>3, Zenon
    <2>5. CASE Post(e, <<FrameOf(finish)>> \o <<FrameOf(resume)>>)
        <3>1. posted'[e] = posted[e] \o (<<FrameOf(finish)>> \o <<FrameOf(resume)>>) /\ posted[e] \in Seq(Item)
            BY <2>5, Zenon DEF Post, TypeOK
        <3>2. posted'[e] = Append(Append(posted[e], FrameOf(finish)), FrameOf(resume))
            BY <3>1, <1>4
        <3> QED
            BY <1>0, <1>1, <1>2, <1>3, <2>1, <3>2, Zenon
    <2>6. CASE Post(e, <<>>) \/ Post(e, <<FrameOf(resume)>>) \/ Post(e, <<FrameOf(finish)>>)
        <3>1. posted'[e] = posted[e] \/ PostsOne(e, FrameOf(resume)) \/ PostsOne(e, FrameOf(finish))
            BY <1>4, <2>6, PostOne, PostNothing, Zenon
        <3> QED
            BY <1>0, <1>1, <1>2, <1>3, <2>1, <3>1, Zenon
    <2> QED
        BY <2>4, <2>5, <2>6, Zenon
<1>10. CASE Finish(e) \/ EndFinish(e)
    <2>1. written' = written /\ posted' = posted
        BY <1>10, Zenon DEF Finish, EndFinish
    <2> QED
        BY <1>0, <1>1, <1>2, <1>3, <2>1, Zenon
<1>11. CASE ReleaseObj(e)
    BY <1>0, <1>1, <1>2, <1>3, <1>11, Zenon
<1> QED
    BY <1>5, <1>6, <1>7, <1>8, <1>9, <1>10, <1>11, Zenon DEF User

(* Appending something else posts no release.                               *)
LEMMA AppendNoRelease ==
    ASSUME NEW s \in Seq(Item), NEW f \in Item, f.type # release,
           NEW i \in 1..Len(Append(s, f)), Append(s, f)[i].type = release
    PROVE  \E j \in 1..Len(s) : s[j].type = release
<1>1. Len(s) \in Nat /\ Len(Append(s, f)) = Len(s) + 1 /\ Append(s, f)[i] = IF i <= Len(s) THEN s[i] ELSE f
    OBVIOUS
<1> QED
    BY <1>1

LEMMA EndingUser ==
    ASSUME TypeOK, NEW e \in End, Ending(e), User(e)
    PROVE  Ending(e)'
<1>0. posted[e] \in Seq(Item) /\ written[e] + 1 \in Nat
    BY DEF TypeOK
<1>a. UNCHANGED <<status, success, io, writing, write_cache, open, wire>> /\ (~ReleaseObj(e) => valid' = valid)
      /\ (ReleaseObj(e) => ~valid'[e])
    BY UserPosts, Zenon
<1>1. CASE ReleaseObj(e)
    BY <1>a, <1>1, EndingPosted, Zenon
<1>2. CASE ~ReleaseObj(e)
    <2>1. \/ PostsOne(e, [type |-> data, message |-> written[e] + 1])
          \/ posted'[e] = posted[e]
          \/ \E t \in {write_done, resume, finish} : PostsOne(e, FrameOf(t))
          \/ posted'[e] = Append(Append(posted[e], FrameOf(finish)), FrameOf(resume))
        BY <1>2, UserPosts, Zenon
    <2>2. /\ [type |-> data, message |-> written[e] + 1] \in Item
          /\ [type |-> data, message |-> written[e] + 1].type # release
        BY <1>0 DEF Item, data, heartbeat, release
    <2>3. \A t \in {write_done, resume, finish} : FrameOf(t) \in Item /\ FrameOf(t).type # release
        BY Frames DEF write_done, resume, finish, release
    <2>4. Append(posted[e], FrameOf(finish)) \in Seq(Item)
        BY <1>0, <2>3
    <2>5. \A i \in 1..Len(posted'[e]) : posted'[e][i].type = release =>
              \E j \in 1..Len(posted[e]) : posted[e][j].type = release
        <3>1. CASE PostsOne(e, [type |-> data, message |-> written[e] + 1])
            BY <1>0, <2>2, <3>1, AppendNoRelease, Zenon DEF PostsOne
        <3>2. CASE \E t \in {write_done, resume, finish} : PostsOne(e, FrameOf(t))
            BY <1>0, <2>3, <3>2, AppendNoRelease, Zenon DEF PostsOne
        <3>3. CASE posted'[e] = Append(Append(posted[e], FrameOf(finish)), FrameOf(resume))
            <4> SUFFICES ASSUME NEW i \in 1..Len(posted'[e]), posted'[e][i].type = release
                         PROVE  \E j \in 1..Len(posted[e]) : posted[e][j].type = release
                BY Zenon
            <4>1. \E j \in 1..Len(Append(posted[e], FrameOf(finish))) :
                      Append(posted[e], FrameOf(finish))[j].type = release
                BY <2>3, <2>4, <3>3, AppendNoRelease, Zenon
            <4> QED
                BY <1>0, <2>3, <4>1, AppendNoRelease, Zenon
        <3> QED
            BY <2>1, <3>1, <3>2, <3>3, Zenon
    <2> QED
        BY <1>2, <1>a, <2>5, EndingPosted, Zenon
<1> QED
    BY <1>1, <1>2, Zenon

(* A frame enqueued by an end that is valid.                                *)
LEMMA EndingEnqueue ==
    ASSUME TypeOK, NEW e \in End, Ending(e), NEW f \in Frame, Enqueue(e, f), valid[e], UNCHANGED <<status, valid, open>>,
           io'[e] = io[e], \A i \in 1..Len(posted'[e]) : \E j \in 1..Len(posted[e]) : posted'[e][i] = posted[e][j]
    PROVE  Ending(e)'
<1>1. ~Over(e)
    BY Zenon DEF Ending
<1>2. write_cache'[e] # <<>>
    BY <1>1, EnqueueEffect, Zenon
<1>3. ~(~open[e] /\ open[Peer(e)])
    BY Zenon DEF Ending
<1>4. \A i \in 1..Len(posted'[e]) : posted'[e][i].type # release
    BY Zenon DEF Ending
<1> QED
    BY <1>1, <1>2, <1>3, <1>4, Zenon DEF Ending, Over

LEMMA EndingRunPosted ==
    ASSUME TypeOK, NEW e \in End, Ending(e), RunPosted(e)
    PROVE  Ending(e)'
<1> USE DEF ended, writeSide, readSide, calls, net
<1>0. posted[e] \in Seq(Item) /\ posted[e] # <<>> /\ io[e] = "free" /\ io' = io
    BY Zenon DEF RunPosted, TypeOK
<1>1. PICK item \in Item : item = Head(posted[e])
    BY <1>0
<1>2. \A i \in 1..Len(Tail(posted[e])) : i + 1 \in 1..Len(posted[e]) /\ Tail(posted[e])[i] = posted[e][i + 1]
    BY <1>0
<1>3. CASE item.type = release
    <2>1. Release(e) /\ UNCHANGED <<success, valid, tokens, overlapped>>
        BY <1>1, <1>3 DEF RunPosted, release, resume, finish
    <2>2. 1 \in 1..Len(posted[e]) /\ posted[e][1] = item
        BY <1>0, <1>1
    <2>3. ~valid'[e]
        BY <1>3, <2>1, <2>2, Zenon DEF Ending
    <2>4. ~writing'[e]
        BY <2>1, Zenon DEF Release, TypeOK
    <2> QED
        BY <1>0, <2>3, <2>4, Zenon DEF Ending
<1>4. CASE item.type = resume
    <2>1. posted' = [posted EXCEPT ![e] = Tail(@)] /\ UNCHANGED <<ended, writeSide, net>>
        BY <1>1, <1>4 DEF RunPosted, release, resume, finish
    <2>2. posted'[e] = Tail(posted[e])
        BY <2>1, Zenon DEF TypeOK
    <2> QED
        BY <1>0, <1>2, <2>1, <2>2, EndingPosted, ZenonT(40)
<1>5. CASE item.type <= finish
    <2>1. /\ posted' = [posted EXCEPT ![e] = Tail(@)]
          /\ IF valid[e] THEN Enqueue(e, item) ELSE UNCHANGED <<write_cache, writing>>
          /\ UNCHANGED <<ended, tokens, reading, overlapped, net>>
        BY <1>1, <1>5 DEF RunPosted, release, resume, finish
    <2>2. item \in Frame
        BY <1>5, Frames, Zenon
    <2>3. posted'[e] = Tail(posted[e])
        BY <2>1, Zenon DEF TypeOK
    <2>4. CASE valid[e]
        <3>1. UNCHANGED <<status, valid, open>> /\ Enqueue(e, item)
            BY <2>1, <2>4, Zenon
        <3>2. \A i \in 1..Len(posted'[e]) : \E j \in 1..Len(posted[e]) : posted'[e][i] = posted[e][j]
            BY <1>2, <2>3, Zenon
        <3> QED
            BY <1>0, <2>2, <2>4, <3>1, <3>2, EndingEnqueue, Zenon
    <2>5. CASE ~valid[e]
        BY <1>0, <1>2, <2>1, <2>3, <2>5, EndingPosted, Zenon
    <2> QED
        BY <2>4, <2>5, Zenon
<1> QED
    BY <1>1, <1>3, <1>4, <1>5, Zenon DEF RunPosted

LEMMA EndingIo ==
    ASSUME TypeOK, NEW e \in End, Ending(e), Io(e) \/ TimerFires(e)
    PROVE  Ending(e)'
<1> USE DEF ended, writeSide, readSide, calls, net
<1>0. failed \in none..failed /\ finish \in none..failed /\ write_done \in none..failed
    BY DEF failed, finish, write_done, none
<1>1. CASE Written(e)
    <2>0. io[e] = "free" /\ io' = io /\ open' = open /\ valid[e] /\ open[e]
        BY <1>1, Zenon DEF Written
    <2>1. CASE SetStatus(e, finish, TRUE) /\ writing' = [writing EXCEPT ![e] = FALSE]
        <3>1. ~writing'[e]
            BY <2>1, Zenon DEF TypeOK
        <3> QED
            BY <1>0, <2>0, <2>1, <3>1, EndingSetStatus, Zenon
    <2>2. CASE HandleWrite(e, Tail(write_cache[e])) /\ UNCHANGED <<status, success, valid, posted>>
        <3>1. ~Over(e)
            BY <2>0, Zenon DEF Ending
        <3>2. write_cache'[e] = Tail(write_cache[e]) /\ (writing'[e] => Tail(write_cache[e]) # <<>>)
            BY <2>2, <3>1, Zenon DEF HandleWrite, TypeOK
        <3> QED
            BY <2>0, <2>2, <3>2, Zenon DEF Ending, Over
    <2> QED
        BY <1>1, <2>1, <2>2, Zenon DEF Written
<1>2. CASE WriteFails(e)
    <2>1. ~writing'[e]
        BY <1>2, Zenon DEF WriteFails, TypeOK
    <2>2. io[e] = "free" /\ io'[e] = io[e] /\ open' = open /\ SetStatus(e, failed, FALSE)
        BY <1>2, Zenon DEF WriteFails
    <2> QED
        BY <1>0, <2>1, <2>2, EndingSetStatus, Zenon
<1>3. CASE ReadFails(e)
    <2>1. /\ io[e] = "free" /\ io'[e] = io[e] /\ open' = open /\ SetStatus(e, failed, FALSE)
          /\ writing' = writing /\ write_cache' = write_cache
        BY <1>3, Zenon DEF ReadFails
    <2> QED
        BY <1>0, <2>1, EndingSetStatus, Zenon
<1>4. CASE CheckPauseRead(e) \/ ReadNext(e)
    <2>1. io[e] # "free" /\ UNCHANGED <<status, valid, posted, writing, write_cache, open>>
        BY <1>4, Zenon DEF CheckPauseRead, ReadNext
    <2> QED
        BY <2>1, Zenon DEF Ending, Over
<1>5. CASE TimerFires(e)
    <2>0. io[e] = "free" /\ io' = io /\ open' = open /\ valid[e]
        BY <1>5, Zenon DEF TimerFires
    <2>1. CASE waiting[e]
        BY <1>0, <1>5, <2>0, <2>1, EndingSetStatus, Zenon DEF TimerFires
    <2>2. CASE ~waiting[e]
        <3>1. UNCHANGED <<status, success, valid, posted>>
            BY <1>5, <2>2, Zenon DEF TimerFires
        <3>2. Enqueue(e, FrameOf(heartbeat)) \/ UNCHANGED <<write_cache, writing>>
            BY <1>5, <2>2, Zenon DEF TimerFires
        <3>3. FrameOf(heartbeat) \in Frame
            BY Frames, Zenon
        <3>4. CASE Enqueue(e, FrameOf(heartbeat))
            BY <2>0, <3>1, <3>3, <3>4, EndingEnqueue, Zenon
        <3>5. CASE UNCHANGED <<write_cache, writing>>
            BY <2>0, <3>1, <3>5, EndingSame, Zenon
        <3> QED
            BY <3>2, <3>4, <3>5, Zenon
    <2> QED
        BY <2>1, <2>2, Zenon
<1>6. CASE ReadFrame(e)
    <2>0. io[e] = "free" /\ open' = open /\ valid[e] /\ ~Over(e)
        BY <1>6, Zenon DEF ReadFrame
    <2>1. PICK frame \in Frame : frame = Head(wire[Peer(e)])
        <3>1. wire[Peer(e)] \in Seq(Frame) /\ wire[Peer(e)] # <<>>
            BY <1>6, Peers, Zenon DEF ReadFrame, TypeOK
        <3> QED
            BY <3>1
    <2>2. CASE /\ SetStatus(e, failed, FALSE) \/ SetStatus(e, write_done, TRUE) \/ SetStatus(e, finish, TRUE)
               /\ UNCHANGED <<writeSide, io, current>>
        BY <1>0, <2>0, <2>2, EndingSetStatus, Zenon
    <2>3. CASE /\ IF e = "server" THEN Enqueue(e, frame) ELSE UNCHANGED <<write_cache, writing>>
               /\ UNCHANGED <<ended, posted, tokens, io, current>>
        <3>1. CASE Enqueue(e, frame)
            BY <2>0, <2>3, <3>1, EndingEnqueue, Zenon
        <3>2. CASE UNCHANGED <<write_cache, writing>>
            BY <2>0, <2>3, <3>2, EndingSame, Zenon
        <3> QED
            BY <2>3, <3>1, <3>2, Zenon
    <2>4. CASE /\ status' = [status EXCEPT ![e] = data]
               /\ UNCHANGED <<success, valid, posted, writeSide>>
        <3>1. status'[e] = data
            BY <2>4, Zenon DEF TypeOK
        <3>2. ~Over(e)'
            BY <3>1 DEF Over, data, finish
        <3> QED
            BY <2>0, <2>4, <3>1, <3>2, Zenon DEF Ending
    <2> QED
        BY <1>6, <2>1, <2>2, <2>3, <2>4, Zenon DEF ReadFrame
<1> QED
    BY <1>1, <1>2, <1>3, <1>4, <1>5, <1>6, EndingRunPosted, Zenon DEF Io

-----------------------------------------------------------------------------
(* The chain from the writer to the reader.                                 *)

LinkedNext(e) ==
    Chain(wire'[e], write_cache'[e], posted'[e], open'[e], valid'[e], Taken(Peer(e)), written'[e],
          NoWrites(script'[e]), WriteDoneIsLast(e))

(* A step of the writer leaves what the reader has taken alone.             *)
LEMMA LinkedWriter ==
    ASSUME NEW e \in End, OthersSame(Peer(e)), Takes(Peer(e)) => LinkedNext(e)
    PROVE  Linked(e)'
<1>1. Takes(Peer(e))' = Takes(Peer(e))
    BY Zenon DEF OthersSame, Takes, Over
<1>2. Taken(Peer(e))' = Taken(Peer(e))
    BY Zenon DEF OthersSame, Taken, Seen
<1>3. WriteDoneIsLast(e)' = WriteDoneIsLast(e)
    BY Zenon DEF WriteDoneIsLast
<1>4. NoWrites(script[e])' = NoWrites(script'[e])
    BY Zenon DEF NoWrites
<1>5. Linked(e)' = (Takes(Peer(e))' => Chain(wire'[e], write_cache'[e], posted'[e], open'[e], valid'[e],
                       Taken(Peer(e))', written'[e], NoWrites(script[e])', WriteDoneIsLast(e)'))
    BY Zenon DEF Linked, Chain, Line, Sealed
<1> QED
    BY <1>1, <1>2, <1>3, <1>4, <1>5, Zenon DEF LinkedNext

(* What the invariant says before the step.                                 *)
LEMMA LinkedBefore ==
    ASSUME TypeOK, NEW e \in End, Linked(e), Takes(Peer(e))
    PROVE  /\ Chain(wire[e], write_cache[e], posted[e], open[e], valid[e], Taken(Peer(e)), written[e],
                    NoWrites(script[e]), WriteDoneIsLast(e))
           /\ wire[e] \in Seq(Frame) /\ write_cache[e] \in Seq(Frame) /\ posted[e] \in Seq(Item)
           /\ open[e] \in BOOLEAN /\ valid[e] \in BOOLEAN /\ written[e] \in Nat
           /\ open[Peer(e)]
<1>1. Chain(wire[e], write_cache[e], posted[e], open[e], valid[e], Taken(Peer(e)), written[e],
            NoWrites(script[e]), WriteDoneIsLast(e))
    BY Zenon DEF Linked
<1> QED
    BY <1>1, Zenon DEF TypeOK, Takes

LEMMA LinkedUser ==
    ASSUME TypeOK, NEW e \in End, Linked(e), Calling(e), User(e), Takes(Peer(e))
    PROVE  LinkedNext(e)
<1> DEFINE n == Taken(Peer(e))
<1> DEFINE promise == WriteDoneIsLast(e)
<1> DEFINE last == NoWrites(script[e])
<1> DEFINE last2 == NoWrites(script'[e])
<1>1. /\ Chain(wire[e], write_cache[e], posted[e], open[e], valid[e], n, written[e], last, promise)
      /\ wire[e] \in Seq(Frame) /\ write_cache[e] \in Seq(Frame) /\ posted[e] \in Seq(Item)
      /\ open[e] \in BOOLEAN /\ valid[e] \in BOOLEAN /\ written[e] \in Nat
      /\ open[Peer(e)]
    BY LinkedBefore, Zenon
<1>2. last => last2
    BY UserCalls, Zenon
<1>3. Write(e) => ~last
    BY UserCalls, Zenon
<1>4. WriteDone(e) => (promise => last2)
    BY UserCalls, Zenon
<1>5. wire'[e] = wire[e] /\ write_cache'[e] = write_cache[e] /\ open'[e] = open[e]
    BY UserPosts, Zenon
<1>6. (~ReleaseObj(e) => valid'[e] = valid[e]) /\ (ReleaseObj(e) => ~valid'[e])
    BY UserPosts, Zenon
<1>7. \/ Write(e) /\ written'[e] = written[e] + 1 /\ PostsOne(e, [type |-> data, message |-> written[e] + 1])
      \/ written'[e] = written[e] /\ posted'[e] = posted[e]
      \/ WriteDone(e) /\ written'[e] = written[e] /\ PostsOne(e, FrameOf(write_done))
      \/ ReleaseObj(e) /\ ~valid'[e] /\ written'[e] = written[e]
      \/ \E f \in {FrameOf(resume), FrameOf(finish)} : PostsOne(e, f) /\ written'[e] = written[e]
      \/ /\ posted'[e] = Append(Append(posted[e], FrameOf(finish)), FrameOf(resume))
         /\ written'[e] = written[e]
    BY UserPosts, Zenon
<1>8. /\ FrameOf(resume) \in Item /\ FrameOf(resume).type # data /\ FrameOf(resume).type # write_done
      /\ FrameOf(finish) \in Item /\ FrameOf(finish).type # data /\ FrameOf(finish).type # write_done
      /\ FrameOf(write_done) \in Item /\ FrameOf(write_done).type # data
    BY Frames DEF resume, finish, write_done, data
<1>9. valid'[e] => valid[e]
    BY <1>6, Zenon
<1> HIDE DEF n, promise, last, last2
<1>10. ASSUME NEW q, Chain(wire[e], write_cache[e], q, open[e], valid[e], n, written[e], last, promise),
              posted'[e] = q, written'[e] = written[e]
       PROVE  LinkedNext(e)
    <2>1. Chain(wire[e], write_cache[e], q, open[e], valid'[e], n, written[e], last2, promise)
        BY <1>2, <1>9, <1>10, ChainWeaker, SMTT(20)
    <2> QED
        BY <1>5, <1>10, <2>1, ZenonT(40) DEF LinkedNext, n, last2, promise
<1>11. CASE Write(e) /\ written'[e] = written[e] + 1 /\ PostsOne(e, [type |-> data, message |-> written[e] + 1])
    <2>0. [type |-> data, message |-> written[e] + 1] \in Item
        <3>1. written[e] + 1 \in Nat /\ data \in heartbeat..release
            BY <1>1 DEF data, heartbeat, release
        <3> QED
            BY <3>1, Zenon DEF Item
    <2>1. PICK f \in Item : f = [type |-> data, message |-> written[e] + 1]
        BY <2>0, Zenon
    <2>2. f.type = data /\ f.message = written[e] + 1
        BY <2>1, Zenon
    <2>3. ~last
        BY <1>3, <1>11, Zenon
    <2>4. Chain(wire[e], write_cache[e], Append(posted[e], f), open[e], valid[e], n, written[e] + 1, last2, promise)
        BY <1>1, <2>2, <2>3, ChainPostData, SMTT(20)
    <2>5. last2 => last2
        BY ZenonT(40)
    <2>6. Chain(wire[e], write_cache[e], Append(posted[e], f), open[e], valid'[e], n, written[e] + 1, last2, promise)
        BY <1>9, <2>4, <2>5, ChainWeaker, SMTT(20)
    <2> QED
        BY <1>5, <1>11, <2>1, <2>6, Zenon DEF LinkedNext, n, last2, promise, PostsOne
<1>12. CASE WriteDone(e) /\ written'[e] = written[e] /\ PostsOne(e, FrameOf(write_done))
    <2>1. promise => last2
        BY <1>4, <1>12, Zenon
    <2>2. PICK f \in Item : f = FrameOf(write_done)
        BY <1>8, Zenon
    <2>3. f.type # data
        BY <1>8, <2>2, Zenon
    <2>4. Chain(wire[e], write_cache[e], Append(posted[e], f), open[e], valid[e], n, written[e], last2, promise)
        BY <1>1, <1>2, <2>1, <2>3, ChainPostDone, Zenon
    <2>5. last2 => last2
        BY Zenon
    <2>6. Chain(wire[e], write_cache[e], Append(posted[e], f), open[e], valid'[e], n, written[e], last2, promise)
        BY <1>9, <2>4, <2>5, ChainWeaker
    <2> QED
        BY <1>5, <1>12, <2>2, <2>6, Zenon DEF LinkedNext, n, last2, promise, PostsOne
<1>13. CASE ~valid'[e] /\ written'[e] = written[e]
    <2>1. PICK a \in 0..written[e], b \in 0..written[e] :
              /\ Line(wire[e], n, a) /\ (open[e] => Line(write_cache[e], a, b))
              /\ promise => Sealed(wire[e], a, written[e], last) /\ (open[e] => Sealed(write_cache[e], b, written[e], last))
        BY <1>1, Zenon DEF Chain
    <2>2. promise => /\ Sealed(wire[e], a, written[e], last2)
                     /\ open[e] => Sealed(write_cache[e], b, written[e], last2)
        BY <1>2, <2>1, SealedLast
    <2>3. ~valid'[e]
        BY <1>13, Zenon
    <2>5. Chain(wire[e], write_cache[e], posted'[e], open[e], valid'[e], n, written[e], last2, promise)
        BY <2>1, <2>2, <2>3, Zenon DEF Chain
    <2> QED
        BY <1>5, <1>13, <2>5, Zenon DEF LinkedNext, n, last2, promise
<1>14. ASSUME NEW f \in {FrameOf(resume), FrameOf(finish)}, PostsOne(e, f), written'[e] = written[e]
       PROVE  LinkedNext(e)
    <2>1. f \in Item /\ f.type # data /\ f.type # write_done
        BY <1>8, Zenon
    <2>2. Chain(wire[e], write_cache[e], Append(posted[e], f), open[e], valid[e], n, written[e], last, promise)
        BY <1>1, <2>1, ChainPostOther, Zenon
    <2> QED
        BY <1>10, <1>14, <2>2, Zenon DEF PostsOne
<1>15. CASE /\ posted'[e] = Append(Append(posted[e], FrameOf(finish)), FrameOf(resume))
            /\ written'[e] = written[e]
    <2>0. Append(posted[e], FrameOf(finish)) \in Seq(Item)
        BY <1>1, <1>8
    <2>1. PICK s \in Seq(Item) : s = Append(posted[e], FrameOf(finish))
        BY <2>0, Zenon
    <2>2. Chain(wire[e], write_cache[e], Append(posted[e], FrameOf(finish)), open[e], valid[e], n, written[e], last, promise)
        BY <1>1, <1>8, ChainPostOther, Zenon
    <2>3. Chain(wire[e], write_cache[e], s, open[e], valid[e], n, written[e], last, promise)
        BY <2>1, <2>2, Zenon
    <2>4. Chain(wire[e], write_cache[e], Append(s, FrameOf(resume)), open[e], valid[e], n, written[e], last, promise)
        BY <1>8, <2>3, ChainPostOther, Zenon
    <2> QED
        BY <1>10, <1>15, <2>1, <2>4, Zenon
<1>16. CASE written'[e] = written[e] /\ posted'[e] = posted[e]
    BY <1>1, <1>10, <1>16, Zenon
<1> QED
    BY <1>7, <1>11, <1>12, <1>13, <1>14, <1>15, <1>16, Zenon

(* A posted handler that is no frame goes.                                  *)
LEMMA ChainSkip ==
    ASSUME NEW S, NEW w, NEW q, NEW s \in Seq(S), NEW o, NEW v, NEW n, NEW m, NEW last, NEW promise,
           Chain(w, q, s, o, v, n, m, last, promise), s # <<>>, Head(s).type # data
    PROVE  Chain(w, q, Tail(s), o, v, n, m, last, promise)
<1>1. PICK a \in 0..m, b \in 0..m :
        /\ Line(w, n, a) /\ (o => Line(q, a, b)) /\ (o /\ v => Line(s, b, m))
        /\ promise => Sealed(w, a, m, last) /\ (o => Sealed(q, b, m, last))
                      /\ (o /\ v => Sealed(s, m, m, last))
    BY Zenon DEF Chain
<1>2. o /\ v => Line(Tail(s), b, m)
    BY <1>1, LineTailOther, Zenon
<1>3. promise /\ o /\ v => Sealed(Tail(s), m, m, last)
    BY <1>1, SealedTail, Zenon
<1> QED
    BY <1>1, <1>2, <1>3, Zenon DEF Chain

(* What an invalid writer has posted does not matter.                       *)
LEMMA ChainInvalid ==
    ASSUME NEW w, NEW q, NEW s, NEW o, NEW v, NEW n, NEW m, NEW last, NEW promise,
           Chain(w, q, s, o, v, n, m, last, promise), NEW s2, NEW v2, ~v2
    PROVE  Chain(w, q, s2, o, v2, n, m, last, promise)
BY Zenon DEF Chain

LEMMA LinkedSetStatus ==
    ASSUME TypeOK, NEW e \in End, Linked(e), Takes(Peer(e)),
           NEW new \in none..failed, NEW ok \in BOOLEAN, SetStatus(e, new, ok),
           wire'[e] = wire[e], write_cache'[e] = write_cache[e], open'[e] = open[e],
           written'[e] = written[e], script'[e] = script[e]
    PROVE  LinkedNext(e)
<1>1. Chain(wire[e], write_cache[e], posted[e], open[e], valid[e], Taken(Peer(e)), written[e],
            NoWrites(script[e]), WriteDoneIsLast(e))
    BY LinkedBefore, Zenon
<1>2. (valid'[e] = valid[e] /\ posted'[e] = posted[e]) \/ ~valid'[e]
    BY SetStatusEffect, Zenon
<1>3. Chain(wire[e], write_cache[e], posted'[e], open[e], valid'[e], Taken(Peer(e)), written[e],
            NoWrites(script[e]), WriteDoneIsLast(e))
    <2>1. CASE valid'[e] = valid[e] /\ posted'[e] = posted[e]
        BY <1>1, <2>1, Zenon
    <2>2. CASE ~valid'[e]
        BY <1>1, <2>2, ZenonT(30) DEF Chain
    <2> QED BY <1>2, <2>1, <2>2, Zenon
<1> QED
    BY <1>3, Zenon DEF LinkedNext

LEMMA LinkedEnqueueOther ==
    ASSUME TypeOK, NEW e \in End, Linked(e), Takes(Peer(e)), NEW f \in Frame, f.type = heartbeat,
           Enqueue(e, f), ~Over(e), wire'[e] = wire[e], UNCHANGED <<valid, posted, open>>,
           written'[e] = written[e], script'[e] = script[e]
    PROVE  LinkedNext(e)
<1>1. Chain(wire[e], write_cache[e], posted[e], open[e], valid[e], Taken(Peer(e)), written[e],
            NoWrites(script[e]), WriteDoneIsLast(e)) /\ write_cache[e] \in Seq(Frame)
    BY LinkedBefore, Zenon
<1>2. f.type # data /\ f.type # write_done
    BY SMTT(20) DEF heartbeat, data, write_done
<1>3. Chain(wire[e], Append(write_cache[e], f), posted[e], open[e], valid[e], Taken(Peer(e)), written[e],
            NoWrites(script[e]), WriteDoneIsLast(e))
    BY <1>1, <1>2, ChainQueueOther, Zenon
<1>4. write_cache'[e] = Append(write_cache[e], f)
    BY EnqueueEffect, Zenon
<1> QED
    BY <1>3, <1>4, Zenon DEF LinkedNext

LEMMA LinkedRunPosted ==
    ASSUME TypeOK, NEW e \in End, Ending(e), Linked(e), Takes(Peer(e)), RunPosted(e)
    PROVE  LinkedNext(e)
<1> USE DEF ended, writeSide, readSide, calls, net
<1> DEFINE n == Taken(Peer(e))
<1> DEFINE promise == WriteDoneIsLast(e)
<1> DEFINE last == NoWrites(script[e])
<1>1. /\ Chain(wire[e], write_cache[e], posted[e], open[e], valid[e], n, written[e], last, promise)
      /\ wire[e] \in Seq(Frame) /\ write_cache[e] \in Seq(Frame) /\ posted[e] \in Seq(Item)
      /\ open[e] \in BOOLEAN /\ valid[e] \in BOOLEAN /\ written[e] \in Nat
      /\ open[Peer(e)]
    BY LinkedBefore, Zenon
<1>2. posted[e] # <<>> /\ UNCHANGED <<script, written>>
    BY Zenon DEF RunPosted
<1>3. PICK item \in Item : item = Head(posted[e])
    BY <1>1, <1>2, SMTT(20)
<1>4. LinkedNext(e) <=> Chain(wire'[e], write_cache'[e], posted'[e], open'[e], valid'[e], n, written[e], last, promise)
    BY <1>2, Zenon DEF LinkedNext
<1> HIDE DEF n, promise, last
<1>5. CASE item.type = release
    <2>1. Release(e) /\ valid' = valid
        BY <1>3, <1>5 DEF RunPosted, release, resume, finish
    <2>2. open'[e] = FALSE
        BY <2>1, Zenon DEF Release, TypeOK
    <2>3. PICK left \in {wire[e]} \cup (IF writing[e] /\ Len(wire[e]) < MaxWire
                                       THEN {Append(wire[e], Head(write_cache[e]))} ELSE {})
                                  \cup (IF wire[Peer(e)] # <<>> THEN {<<>>} ELSE {}) :
              wire' = [wire EXCEPT ![e] = left]
        BY <2>1, Zenon DEF Release
    <2>4. wire'[e] = left
        BY <2>3, Zenon DEF TypeOK
    <2>5. CASE left = wire[e]
        <3>1. Chain(wire[e], write_cache'[e], posted'[e], FALSE, valid'[e], n, written[e], last, promise)
            BY <1>1, ChainClosed, Zenon
        <3> QED
            BY <1>4, <2>2, <2>4, <2>5, <3>1, Zenon
    <2>6. CASE left = <<>>
        <3>1. Chain(<<>>, write_cache'[e], posted'[e], FALSE, valid'[e], n, written[e], last, promise)
            BY <1>1, ChainReset, Zenon
        <3> QED
            BY <1>4, <2>2, <2>4, <2>6, <3>1, Zenon
    <2>7. CASE writing[e] /\ left = Append(wire[e], Head(write_cache[e]))
        <3>1. open[e] = TRUE /\ write_cache[e] # <<>>
            BY <1>1, <2>7, Zenon DEF Ending
        <3>2. Chain(wire[e], write_cache[e], posted[e], TRUE, valid[e], n, written[e], last, promise)
            BY <1>1, <3>1, Zenon
        <3>3. Chain(Append(wire[e], Head(write_cache[e])), Tail(write_cache[e]), posted[e], TRUE, valid[e], n,
                    written[e], last, promise)
            BY <1>1, <3>1, <3>2, ChainSend, Zenon
        <3>4. Chain(Append(wire[e], Head(write_cache[e])), write_cache'[e], posted'[e], FALSE, valid'[e], n,
                    written[e], last, promise)
            BY <3>3, ChainClosed, Zenon
        <3> QED
            BY <1>4, <2>2, <2>4, <2>7, <3>4, Zenon
    <2> QED
        BY <2>5, <2>6, <2>7, Zenon
<1>6. CASE item.type = resume
    <2>1. posted' = [posted EXCEPT ![e] = Tail(@)] /\ UNCHANGED <<valid, write_cache, wire, open>>
        BY <1>3, <1>6 DEF RunPosted, release, resume, finish
    <2>2. posted'[e] = Tail(posted[e])
        BY <2>1, Zenon DEF TypeOK
    <2>3. Head(posted[e]).type # data
        BY <1>3, <1>6 DEF resume, data
    <2>4. Chain(wire[e], write_cache[e], Tail(posted[e]), open[e], valid[e], n, written[e], last, promise)
        BY <1>1, <1>2, <2>3, ChainSkip, Zenon
    <2> QED
        BY <1>4, <2>1, <2>2, <2>4, Zenon
<1>7. CASE item.type <= finish
    <2>1. /\ posted' = [posted EXCEPT ![e] = Tail(@)]
          /\ IF valid[e] THEN Enqueue(e, item) ELSE UNCHANGED <<write_cache, writing>>
          /\ UNCHANGED <<ended, tokens, reading, overlapped, net>>
        BY <1>3, <1>7 DEF RunPosted, release, resume, finish
    <2>2. posted'[e] = Tail(posted[e])
        BY <2>1, Zenon DEF TypeOK
    <2>3. CASE valid[e]
        <3>1. ~Over(e) /\ item \in Frame /\ valid[e] = TRUE
            BY <1>1, <1>7, <2>3, Frames, Zenon DEF Ending
        <3>2. write_cache'[e] = Append(write_cache[e], item)
            BY <2>1, <2>3, <3>1, EnqueueEffect, Zenon
        <3>3. Chain(wire[e], write_cache[e], posted[e], open[e], TRUE, n, written[e], last, promise)
            BY <1>1, <3>1, Zenon
        <3>4. Chain(wire[e], Append(write_cache[e], item), Tail(posted[e]), open[e], TRUE, n, written[e], last, promise)
            BY <1>1, <1>2, <1>3, <3>1, <3>3, ChainQueue, Zenon
        <3> QED
            BY <1>4, <2>1, <2>2, <3>1, <3>2, <3>4, Zenon
    <2>4. CASE ~valid[e]
        <3>1. Chain(wire[e], write_cache[e], Tail(posted[e]), open[e], valid[e], n, written[e], last, promise)
            BY <1>1, <2>4, ChainInvalid, Zenon
        <3> QED
            BY <1>4, <2>1, <2>2, <2>4, <3>1, Zenon
    <2> QED
        BY <2>3, <2>4, Zenon
<1> QED
    BY <1>3, <1>5, <1>6, <1>7, Zenon DEF RunPosted

LEMMA LinkedWritten ==
    ASSUME TypeOK, NEW e \in End, Ending(e), Linked(e), Takes(Peer(e)), Written(e)
    PROVE  LinkedNext(e)
<1> USE DEF ended, writeSide, readSide, calls, net
<1> DEFINE n == Taken(Peer(e))
<1> DEFINE promise == WriteDoneIsLast(e)
<1> DEFINE last == NoWrites(script[e])
<1>1. /\ Chain(wire[e], write_cache[e], posted[e], open[e], valid[e], n, written[e], last, promise)
      /\ wire[e] \in Seq(Frame) /\ write_cache[e] \in Seq(Frame) /\ posted[e] \in Seq(Item)
      /\ open[e] \in BOOLEAN /\ valid[e] \in BOOLEAN /\ written[e] \in Nat
      /\ open[Peer(e)]
    BY LinkedBefore, Zenon
<1>2. /\ UNCHANGED <<script, written, open>> /\ open[e] = TRUE /\ valid[e] = TRUE /\ write_cache[e] # <<>> /\ ~Over(e)
      /\ open'[e] = TRUE
    BY <1>1, Zenon DEF Written, Ending
<1>3. wire' = [wire EXCEPT ![e] = Append(@, Head(write_cache[e]))]
    BY <1>1, Zenon DEF Written
<1>4. wire'[e] = Append(wire[e], Head(write_cache[e]))
    BY <1>3, Zenon DEF TypeOK
<1>5. LinkedNext(e) <=> Chain(wire'[e], write_cache'[e], posted'[e], open'[e], valid'[e], n, written[e], last, promise)
    BY <1>2, Zenon DEF LinkedNext
<1> HIDE DEF n, promise, last
<1>6. Chain(wire[e], write_cache[e], posted[e], TRUE, valid[e], n, written[e], last, promise)
    BY <1>1, <1>2, Zenon
<1>7. Chain(Append(wire[e], Head(write_cache[e])), Tail(write_cache[e]), posted[e], TRUE, valid[e], n,
            written[e], last, promise)
    BY <1>1, <1>2, <1>6, ChainSend, Zenon
<1>8. CASE SetStatus(e, finish, TRUE) /\ write_cache' = [write_cache EXCEPT ![e] = <<>>]
    <2>1. finish \in none..failed /\ ~(finish < finish)
        BY DEF finish, none, failed
    <2>2. ~valid'[e]
        BY <1>2, <1>8, <2>1, SetStatusEffect, Zenon
    <2>3. write_cache'[e] = <<>>
        BY <1>8, Zenon DEF TypeOK
    <2>4. Chain(Append(wire[e], Head(write_cache[e])), <<>>, posted'[e], TRUE, FALSE, n, written[e], last, promise)
        BY <1>1, <1>7, ChainDropped, Zenon
    <2>5. Chain(Append(wire[e], Head(write_cache[e])), <<>>, posted'[e], TRUE, valid'[e], n, written[e], last, promise)
        BY <2>2, <2>4, ChainInvalid, Zenon
    <2> QED
        BY <1>2, <1>4, <1>5, <2>3, <2>5, Zenon
<1>9. CASE HandleWrite(e, Tail(write_cache[e])) /\ UNCHANGED <<ended, posted>>
    <2>1. write_cache'[e] = Tail(write_cache[e])
        BY <1>2, <1>9, Zenon DEF HandleWrite, TypeOK
    <2> QED
        BY <1>2, <1>4, <1>5, <1>7, <1>9, <2>1, Zenon
<1> QED
    BY <1>8, <1>9, Zenon DEF Written

LEMMA LinkedIo ==
    ASSUME TypeOK, NEW e \in End, Ending(e), Linked(e), Takes(Peer(e)), Io(e) \/ TimerFires(e)
    PROVE  LinkedNext(e)
<1> USE DEF ended, writeSide, readSide, calls, net
<1>0. failed \in none..failed /\ finish \in none..failed /\ write_done \in none..failed
    BY DEF failed, finish, write_done, none
<1>1. CASE WriteFails(e) \/ ReadFails(e)
    BY <1>1, Zenon DEF WriteFails, ReadFails, Takes
<1>2. CASE CheckPauseRead(e) \/ ReadNext(e)
    <2>1. UNCHANGED <<wire, write_cache, posted, open, valid, written, script>>
        BY <1>2, Zenon DEF CheckPauseRead, ReadNext
    <2> QED
        BY <2>1, LinkedBefore, Zenon DEF LinkedNext
<1>3. CASE TimerFires(e)
    <2>0. UNCHANGED <<wire, open, written, script>> /\ ~Over(e)
        BY <1>3, Zenon DEF TimerFires
    <2>1. CASE SetStatus(e, failed, FALSE) /\ write_cache' = write_cache
        BY <1>0, <2>0, <2>1, LinkedSetStatus, Zenon
    <2>2. CASE Enqueue(e, FrameOf(heartbeat)) /\ UNCHANGED <<status, success, valid, posted>>
        <3>1. PICK f \in Frame : f = FrameOf(heartbeat)
            BY Frames, Zenon
        <3>2. f.type = heartbeat /\ Enqueue(e, f) /\ UNCHANGED <<valid, posted, open>>
            BY <2>0, <2>2, <3>1, Frames, Zenon
        <3> QED
            BY <2>0, <3>2, LinkedEnqueueOther, Zenon
    <2>3. CASE UNCHANGED <<write_cache, writing>> /\ UNCHANGED <<status, success, valid, posted>>
        BY <2>0, <2>3, LinkedBefore, Zenon DEF LinkedNext
    <2> QED
        BY <1>3, <2>1, <2>2, <2>3, Zenon DEF TimerFires
<1>4. CASE ReadFrame(e)
    <2>0. UNCHANGED <<open, written, script>> /\ ~Over(e)
        BY <1>4, Zenon DEF ReadFrame
    <2>1. wire'[e] = wire[e]
        <3>1. wire' = [wire EXCEPT ![Peer(e)] = Tail(@)] /\ Peer(e) # e
            BY <1>4, Peers, Zenon DEF ReadFrame
        <3> QED
            BY <3>1, Zenon DEF TypeOK
    <2>2. PICK frame \in Frame : frame = Head(wire[Peer(e)])
        <3>1. wire[Peer(e)] \in Seq(Frame) /\ wire[Peer(e)] # <<>>
            BY <1>4, Peers, Zenon DEF ReadFrame, TypeOK
        <3> QED
            BY <3>1
    <2>3. CASE /\ SetStatus(e, failed, FALSE) \/ SetStatus(e, write_done, TRUE) \/ SetStatus(e, finish, TRUE)
               /\ UNCHANGED write_cache
        BY <1>0, <2>0, <2>1, <2>3, LinkedSetStatus, Zenon
    <2>4. CASE /\ IF e = "server" THEN Enqueue(e, frame) ELSE UNCHANGED <<write_cache, writing>>
               /\ frame.type = heartbeat
               /\ UNCHANGED <<valid, posted>>
        <3>1. CASE Enqueue(e, frame)
            BY <2>0, <2>1, <2>4, <3>1, LinkedEnqueueOther, Zenon
        <3>2. CASE UNCHANGED <<write_cache, writing>>
            BY <2>0, <2>1, <2>4, <3>2, LinkedBefore, Zenon DEF LinkedNext
        <3> QED
            BY <2>4, <3>1, <3>2, Zenon
    <2>5. CASE UNCHANGED <<valid, posted, write_cache>>
        BY <2>0, <2>1, <2>5, LinkedBefore, Zenon DEF LinkedNext
    <2> QED
        BY <1>4, <2>2, <2>3, <2>4, <2>5, Zenon DEF ReadFrame
<1> QED
    BY <1>1, <1>2, <1>3, <1>4, LinkedRunPosted, LinkedWritten, Zenon DEF Io

(* What a step of e takes off the wire of its peer: nothing, what a reset   *)
(* discards, or a frame.                                                    *)
TakesNothing(e) ==
    /\ Taken(e)' = Taken(e)
    /\ \/ wire'[Peer(e)] = wire[Peer(e)]
       \/ wire'[Peer(e)] = <<>> /\ ~open[Peer(e)]
TakesFrame(e) ==
    /\ wire[Peer(e)] # <<>> /\ wire'[Peer(e)] = Tail(wire[Peer(e)])
    /\ Taken(e)' = Taken(e) + (IF Head(wire[Peer(e)]).type = data THEN 1 ELSE 0)

LEMMA SeenNat ==
    ASSUME TypeOK, NEW e \in End
    PROVE  /\ received[e] \in Seq(Nat) /\ cache[e] \in Seq(Nat)
           /\ Len(received[e]) \in Nat /\ Len(cache[e]) \in Nat /\ Seen(e) \in Nat /\ Taken(e) \in Nat
<1>1. received[e] \in Seq(Nat) /\ cache[e] \in Seq(Nat)
    BY Zenon DEF TypeOK
<1>2. Len(received[e]) \in Nat /\ Len(cache[e]) \in Nat
    BY <1>1
<1>3. \A a, b \in Nat : a + b \in Nat /\ a + 1 \in Nat
    OBVIOUS
<1>4. Seen(e) \in Nat
    BY <1>2, <1>3, Zenon DEF Seen
<1>5. Taken(e) \in Nat
    BY <1>3, <1>4, Zenon DEF Taken
<1> QED
    BY <1>1, <1>2, <1>4, <1>5, Zenon

(* A message that Read hands to the user was in the cache before.           *)
LEMMA SeenRead ==
    ASSUME TypeOK, NEW e \in End, Read(e)
    PROVE  /\ Seen(e)' = Seen(e)
           /\ \/ received'[e] = received[e] /\ cache'[e] = cache[e]
              \/ /\ cache[e] # <<>> /\ received'[e] = Append(received[e], Head(cache[e]))
                 /\ cache'[e] = Tail(cache[e])
<1>0. received[e] \in Seq(Nat) /\ cache[e] \in Seq(Nat) /\ Len(received[e]) \in Nat /\ Len(cache[e]) \in Nat
    BY SeenNat, Zenon
<1>1. CASE UNCHANGED <<cache, received>>
    BY <1>1, Zenon DEF Seen
<1>2. CASE /\ cache[e] # <<>>
           /\ received' = [received EXCEPT ![e] = Append(@, Head(cache[e]))]
           /\ cache' = [cache EXCEPT ![e] = Tail(@)]
    <2>1. received'[e] = Append(received[e], Head(cache[e])) /\ cache'[e] = Tail(cache[e])
        BY <1>2, Zenon DEF TypeOK
    <2>2. Head(cache[e]) \in Nat /\ Len(Tail(cache[e])) = Len(cache[e]) - 1
        BY <1>0, <1>2
    <2>3. Len(Append(received[e], Head(cache[e]))) = Len(received[e]) + 1
        BY <1>0, <2>2
    <2>4. \A a, b \in Nat : (a + 1) + (b - 1) = a + b
        OBVIOUS
    <2>5. Seen(e)' = (Len(received[e]) + 1) + (Len(cache[e]) - 1)
        BY <2>1, <2>2, <2>3, Zenon DEF Seen
    <2>6. Seen(e)' = Seen(e)
        BY <1>0, <2>4, <2>5, Zenon DEF Seen
    <2> QED
        BY <1>2, <2>1, <2>6, Zenon
<1> QED
    BY <1>1, <1>2, Zenon DEF Read

LEMMA ReaderStep ==
    ASSUME TypeOK, NEW e \in End, Ending(e), Io(e) \/ TimerFires(e) \/ User(e), Takes(e)'
    PROVE  Takes(e) /\ (TakesNothing(e) \/ TakesFrame(e))
<1> USE DEF ended, writeSide, readSide, calls, net
<1>0. Peer(e) \in End /\ Peer(e) # e
    BY Peers, Zenon
<1>1. CASE User(e)
    <2>1. UNCHANGED <<status, io, open, wire>>
        BY <1>1, UserPosts, Zenon
    <2>2. finishing[e] => finishing'[e]
        BY <1>1, Zenon DEF User, Write, WriteDone, Read, Finish, PostFinish, EndFinish, ReleaseObj, TypeOK
    <2>3. Takes(e)
        BY <2>1, <2>2, Zenon DEF Takes, Over
    <2>4. Seen(e)' = Seen(e)
        <3>1. CASE Read(e)
            BY <3>1, SeenRead, Zenon
        <3>2. CASE ~Read(e)
            BY <1>1, <3>2, Zenon DEF User, Write, WriteDone, Finish, PostFinish, EndFinish, ReleaseObj, Seen
        <3> QED
            BY <3>1, <3>2, Zenon
    <2> QED
        BY <2>1, <2>3, <2>4, Zenon DEF TakesNothing, Taken
<1>2. CASE Io(e) \/ TimerFires(e)
    <2>1. UNCHANGED <<received, finishing>>
        BY <1>2, Zenon DEF Io, RunPosted, Written, WriteFails, ReadFrame, ReadFails, CheckPauseRead, ReadNext, TimerFires
    <2>2. CASE RunPosted(e)
        <3>1. CASE Release(e)
            BY <3>1, Zenon DEF Release, Takes, TypeOK
        <3>2. CASE UNCHANGED <<ended, net>>
            <4>1. UNCHANGED <<io, cache>>
                BY <2>2, Zenon DEF RunPosted
            <4> QED
                BY <2>1, <3>2, <4>1, Zenon DEF Takes, Over, TakesNothing, Taken, Seen
        <3> QED
            BY <2>2, <3>1, <3>2, Zenon DEF RunPosted
    <2>3. CASE Written(e)
        <3>1. UNCHANGED <<io, cache, open>>
            BY <2>3, Zenon DEF Written
        <3>2. ~Over(e)
            BY <2>3, Zenon DEF Written, Ending
        <3>3. Takes(e)
            BY <2>1, <3>1, <3>2, Zenon DEF Takes
        <3>4. wire'[Peer(e)] = wire[Peer(e)] \/ (wire'[Peer(e)] = <<>> /\ ~open[Peer(e)])
            BY <1>0, <2>3, Zenon DEF Written, TypeOK
        <3> QED
            BY <2>1, <3>1, <3>3, <3>4, Zenon DEF TakesNothing, Taken, Seen
    <2>4. CASE WriteFails(e) \/ ReadFails(e) \/ TimerFires(e)
        <3>1. UNCHANGED <<io, cache, open, wire>>
            BY <2>4, Zenon DEF WriteFails, ReadFails, TimerFires
        <3>2. ~Over(e)
            BY <2>4, Zenon DEF WriteFails, ReadFails, TimerFires, Ending
        <3> QED
            BY <2>1, <3>1, <3>2, Zenon DEF Takes, TakesNothing, Taken, Seen
    <2>5. CASE CheckPauseRead(e)
        <3>1. UNCHANGED <<status, cache, open, wire>> /\ io[e] # "free" /\ io'[e] # "free"
            BY <2>5, Zenon DEF CheckPauseRead, TypeOK
        <3> QED
            BY <2>1, <3>1, Zenon DEF Takes, Over, TakesNothing, Taken, Seen
    <2>6. CASE ReadNext(e)
        <3>1. UNCHANGED <<status, open, wire>> /\ io[e] # "free" /\ io'[e] = "free"
            BY <2>6, Zenon DEF ReadNext, TypeOK
        <3>2. Takes(e)
            BY <2>1, <3>1, Zenon DEF Takes, Over
        <3>3. cache'[e] = Append(cache[e], current[e])
            BY <2>6, <3>2, Zenon DEF ReadNext, Takes, TypeOK
        <3>4. cache[e] \in Seq(Nat) /\ current[e] \in Nat /\ Len(received[e]) \in Nat /\ Len(cache[e]) \in Nat
            BY SeenNat, Zenon DEF TypeOK
        <3>5. Len(cache'[e]) = Len(cache[e]) + 1
            BY <3>3, <3>4
        <3>6. Taken(e)' = Taken(e)
            <4>1. \A a, b \in Nat : a + (b + 1) = (a + b) + 1
                OBVIOUS
            <4>2. Taken(e)' = Len(received[e]) + (Len(cache[e]) + 1)
                BY <2>1, <3>1, <3>5, Zenon DEF Taken, Seen
            <4>3. Taken(e) = (Len(received[e]) + Len(cache[e])) + 1
                BY <3>1, Zenon DEF Taken, Seen
            <4> QED
                BY <3>4, <4>1, <4>2, <4>3, Zenon
        <3> QED
            BY <3>1, <3>2, <3>6, Zenon DEF TakesNothing
    <2>7. CASE ReadFrame(e)
        <3>1. UNCHANGED <<cache, open>> /\ ~Over(e) /\ io[e] = "free" /\ wire[Peer(e)] # <<>>
            BY <2>7, Zenon DEF ReadFrame
        <3>2. wire'[Peer(e)] = Tail(wire[Peer(e)])
            BY <1>0, <2>7, Zenon DEF ReadFrame, TypeOK
        <3>3. Takes(e)
            BY <2>1, <3>1, Zenon DEF Takes
        <3>4. Taken(e) = Seen(e) /\ Seen(e)' = Seen(e) /\ Seen(e) \in Nat
            BY <2>1, <3>1, SeenNat, Zenon DEF Taken, Seen
        <3>5. CASE Head(wire[Peer(e)]).type = data
            <4>0. data # heartbeat /\ data # write_done /\ data # finish
                BY DEF data, heartbeat, write_done, finish
            <4>1. CASE io' = [io EXCEPT ![e] = IF finishing[e] THEN "next" ELSE "check"]
                <5>1. io'[e] # "free"
                    BY <4>1, Zenon DEF TypeOK
                <5> QED
                    BY <3>1, <3>2, <3>3, <3>4, <3>5, <5>1, Zenon DEF TakesFrame, Taken
            <4>2. CASE SetStatus(e, failed, FALSE)
                <5>1. status'[e] = failed
                    BY <3>1, <4>2, Zenon DEF SetStatus, TypeOK
                <5> QED
                    BY <5>1 DEF Takes, Over, failed, finish
            <4> QED
                BY <2>7, <3>5, <4>0, <4>1, <4>2, Zenon DEF ReadFrame
        <3>6. CASE Head(wire[Peer(e)]).type # data
            <4>1. io' = io
                BY <2>7, <3>6, Zenon DEF ReadFrame
            <4>2. Taken(e)' = Taken(e) + 0
                BY <3>1, <3>4, <4>1, SMTT(20) DEF Taken
            <4> QED
                BY <3>1, <3>2, <3>3, <3>6, <4>2, Zenon DEF TakesFrame
        <3> QED
            BY <3>5, <3>6, Zenon
    <2> QED
        BY <1>2, <2>2, <2>3, <2>4, <2>5, <2>6, <2>7, Zenon DEF Io
<1> QED
    BY <1>1, <1>2, Zenon

LEMMA LinkedReader ==
    ASSUME TypeOK, NEW e \in End, NEW p \in End, p = Peer(e), Ending(e), Linked(p), OthersSame(p),
           Io(e) \/ TimerFires(e) \/ User(e)
    PROVE  Linked(p)'
<1> SUFFICES ASSUME Takes(e)'
             PROVE  Chain(wire'[p], write_cache[p], posted[p], open[p], valid[p], Taken(e)', written[p],
                          NoWrites(script[p]), WriteDoneIsLast(p))
    <2>1. Peer(p) = e
        BY Peers, Zenon
    <2> QED
        BY <2>1, Zenon DEF Linked, OthersSame
<1>1. Takes(e) /\ (TakesNothing(e) \/ TakesFrame(e))
    BY ReaderStep, Zenon
<1>2. Peer(p) = e
    BY Peers, Zenon
<1> DEFINE promise == WriteDoneIsLast(p)
<1> DEFINE last == NoWrites(script[p])
<1> DEFINE n == Taken(e)
<1>3. /\ Chain(wire[p], write_cache[p], posted[p], open[p], valid[p], n, written[p], last, promise)
      /\ wire[p] \in Seq(Frame) /\ open[p] \in BOOLEAN /\ written[p] \in Nat
    BY <1>1, <1>2, LinkedBefore, ZenonT(30)
<1> HIDE DEF promise, last, n
<1>4. CASE TakesNothing(e)
    <2>1. Taken(e)' = n
        BY <1>4, Zenon DEF TakesNothing, n
    <2>2. CASE wire'[p] = wire[p]
        BY <1>3, <2>1, <2>2, Zenon DEF promise, last
    <2>3. CASE wire'[p] = <<>> /\ ~open[p]
        <3>1. Chain(<<>>, write_cache[p], posted[p], FALSE, valid[p], n, written[p], last, promise)
            BY <1>3, ChainReset, Zenon
        <3>2. open[p] = FALSE
            BY <1>3, <2>3, Zenon
        <3> QED
            BY <2>1, <2>3, <3>1, <3>2, Zenon DEF promise, last
    <2> QED
        BY <1>4, <2>2, <2>3, Zenon DEF TakesNothing
<1>5. CASE TakesFrame(e)
    <2>1. wire[p] # <<>> /\ wire'[p] = Tail(wire[p])
        BY <1>5, Zenon DEF TakesFrame
    <2>2. CASE Head(wire[p]).type = data
        <3>1. Taken(e)' = n + 1
            BY <1>5, <2>2, Zenon DEF TakesFrame, n
        <3>2. Chain(Tail(wire[p]), write_cache[p], posted[p], open[p], valid[p], n + 1, written[p], last, promise)
            BY <1>3, <2>1, <2>2, ChainTakeData, Zenon
        <3> QED
            BY <2>1, <3>1, <3>2, Zenon DEF promise, last
    <2>3. CASE Head(wire[p]).type # data
        <3>1. Taken(e)' = n
            <4>1. n \in Nat
                BY SeenNat, Zenon DEF n
            <4>2. Taken(e)' = n + 0
                BY <1>5, <2>3, Zenon DEF TakesFrame, n
            <4> QED
                BY <4>1, <4>2
        <3>2. Chain(Tail(wire[p]), write_cache[p], posted[p], open[p], valid[p], n, written[p], last, promise)
            BY <1>3, <2>1, <2>3, ChainTakeOther, Zenon
        <3> QED
            BY <2>1, <3>1, <3>2, Zenon DEF promise, last
    <2> QED
        BY <2>2, <2>3, Zenon
<1> QED
    BY <1>1, <1>4, <1>5, Zenon

-----------------------------------------------------------------------------
(* The order of what a reader has.                                          *)

LEMMA OrderedSame ==
    ASSUME NEW e, Ordered(e), received'[e] = received[e], cache'[e] = cache[e],
           io'[e] # "free" => io[e] # "free" /\ current'[e] = current[e],
           finishing[e] => finishing'[e],
           written[Peer(e)] \in Nat, written'[Peer(e)] \in Nat, written[Peer(e)] <= written'[Peer(e)],
           Seen(e) \in Nat
    PROVE  Ordered(e)'
<1>1. Seen(e)' = Seen(e)
    BY Zenon DEF Seen
<1>2. \A k \in Nat : k <= written[Peer(e)] => k <= written'[Peer(e)]
    BY SMTT(20)
<1>3. Seen(e)' <= written'[Peer(e)]
    BY <1>1, <1>2, Zenon DEF Ordered
<1>4. Seen(e) + 1 \in Nat
    OBVIOUS
<1>5. io'[e] # "free" /\ ~finishing'[e] => current'[e] = Seen(e)' + 1 /\ current'[e] <= written'[Peer(e)]
    BY <1>1, <1>2, <1>4, Zenon DEF Ordered
<1> QED
    BY <1>3, <1>5, Zenon DEF Ordered

LEMMA OrderedRead ==
    ASSUME TypeOK, NEW e \in End, Ordered(e), Read(e)
    PROVE  Ordered(e)'
<1> USE DEF ended, writeSide, readSide, calls, net
<1>0. received[e] \in Seq(Nat) /\ cache[e] \in Seq(Nat) /\ Len(received[e]) \in Nat /\ Len(cache[e]) \in Nat
      /\ Seen(e) \in Nat
    BY SeenNat, Zenon
<1>1. UNCHANGED <<io, current, finishing, written>>
    BY Zenon DEF Read
<1>2. Seen(e)' = Seen(e)
    BY SeenRead, Zenon
<1>3. CASE received'[e] = received[e] /\ cache'[e] = cache[e]
    BY <1>1, <1>2, <1>3, Zenon DEF Ordered
<1>4. CASE /\ cache[e] # <<>> /\ received'[e] = Append(received[e], Head(cache[e]))
           /\ cache'[e] = Tail(cache[e])
    <2>1. PICK r \in Seq(Nat) : r = received[e]
        BY <1>0, Zenon
    <2>2. PICK c \in Seq(Nat) : c = cache[e]
        BY <1>0, Zenon
    <2>3. /\ c # <<>> /\ \A i \in 1..Len(r) : r[i] = i
          /\ \A i \in 1..Len(c) : c[i] = Len(r) + i
        BY <1>4, <2>1, <2>2, Zenon DEF Ordered
    <2>4. Len(c) \in Nat \ {0} /\ Len(r) \in Nat /\ Head(c) = c[1] /\ c[1] \in Nat
        BY <2>3
    <2>5. Head(c) = Len(r) + 1
        BY <2>3, <2>4
    <2>6. Len(Append(r, Head(c))) = Len(r) + 1
        BY <2>4
    <2>7. \A i \in 1..Len(Append(r, Head(c))) : Append(r, Head(c))[i] = i
        BY <2>3, <2>4, <2>5
    <2>8. \A i \in 1..Len(Tail(c)) : Tail(c)[i] = Len(Append(r, Head(c))) + i
        <3>1. Len(Tail(c)) = Len(c) - 1 /\ \A i \in 1..Len(Tail(c)) : Tail(c)[i] = c[i + 1]
            BY <2>3
        <3>2. \A i \in 1..Len(Tail(c)) : i + 1 \in 1..Len(c)
            BY <2>4, <3>1
        <3>3. \A i \in 1..Len(Tail(c)) : Tail(c)[i] = Len(r) + (i + 1)
            BY <2>3, <3>1, <3>2, Zenon
        <3>4. \A i \in 1..Len(Tail(c)) : Len(r) + (i + 1) = (Len(r) + 1) + i
            BY <2>4
        <3> QED
            BY <2>6, <3>3, <3>4, Zenon
    <2>9. received'[e] = Append(r, Head(c)) /\ cache'[e] = Tail(c)
        BY <1>4, <2>1, <2>2, Zenon
    <2>10. /\ \A i \in 1..Len(received'[e]) : received'[e][i] = i
           /\ \A i \in 1..Len(cache'[e]) : cache'[e][i] = Len(received'[e]) + i
        BY <2>7, <2>8, <2>9, Zenon
    <2> QED
        BY <1>1, <1>2, <2>10, Zenon DEF Ordered
<1> QED
    BY <1>3, <1>4, SeenRead, Zenon

LEMMA OrderedReadNext ==
    ASSUME TypeOK, NEW e \in End, Ordered(e), ReadNext(e)
    PROVE  Ordered(e)'
<1> USE DEF ended, writeSide, readSide, calls, net
<1>0. received[e] \in Seq(Nat) /\ cache[e] \in Seq(Nat) /\ Len(received[e]) \in Nat /\ Len(cache[e]) \in Nat
      /\ Seen(e) \in Nat
    BY SeenNat, Zenon
<1>1. UNCHANGED <<received, finishing, written>> /\ io'[e] = "free" /\ io[e] # "free"
    BY Zenon DEF ReadNext, TypeOK
<1>2. CASE finishing[e]
    <2>1. cache'[e] = cache[e]
        BY <1>2, Zenon DEF ReadNext, TypeOK
    <2> QED
        BY <1>1, <2>1, Zenon DEF Ordered, Seen
<1>3. CASE ~finishing[e]
    <2>1. cache'[e] = Append(cache[e], current[e]) /\ current[e] \in Nat
        BY <1>3, Zenon DEF ReadNext, TypeOK
    <2>2. current[e] = Seen(e) + 1 /\ current[e] <= written[Peer(e)]
        BY <1>1, <1>3, Zenon DEF Ordered
    <2>3. PICK c \in Seq(Nat) : c = cache[e]
        BY <1>0, Zenon
    <2>4. PICK m \in Nat : m = current[e]
        BY <2>1, Zenon
    <2>5. PICK k \in Nat : k = Len(received[e])
        BY <1>0, Zenon
    <2>6. m = (k + Len(c)) + 1 /\ Len(c) \in Nat
        BY <2>2, <2>3, <2>4, <2>5 DEF Seen
    <2>7. Len(Append(c, m)) = Len(c) + 1
        OBVIOUS
    <2>8. \A i \in 1..Len(c) : c[i] = k + i
        BY <2>3, <2>5, Zenon DEF Ordered
    <2>9. \A i \in 1..Len(Append(c, m)) : Append(c, m)[i] = k + i
        BY <2>6, <2>7, <2>8
    <2>10. k + Len(Append(c, m)) = m
        BY <2>6, <2>7
    <2>11. cache'[e] = Append(c, m) /\ Len(received'[e]) = k
        BY <1>1, <2>1, <2>3, <2>4, <2>5, Zenon
    <2>12. Seen(e)' = m
        BY <2>10, <2>11, Zenon DEF Seen
    <2>13. Seen(e)' <= written'[Peer(e)]
        BY <1>1, <2>2, <2>4, <2>12, Zenon
    <2>14. \A i \in 1..Len(cache'[e]) : cache'[e][i] = Len(received'[e]) + i
        BY <2>9, <2>11, Zenon
    <2>15. \A i \in 1..Len(received'[e]) : received'[e][i] = i
        BY <1>1, Zenon DEF Ordered
    <2> QED
        BY <1>1, <2>13, <2>14, <2>15, Zenon DEF Ordered
<1> QED
    BY <1>2, <1>3, Zenon

LEMMA OrderedReadFrame ==
    ASSUME TypeOK, NEW e \in End, Ordered(e), Linked(Peer(e)), ReadFrame(e)
    PROVE  Ordered(e)'
<1> USE DEF ended, writeSide, readSide, calls, net
<1>0. Peer(e) \in End /\ Peer(Peer(e)) = e /\ Seen(e) \in Nat /\ written[Peer(e)] \in Nat
    BY Peers, SeenNat, Zenon DEF TypeOK
<1>1. /\ UNCHANGED <<received, finishing, written, cache>> /\ io[e] = "free"
      /\ wire[Peer(e)] # <<>> /\ open[e] /\ ~Over(e)
    BY Zenon DEF ReadFrame
<1>2. CASE io' = io
    BY <1>0, <1>1, <1>2, OrderedSame
<1>3. CASE /\ Head(wire[Peer(e)]).type = data
           /\ current' = [current EXCEPT ![e] = Head(wire[Peer(e)]).message]
    <2>1. CASE finishing[e]
        BY <1>1, <2>1, Zenon DEF Ordered, Seen
    <2>2. CASE ~finishing[e]
        <3>1. Takes(Peer(Peer(e)))
            BY <1>0, <1>1, <2>2, Zenon DEF Takes
        <3> DEFINE p == Peer(e)
        <3> DEFINE promise == WriteDoneIsLast(p)
        <3> DEFINE last == NoWrites(script[p])
        <3> DEFINE n == Taken(e)
        <3>2. /\ Chain(wire[p], write_cache[p], posted[p], open[p], valid[p], n, written[p], last, promise)
              /\ wire[p] \in Seq(Frame) /\ written[p] \in Nat
            BY <1>0, <3>1, LinkedBefore, Zenon
        <3>3. wire[p] # <<>> /\ Head(wire[p]).type = data
            BY <1>1, <1>3, Zenon
        <3>4. n = Seen(e)
            BY <1>1, Zenon DEF Taken
        <3> HIDE DEF promise, last, n, p
        <3>5. Head(wire[p]).message = n + 1 /\ n + 1 <= written[p]
            <4>1. /\ Head(wire[p]).message = n + 1 /\ n + 1 <= written[p]
                  /\ Chain(Tail(wire[p]), write_cache[p], posted[p], open[p], valid[p], n + 1, written[p], last, promise)
                BY <3>2, <3>3, ChainTakeData, Zenon
            <4> QED
                BY <4>1, Zenon
        <3>6. current'[e] = Head(wire[p]).message
            BY <1>3, Zenon DEF TypeOK, p
        <3>7. current'[e] = Seen(e) + 1 /\ current'[e] <= written'[Peer(e)]
            BY <1>1, <3>4, <3>5, <3>6, Zenon DEF p
        <3>8. Seen(e)' = Seen(e)
            BY <1>1, Zenon DEF Seen
        <3> QED
            BY <1>1, <3>7, <3>8, Zenon DEF Ordered
    <2> QED
        BY <2>1, <2>2, Zenon
<1> QED
    BY <1>2, <1>3, Zenon DEF ReadFrame

LEMMA OrderedStep ==
    ASSUME TypeOK, NEW e \in End, Ordered(e), Linked(Peer(e)), OthersSame(Peer(e)),
           Io(e) \/ TimerFires(e) \/ User(e)
    PROVE  Ordered(e)'
<1> USE DEF ended, writeSide, readSide, calls, net
<1>0. Seen(e) \in Nat /\ written[Peer(e)] \in Nat /\ written'[Peer(e)] = written[Peer(e)]
    BY SeenNat, Peers, Zenon DEF TypeOK, OthersSame
<1>00. written'[Peer(e)] \in Nat /\ written[Peer(e)] <= written'[Peer(e)]
    BY <1>0
<1>1. CASE RunPosted(e) \/ Written(e) \/ WriteFails(e) \/ ReadFails(e) \/ TimerFires(e)
    <2>1. UNCHANGED <<received, cache, finishing, io, current>>
        BY <1>1, Zenon DEF RunPosted, Written, WriteFails, ReadFails, TimerFires
    <2> QED
        BY <1>0, <1>00, <2>1, OrderedSame, Zenon
<1>2. CASE CheckPauseRead(e)
    <2>1. UNCHANGED <<received, cache, finishing, current>> /\ io[e] # "free"
        BY <1>2, Zenon DEF CheckPauseRead
    <2> QED
        BY <1>0, <1>00, <2>1, OrderedSame, Zenon
<1>3. CASE User(e) /\ ~Read(e)
    <2>1. UNCHANGED <<received, cache, io, current>>
        BY <1>3, Zenon DEF User, Write, WriteDone, Finish, PostFinish, EndFinish, ReleaseObj
    <2>2. finishing[e] => finishing'[e]
        BY <1>3, Zenon DEF User, Write, WriteDone, Finish, PostFinish, EndFinish, ReleaseObj, TypeOK
    <2> QED
        BY <1>0, <1>00, <2>1, <2>2, OrderedSame, Zenon
<1> QED
    BY <1>1, <1>2, <1>3, OrderedRead, OrderedReadNext, OrderedReadFrame, Zenon DEF Io

(* The other end: its writer may accept more.                               *)
LEMMA OrderedOther ==
    ASSUME TypeOK, NEW e \in End, Ordered(Peer(e)), OthersSame(Peer(e)), Io(e) \/ TimerFires(e) \/ User(e)
    PROVE  Ordered(Peer(e))'
<1> USE DEF ended, writeSide, readSide, calls, net
<1>0. Peer(e) \in End /\ Peer(Peer(e)) = e /\ written[e] \in Nat
    BY Peers, Zenon DEF TypeOK
<1>1. written'[e] = written[e] \/ written'[e] = written[e] + 1
    <2>1. CASE User(e)
        BY <2>1, UserPosts, Zenon
    <2>2. CASE Io(e) \/ TimerFires(e)
        BY <2>2, Zenon DEF Io, RunPosted, Written, WriteFails, ReadFrame, ReadFails, CheckPauseRead, ReadNext, TimerFires
    <2> QED
        BY <2>1, <2>2, Zenon
<1>2. written'[e] \in Nat /\ written[e] <= written'[e]
    BY <1>0, <1>1
<1>3. Seen(Peer(e)) \in Nat
    BY <1>0, SeenNat, Zenon
<1> QED
    BY <1>0, <1>2, <1>3, OrderedSame, Zenon DEF OthersSame

-----------------------------------------------------------------------------
(* What the success of the server's stream stands for.                      *)

(* How a step of the server moves its status and its error.                 *)
LEMMA ServerStatus ==
    ASSUME TypeOK, Ending("server"), NEW e \in End, e = "server", Io(e) \/ TimerFires(e) \/ User(e)
    PROVE  \/ status'[e] = status[e] /\ success'[e] = success[e]
           \/ status'[e] >= finish /\ status'[e] # write_done /\ (success'[e] => success[e])
           \/ ReadFrame(e) /\ status[e] = write_done /\ status'[e] = finish /\ success'[e] /\ io' = io
           \/ /\ ReadFrame(e) /\ Head(wire[Peer(e)]).type = write_done
              /\ status'[e] = write_done /\ success'[e] /\ io' = io
           \/ status[e] <= data /\ status'[e] = data /\ success'[e] = success[e]
<1> USE DEF ended, writeSide, readSide, calls, net
<1>0. /\ failed \in none..failed /\ finish \in none..failed /\ write_done \in none..failed
      /\ failed >= finish /\ failed # write_done /\ finish # write_done /\ finish >= finish /\ write_done < finish
      /\ TRUE \in BOOLEAN /\ FALSE \in BOOLEAN
    BY DEF failed, finish, write_done, none
<1>1. ASSUME SetStatus(e, failed, FALSE)
      PROVE  \/ status'[e] = status[e] /\ success'[e] = success[e]
             \/ status'[e] >= finish /\ status'[e] # write_done /\ (success'[e] => success[e])
    <2>1. \/ Over(e) /\ UNCHANGED <<status, success>>
          \/ ~Over(e) /\ status'[e] = failed /\ success'[e] = FALSE
        BY <1>0, <1>1, SetStatusEffect, Zenon
    <2> QED
        BY <1>0, <2>1, Zenon
<1>2. CASE User(e)
    BY <1>2, UserPosts, Zenon
<1>3. CASE WriteFails(e) \/ ReadFails(e)
    BY <1>1, <1>3, Zenon DEF WriteFails, ReadFails
<1>4. CASE TimerFires(e)
    BY <1>1, <1>4, Zenon DEF TimerFires
<1>5. CASE CheckPauseRead(e) \/ ReadNext(e)
    BY <1>5, Zenon DEF CheckPauseRead, ReadNext
<1>6. CASE Written(e)
    BY <1>6, Zenon DEF Written
<1>7. CASE RunPosted(e)
    <2>1. CASE Release(e) /\ UNCHANGED success
        <3>1. status'[e] = status[e] \/ status'[e] = finish
            BY <2>1, Zenon DEF Release, TypeOK
        <3> QED
            BY <1>0, <2>1, <3>1, Zenon
    <2>2. CASE UNCHANGED <<status, success>>
        BY <2>2, Zenon
    <2> QED
        BY <1>7, <2>1, <2>2, Zenon DEF RunPosted
<1>8. CASE ReadFrame(e)
    <2>0. ~Over(e) /\ status[e] \in none..failed /\ success[e] \in BOOLEAN
        BY <1>8, Zenon DEF ReadFrame, TypeOK
    <2>1. CASE SetStatus(e, failed, FALSE)
        BY <1>1, <2>1, Zenon
    <2>2. CASE UNCHANGED <<status, success>>
        BY <2>2, Zenon
    <2>3. CASE /\ Admits(e, Head(wire[Peer(e)])) /\ Head(wire[Peer(e)]).type = data
               /\ status' = [status EXCEPT ![e] = data] /\ UNCHANGED success
        <3>1. status[e] <= data
            BY <2>0, <2>3 DEF Admits, data, heartbeat
        <3>2. status'[e] = data
            BY <2>3, Zenon DEF TypeOK
        <3> QED
            BY <2>3, <3>1, <3>2, Zenon
    <2>4. CASE Head(wire[Peer(e)]).type = write_done /\ SetStatus(e, write_done, TRUE) /\ UNCHANGED io
        <3>1. status'[e] = write_done /\ success'[e] = TRUE
            BY <1>0, <2>0, <2>4, SetStatusEffect, Zenon
        <3> QED
            BY <1>8, <2>4, <3>1, Zenon
    <2>5. CASE FinishesWell(e) /\ SetStatus(e, finish, TRUE) /\ UNCHANGED io
        <3>1. status'[e] = finish /\ success'[e] = TRUE
            BY <1>0, <2>0, <2>5, SetStatusEffect, Zenon
        <3> QED
            BY <1>8, <2>5, <3>1, Zenon DEF FinishesWell
    <2> QED
        BY <1>8, <2>1, <2>2, <2>3, <2>4, <2>5, Zenon DEF ReadFrame
<1> QED
    BY <1>2, <1>3, <1>4, <1>5, <1>6, <1>7, <1>8, Zenon DEF Io

(* What the server has seen grows only while it reads data.                 *)
LEMMA SeenStep ==
    ASSUME TypeOK, NEW e \in End, Ending(e), status[e] # data, Io(e) \/ TimerFires(e) \/ User(e)
    PROVE  Seen(e)' = Seen(e) /\ (finishing[e] => finishing'[e])
<1> USE DEF ended, writeSide, readSide, calls, net
<1>1. CASE User(e)
    <2>1. CASE Read(e)
        BY <2>1, SeenRead, Zenon DEF Read
    <2>2. CASE ~Read(e)
        <3>1. UNCHANGED <<received, cache>>
            BY <1>1, <2>2, Zenon DEF User, Write, WriteDone, Finish, PostFinish, EndFinish, ReleaseObj
        <3>2. finishing[e] => finishing'[e]
            BY <1>1, <2>2, Zenon DEF User, Write, WriteDone, Finish, PostFinish, EndFinish, ReleaseObj, TypeOK
        <3> QED
            BY <3>1, <3>2, Zenon DEF Seen
    <2> QED
        BY <2>1, <2>2, Zenon
<1>2. CASE Io(e) \/ TimerFires(e)
    <2>1. io[e] = "free"
        BY Zenon DEF Ending
    <2>2. UNCHANGED <<received, cache, finishing>>
        BY <1>2, <2>1, ZenonT(40) DEF Io, RunPosted, Written, WriteFails, ReadFrame, ReadFails, CheckPauseRead, ReadNext,
                          TimerFires
    <2> QED
        BY <2>2, Zenon DEF Seen
<1> QED
    BY <1>1, <1>2, Zenon

(* A step of the server.                                                    *)
LEMMA CompleteServer ==
    ASSUME TypeOK, NEW e \in End, e = "server", Ending(e), Linked(Peer(e)), Complete, OthersSame(Peer(e)),
           Io(e) \/ TimerFires(e) \/ User(e)
    PROVE  Complete'
<1> USE DEF ended, writeSide, readSide, calls, net
<1>0. Peer(e) = "client" /\ Peer("client") = e /\ "client" \in End
    BY Zenon DEF Peer, End
<1> SUFFICES ASSUME WriteDoneIsLast("client")
             PROVE  /\ status'[e] = write_done => success'[e]
                    /\ success'[e] =>
                          /\ status'[e] >= write_done
                          /\ ~finishing'[e] => NoWrites(script'["client"]) /\ Seen(e)' >= written'["client"]
    BY Zenon DEF Complete
<1>1. /\ status[e] = write_done => success[e]
      /\ success[e] =>
            /\ status[e] >= write_done
            /\ ~finishing[e] => NoWrites(script["client"]) /\ Seen(e) >= written["client"]
    BY Zenon DEF Complete
<1>2. script'["client"] = script["client"] /\ written'["client"] = written["client"]
    BY <1>0, Zenon DEF OthersSame
<1>3. status[e] \in none..failed /\ success[e] \in BOOLEAN
    BY Zenon DEF TypeOK
<1>4. ASSUME success[e]
      PROVE  ~finishing'[e] => NoWrites(script'["client"]) /\ Seen(e)' >= written'["client"]
    <2>1. status[e] # data
        BY <1>1, <1>3, <1>4 DEF data, write_done
    <2>2. Seen(e)' = Seen(e) /\ (finishing[e] => finishing'[e])
        BY <2>1, SeenStep, Zenon
    <2> QED
        BY <1>1, <1>2, <1>4, <2>2, Zenon
<1>5. CASE status'[e] = status[e] /\ success'[e] = success[e]
    BY <1>1, <1>4, <1>5, Zenon
<1>6. CASE status'[e] >= finish /\ status'[e] # write_done /\ (success'[e] => success[e])
    <2>1. status'[e] \in none..failed
        BY <1>6, IoTypes, UserTypes, Zenon DEF TypeOK
    <2>2. status'[e] >= write_done
        BY <1>6, <2>1 DEF finish, write_done, none, failed
    <2> QED
        BY <1>4, <1>6, <2>2, Zenon
<1>7. CASE ReadFrame(e) /\ status[e] = write_done /\ status'[e] = finish /\ success'[e] /\ io' = io
    <2>1. finish >= write_done /\ finish # write_done
        BY DEF finish, write_done
    <2> QED
        BY <1>1, <1>4, <1>7, <2>1, Zenon
<1>8. CASE /\ ReadFrame(e) /\ Head(wire[Peer(e)]).type = write_done
           /\ status'[e] = write_done /\ success'[e] /\ io' = io
    <2>0. write_done >= write_done /\ write_done # data
        BY DEF write_done, data
    <2>1. /\ UNCHANGED <<received, cache, finishing>> /\ io[e] = "free" /\ open[e] /\ ~Over(e)
          /\ wire[Peer(e)] # <<>>
        BY <1>8, Zenon DEF ReadFrame
    <2>2. ASSUME ~finishing[e]
          PROVE  NoWrites(script["client"]) /\ Seen(e) = written["client"]
        <3> DEFINE p == Peer(e)
        <3> DEFINE promise == WriteDoneIsLast(p)
        <3> DEFINE last == NoWrites(script[p])
        <3> DEFINE n == Taken(e)
        <3>1. Takes(Peer(p))
            BY <1>0, <2>1, <2>2, Zenon DEF Takes
        <3>2. /\ Chain(wire[p], write_cache[p], posted[p], open[p], valid[p], n, written[p], last, promise)
              /\ wire[p] \in Seq(Frame) /\ written[p] \in Nat
            BY <1>0, <3>1, LinkedBefore
        <3>3. wire[p] # <<>> /\ Head(wire[p]).type = write_done /\ Head(wire[p]).type # data
            BY <1>8, <2>0, <2>1, Zenon
        <3>4. n = Seen(e)
            BY <2>1, Zenon DEF Taken
        <3>5. promise
            BY <1>0, ZenonT(40)
        <3> HIDE DEF promise, last, n, p
        <3>6. /\ Chain(Tail(wire[p]), write_cache[p], posted[p], open[p], valid[p], n, written[p], last, promise)
              /\ promise /\ Head(wire[p]).type = write_done => last /\ n = written[p]
            BY <3>2, <3>3, ChainTakeOther
        <3>7. last /\ n = written[p]
            BY <3>3, <3>5, <3>6, Zenon
        <3> QED
            BY <1>0, <3>4, <3>7, Zenon DEF last, p
    <2>3. Seen(e)' = Seen(e) /\ Seen(e) \in Nat
        BY <2>1, SeenNat, Zenon DEF Seen
    <2>4. ~finishing[e] => Seen(e) >= written["client"]
        BY <2>2, <2>3
    <2> QED
        BY <1>2, <1>8, <2>0, <2>1, <2>2, <2>3, <2>4, Zenon
<1>9. CASE status[e] <= data /\ status'[e] = data /\ success'[e] = success[e]
    <2>1. ~success[e]
        BY <1>1, <1>3, <1>9 DEF data, write_done
    <2>2. data # write_done
        BY DEF data, write_done
    <2> QED
        BY <1>9, <2>1, <2>2, Zenon
<1> QED
    BY <1>5, <1>6, <1>7, <1>8, <1>9, ServerStatus, Zenon

(* A step of the client.                                                    *)
LEMMA CompleteClient ==
    ASSUME TypeOK, NEW e \in End, e = "client", Calling(e), Complete, OthersSame("server"),
           Io(e) \/ TimerFires(e) \/ User(e)
    PROVE  Complete'
<1> USE DEF ended, writeSide, readSide, calls, net
<1>1. NoWrites(script[e]) => NoWrites(script'[e]) /\ written'[e] = written[e]
    <2>1. CASE User(e)
        BY <2>1, UserCalls, UserPosts, Zenon
    <2>2. CASE Io(e) \/ TimerFires(e)
        BY <2>2, Zenon DEF Io, RunPosted, Written, WriteFails, ReadFrame, ReadFails, CheckPauseRead, ReadNext, TimerFires
    <2> QED
        BY <2>1, <2>2, Zenon
<1> QED
    BY <1>1, Zenon DEF Complete, OthersSame, Seen

-----------------------------------------------------------------------------
(* The invariant.                                                           *)

LEMMA InitInv == Init => Inv
<1> SUFFICES ASSUME Init
             PROVE  Inv
    BY Zenon
<1>0. TypeOK
    BY TypeInit, Zenon
<1>1. ASSUME NEW e \in End
      PROVE  Paused(e) /\ Ending(e) /\ Ordered(e) /\ Linked(e) /\ Calling(e)
    <2>0. Peer(e) \in End
        BY Peers, Zenon
    <2>1. /\ status[e] = none /\ valid[e] = TRUE /\ posted[e] = <<>> /\ write_cache[e] = <<>> /\ wire[e] = <<>>
          /\ writing[e] = FALSE /\ io[e] = "free" /\ cache[e] = <<>> /\ received[e] = <<>>
          /\ pausing[e] = FALSE /\ finishing[e] = FALSE /\ written[e] = 0 /\ open[e] = TRUE
          /\ written[Peer(e)] = 0 /\ io[Peer(e)] = "free" /\ cache[Peer(e)] = <<>> /\ received[Peer(e)] = <<>>
        BY <2>0, Zenon DEF Init
    <2>2. Paused(e)
        <3>1. ReadMax[e] \in Nat /\ Len(cache[e]) = 0
            BY <2>1, RpcStreamAssumption, Zenon
        <3> QED
            BY <2>1, <3>1 DEF Paused, Limit
    <2>3. Ending(e)
        BY <2>1 DEF Ending, Over, none, finish
    <2>4. Seen(e) = 0 /\ Seen(Peer(e)) = 0
        BY <2>1 DEF Seen
    <2>5. Ordered(e)
        BY <2>1, <2>4 DEF Ordered
    <2>6. Linked(e)
        <3>1. Taken(Peer(e)) = 0
            BY <2>1, <2>4, Zenon DEF Taken
        <3>2. \A last, promise : Chain(<<>>, <<>>, <<>>, TRUE, TRUE, 0, 0, last, promise)
            <4>1. Line(<<>>, 0, 0)
                BY LineEmpty, Zenon
            <4> QED
                BY <4>1, SealedEmpty DEF Chain
        <3> QED
            BY <2>1, <3>1, <3>2, Zenon DEF Linked
    <2>7. Calling(e)
        <3>1. script \in Scripts /\ script[e] \in Seq(Call)
            BY RpcStreamAssumption, Zenon DEF Init
        <3>2. \A i \in 1..Len(script[e]) : script[e][i] # "post"
            BY <3>1 DEF Call
        <3>3. WriteDoneIsLast(e) => DoneLast(script[e])
            BY <3>1, Zenon DEF WriteDoneIsLast, DoneLast
        <3> QED
            BY <3>2, <3>3, Zenon DEF Calling
    <2> QED
        BY <2>2, <2>3, <2>5, <2>6, <2>7, Zenon
<1>2. Complete
    <2>1. success["server"] = FALSE /\ status["server"] = none
        BY Zenon DEF Init, End
    <2> QED
        BY <2>1 DEF Complete, none, write_done
<1> QED
    BY <1>0, <1>1, <1>2, Zenon DEF Inv

(* A step of one end, seen from both.                                       *)
LEMMA EndStep ==
    ASSUME Inv, NEW e \in End, Io(e) \/ TimerFires(e) \/ User(e)
    PROVE  Inv'
<1> USE DEF ended, writeSide, readSide, calls, net
<1> DEFINE p == Peer(e)
<1>0. p \in End /\ p # e /\ Peer(p) = e /\ \A d \in End : d = e \/ d = p
    BY Peers, Zenon
<1>1. /\ TypeOK /\ Paused(e) /\ Ending(e) /\ Ordered(e) /\ Linked(e) /\ Calling(e)
      /\ Paused(p) /\ Ending(p) /\ Ordered(p) /\ Linked(p) /\ Calling(p) /\ Complete
    BY <1>0, Zenon DEF Inv
<1>2. OthersSame(p)
    BY <1>0, <1>1, OthersIo, OthersUser, Zenon
<1> HIDE DEF p
<1>3. TypeOK'
    BY <1>1, IoTypes, UserTypes, Zenon
<1>4. Paused(e)'
    BY <1>1, PausedStep, Zenon
<1>5. Paused(p)'
    BY <1>1, <1>2, PausedSame, Zenon DEF OthersSame
<1>6. Ending(e)'
    BY <1>1, EndingIo, EndingUser, Zenon
<1>7. Ending(p)'
    <2>1. open'[e] => open[e]
        <3>1. CASE User(e)
            BY <1>1, <3>1, UserPosts, Zenon
        <3>2. CASE RunPosted(e)
            <4>1. CASE Release(e)
                BY <1>1, <4>1, Zenon DEF Release, TypeOK
            <4>2. CASE UNCHANGED net
                BY <4>2, Zenon
            <4> QED
                BY <3>2, <4>1, <4>2, Zenon DEF RunPosted
        <3>3. CASE ~User(e) /\ ~RunPosted(e)
            <4>1. open' = open
                BY <3>3, Zenon DEF Io, Written, WriteFails, ReadFrame, ReadFails, CheckPauseRead, ReadNext, TimerFires
            <4> QED
                BY <4>1, Zenon
        <3> QED
            BY <3>1, <3>2, <3>3, Zenon
    <2> QED
        BY <1>0, <1>1, <1>2, <2>1, EndingSame, Zenon DEF OthersSame
<1>8. Ordered(e)'
    BY <1>1, <1>2, OrderedStep, Zenon DEF p
<1>9. Ordered(p)'
    BY <1>1, <1>2, OrderedOther, Zenon DEF p
<1>10. Linked(e)'
    <2>1. Takes(p) => LinkedNext(e)
        BY <1>1, LinkedIo, LinkedUser, Zenon DEF p
    <2> QED
        BY <1>2, <2>1, LinkedWriter, Zenon DEF p
<1>11. Linked(p)'
    BY <1>0, <1>1, <1>2, LinkedReader, Zenon DEF p
<1>12. Calling(e)'
    <2>1. CASE User(e)
        BY <1>1, <2>1, UserCalls, Zenon
    <2>2. CASE Io(e) \/ TimerFires(e)
        <3>1. UNCHANGED <<script, finishing>>
            BY <2>2, Zenon DEF Io, RunPosted, Written, WriteFails, ReadFrame, ReadFails, CheckPauseRead, ReadNext,
                        TimerFires
        <3> QED
            BY <1>1, <3>1, Zenon DEF Calling
    <2> QED
        BY <2>1, <2>2, Zenon
<1>13. Calling(p)'
    BY <1>1, <1>2, Zenon DEF Calling, OthersSame
<1>14. Complete'
    <2>1. CASE e = "server"
        BY <1>1, <1>2, <2>1, CompleteServer, Zenon DEF p
    <2>2. CASE e = "client"
        <3>1. p = "server"
            BY <2>2, Zenon DEF p, Peer
        <3> QED
            BY <1>1, <1>2, <2>2, <3>1, CompleteClient, Zenon
    <2> QED
        BY <2>1, <2>2, Zenon DEF End
<1>15. ASSUME NEW d \in End
       PROVE  (Paused(d) /\ Ending(d) /\ Ordered(d) /\ Linked(d) /\ Calling(d))'
    <2>1. CASE d = e
        BY <1>4, <1>6, <1>8, <1>10, <1>12, <2>1, Zenon
    <2>2. CASE d = p
        BY <1>5, <1>7, <1>9, <1>11, <1>13, <2>2, Zenon
    <2> QED
        BY <1>0, <2>1, <2>2, Zenon
<1> QED
    BY <1>3, <1>14, <1>15, Zenon DEF Inv

(* Losing the connection.                                                   *)
LEMMA BreakStep ==
    ASSUME Inv, Break
    PROVE  Inv'
<1> USE DEF ended, writeSide, readSide, calls, net
<1>0. TypeOK /\ TypeOK'
    BY BreakTypes, Zenon DEF Inv
<1>1. /\ UNCHANGED <<status, success, valid, posted, write_cache, writing, reading, io, current, cache, pausing>>
      /\ UNCHANGED <<script, written, received, finishing>>
      /\ open' = [e \in End |-> FALSE]
    BY Zenon DEF Break
<1>2. ASSUME NEW e \in End
      PROVE  (Paused(e) /\ Ending(e) /\ Ordered(e) /\ Linked(e) /\ Calling(e))'
    <2>0. Peer(e) \in End
        BY Peers, Zenon
    <2>1. Paused(e) /\ Ending(e) /\ Ordered(e) /\ Calling(e)
        BY Zenon DEF Inv
    <2>2. ~open'[e] /\ ~open'[Peer(e)]
        BY <1>1, <2>0, Zenon
    <2>3. Paused(e)'
        BY <1>1, <2>1, Zenon DEF Paused, Limit
    <2>4. Ending(e)'
        BY <1>1, <2>1, <2>2, Zenon DEF Ending, Over
    <2>5. Ordered(e)'
        BY <1>1, <2>1, Zenon DEF Ordered, Seen
    <2>6. Linked(e)'
        BY <2>2, Zenon DEF Linked, Takes
    <2>7. Calling(e)'
        BY <1>1, <2>1, Zenon DEF Calling
    <2> QED
        BY <2>3, <2>4, <2>5, <2>6, <2>7, Zenon
<1>3. Complete'
    BY <1>1, Zenon DEF Inv, Complete, Seen
<1> QED
    BY <1>0, <1>2, <1>3, Zenon DEF Inv

LEMMA InvStep == Inv /\ [Next]_vars => Inv'
<1> SUFFICES ASSUME Inv, [Next]_vars
             PROVE  Inv'
    BY Zenon
<1>1. CASE Next
    <2>1. ASSUME NEW e \in End, Io(e) \/ TimerFires(e) \/ User(e)
          PROVE  Inv'
        BY <2>1, EndStep, Zenon
    <2> QED
        BY <1>1, <2>1, BreakStep, Zenon DEF Next
<1>2. CASE UNCHANGED vars
    BY <1>2, ZenonT(30) DEF vars, ended, writeSide, readSide, calls, net, Inv, TypeOK, Paused, Ending, Ordered, Linked,
                Calling, Complete, Limit, Over, Seen, Taken, Takes
<1> QED
    BY <1>1, <1>2, Zenon

LEMMA Invariance == Spec => []Inv
<1> QED
    BY InitInv, InvStep, PTL DEF Spec

-----------------------------------------------------------------------------
(* What the stream promises.                                                *)

LEMMA SeenLength ==
    ASSUME TypeOK, NEW e \in End
    PROVE  /\ received[e] \o cache[e] \in Seq(Nat)
           /\ Len(received[e] \o cache[e]) = Seen(e)
           /\ \A i \in 1..Seen(e) : (received[e] \o cache[e])[i] =
                 IF i <= Len(received[e]) THEN received[e][i] ELSE cache[e][i - Len(received[e])]
<1>1. PICK r \in Seq(Nat) : r = received[e]
    BY SeenNat, Zenon
<1>2. PICK c \in Seq(Nat) : c = cache[e]
    BY SeenNat, Zenon
<1>3. r \o c \in Seq(Nat) /\ Len(r \o c) = Len(r) + Len(c)
    OBVIOUS
<1>4. \A i \in 1..(Len(r) + Len(c)) : (r \o c)[i] = IF i <= Len(r) THEN r[i] ELSE c[i - Len(r)]
    OBVIOUS
<1> QED
    BY <1>1, <1>2, <1>3, <1>4, Zenon DEF Seen

LEMMA InOrderHolds == Inv => InOrder
<1> SUFFICES ASSUME Inv, NEW e \in End
             PROVE  LET seen == received[e] \o cache[e]
                    IN seen = Upto(Len(seen)) /\ Len(seen) <= written[Peer(e)]
    BY Zenon DEF InOrder
<1>1. TypeOK /\ Ordered(e)
    BY Zenon DEF Inv
<1>2. PICK n \in Nat : n = Seen(e)
    BY <1>1, SeenNat, Zenon
<1>3. PICK s \in Seq(Nat) : s = received[e] \o cache[e]
    BY <1>1, SeenLength, Zenon
<1>4. Len(s) = n /\ n <= written[Peer(e)]
    BY <1>1, <1>2, <1>3, SeenLength, Zenon DEF Ordered
<1>5. \A i \in 1..n : s[i] = i
    <2>1. PICK k \in Nat : k = Len(received[e])
        BY <1>1, SeenNat, Zenon
    <2>2. PICK l \in Nat : l = Len(cache[e])
        BY <1>1, SeenNat, Zenon
    <2>3. n = k + l
        BY <1>2, <2>1, <2>2, Zenon DEF Seen
    <2>4. \A i \in 1..n : s[i] = IF i <= k THEN received[e][i] ELSE cache[e][i - k]
        BY <1>1, <1>2, <1>3, <2>1, SeenLength, Zenon
    <2>5. (\A i \in 1..k : received[e][i] = i) /\ (\A i \in 1..l : cache[e][i] = k + i)
        BY <1>1, <2>1, <2>2, Zenon DEF Ordered
    <2>6. ASSUME NEW i \in 1..n
          PROVE  s[i] = i
        <3>1. CASE i <= k
            BY <2>4, <2>5, <3>1
        <3>2. CASE ~(i <= k)
            <4>1. i - k \in 1..l /\ k + (i - k) = i
                BY <2>3, <3>2
            <4> QED
                BY <2>4, <2>5, <3>2, <4>1, Zenon
        <3> QED
            BY <3>1, <3>2, Zenon
    <2> QED
        BY <2>6, Zenon
<1>6. s = Upto(n)
    <2>1. DOMAIN s = 1..n /\ s = [i \in 1..n |-> s[i]]
        BY <1>4
    <2> QED
        BY <1>5, <2>1, Zenon DEF Upto
<1> QED
    BY <1>3, <1>4, <1>6, Zenon

(* The variables of the two ends keep their types, the number of messages   *)
(* and frames being unbounded.                                              *)
THEOREM StreamTypes == Spec => []TypeOK
<1>1. Inv => TypeOK
    BY Zenon DEF Inv
<1> QED
    BY <1>1, Invariance, PTL

(* Whatever the two users call, the scheduling of the io threads, and       *)
(* however the connection ends: what Read has returned and what is cached   *)
(* are the first messages that Write of the peer accepted, in their order,  *)
(* each once.                                                               *)
THEOREM MessagesInOrder == Spec => []InOrder
BY InOrderHolds, Invariance, PTL

(* check_pause_read bounds the cache of an end nobody reads, for every      *)
(* read_queue_max_size_, in every order of its pause, Read and the post     *)
(* that resumes.                                                            *)
THEOREM PauseBoundsCache == Spec => []CacheBounded
<1>1. Inv => CacheBounded
    BY Zenon DEF Inv, Paused, Limit, CacheBounded
<1> QED
    BY <1>1, Invariance, PTL

(* A server whose stream ended with rpc_success, its own Finish not called  *)
(* before, has all messages the client's Write accepted, when the client    *)
(* does not write after WriteDone.                                          *)
THEOREM SuccessMeansComplete == Spec => []SuccessIsComplete
<1>1. Inv => SuccessIsComplete
    <2> SUFFICES ASSUME Inv, success["server"], ~finishing["server"]
                 PROVE  Len(received["server"] \o cache["server"]) >= written["client"]
        BY Zenon DEF SuccessIsComplete
    <2>1. TypeOK /\ Seen("server") >= written["client"] /\ "server" \in End
        BY ClientContract, Zenon DEF Inv, Complete, End
    <2>2. Len(received["server"] \o cache["server"]) = Seen("server")
        BY <2>1, SeenLength, Zenon
    <2> QED
        BY <2>1, <2>2, Zenon
<1> QED
    BY <1>1, Invariance, PTL

=============================================================================
