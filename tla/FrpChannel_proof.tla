-------------------------- MODULE FrpChannel_proof --------------------------
(***************************************************************************)
(* What the write queue of a channel's socket guarantees, for any number of *)
(* packets; then what an upgrade of the two ends does, for any number of    *)
(* attempts, rounds and messages under way.                                 *)
(***************************************************************************)
EXTENDS SerializedWriter, FrpChannel, TLAPS

(* The write queue of a channel's socket: one write in flight, packets in   *)
(* order, for any number of packets.                                        *)

Handler == ({"push", "done", "failed"} \X (1..MaxPush)) \cup {<<"close", 0>>}

(* The completions that wait for the io thread.                             *)
Ends == {i \in 1..Len(handlers) : handlers[i][1] \in {"done", "failed"}}
WriteDone == \E i \in 1..Len(handlers) : handlers[i][1] = "done"

(* The packets that have left the queue, and those do_push has handled: a   *)
(* packet that was written stays at the front until its completion runs.    *)
Base == IF WriteDone THEN Len(wire) - 1 ELSE Len(wire)
Handled == Base + Len(queue_)

(* The pushes under way are those after Handled, each once and in order.    *)
PushesInOrder ==
    /\ Handled <= pushed
    /\ \A i \in 1..Len(handlers) :
          handlers[i][1] = "push" => handlers[i][2] \in (Handled + 1)..pushed
    /\ \A n \in (Handled + 1)..pushed : \E i \in 1..Len(handlers) : handlers[i] = <<"push", n>>
    /\ \A i, j \in 1..Len(handlers) :
          handlers[i][1] = "push" /\ handlers[j][1] = "push" /\ i < j => handlers[i][2] < handlers[j][2]

(* While the socket is open a write is in flight, or its completion waits,  *)
(* or the queue is empty; never two of them.                                *)
WriteCycle ==
    /\ \A i, j \in Ends : i = j
    /\ inFlight # {} => Ends = {} /\ queue_ # <<>>
    /\ Ends # {} => queue_ # <<>>
    /\ inFlight = {} /\ Ends = {} => queue_ = <<>>
    /\ writing_ <=> queue_ # <<>>

(* The strengthening that is inductive: once the socket is closed nothing   *)
(* more is handed to it, so that what matters is the time before.           *)
WriterInv ==
    /\ WriterTypeOK
    /\ handlers \in Seq(Handler)
    /\ cleared = ~open
    /\ \A i \in 1..Len(wire) : wire[i] = i
    /\ inFlight # {} => inFlight = {Len(wire) + 1}
    /\ open => /\ PushesInOrder
               /\ WriteCycle
               /\ Base \in Nat
               /\ \A i \in 1..Len(queue_) : queue_[i] = Base + i

LEMMA WriterInitInv == WriterInit => WriterInv
<1> SUFFICES ASSUME WriterInit PROVE WriterInv
    OBVIOUS
<1>0. handlers \in Seq(Handler) /\ queue_ \in Seq(1..MaxPush) /\ wire \in Seq(1..MaxPush)
    BY DEF WriterInit
<1>a. pushed \in 0..MaxPush /\ popped \in {"ok", "empty"} /\ inFlight \subseteq 1..MaxPush
    BY SerializedWriterAssumption DEF WriterInit
<1>b. writing_ = FALSE /\ open = TRUE /\ cleared = FALSE
    BY DEF WriterInit
<1>1. WriterTypeOK
    BY <1>0, <1>a, <1>b, Zenon DEF WriterTypeOK
<1>2. Len(handlers) = 0 /\ Len(wire) = 0 /\ Len(queue_) = 0 /\ pushed = 0
    BY DEF WriterInit
<1>3. Ends = {} /\ ~WriteDone
    BY <1>2 DEF Ends, WriteDone
<1>4. Base = 0 /\ Handled = 0
    BY <1>2, <1>3 DEF Base, Handled
<1>5. PushesInOrder
    BY <1>2, <1>4 DEF PushesInOrder
<1>6. WriteCycle
    BY <1>3 DEF WriteCycle, WriterInit
<1>8. (\A i \in 1..Len(wire) : wire[i] = i) /\ (\A i \in 1..Len(queue_) : queue_[i] = Base + i)
    BY <1>2
<1> QED
    BY <1>0, <1>1, <1>4, <1>5, <1>6, <1>8, Zenon DEF WriterInv, WriterInit

(* What is appended behind the handlers leaves the others where they are.   *)
LEMMA AppendFacts ==
    ASSUME NEW h \in Handler, handlers \in Seq(Handler), handlers' = Append(handlers, h)
    PROVE  /\ handlers' \in Seq(Handler) /\ Len(handlers') = Len(handlers) + 1 /\ Len(handlers) \in Nat
           /\ \A i \in 1..Len(handlers) : handlers'[i] = handlers[i]
           /\ handlers'[Len(handlers) + 1] = h
           /\ h[1] \notin {"done", "failed"} => Ends' = Ends /\ WriteDone' = WriteDone
<1>1. /\ handlers' \in Seq(Handler) /\ Len(handlers') = Len(handlers) + 1 /\ Len(handlers) \in Nat
      /\ \A i \in 1..Len(handlers) : handlers'[i] = handlers[i]
      /\ handlers'[Len(handlers) + 1] = h
    OBVIOUS
<1>2. ASSUME h[1] \notin {"done", "failed"} PROVE Ends' = Ends /\ WriteDone' = WriteDone
    <2>1. \A i \in 1..Len(handlers') : i \in 1..Len(handlers) \/ i = Len(handlers) + 1
        BY <1>1
    <2>2. \A i \in 1..Len(handlers) : i \in 1..Len(handlers')
        BY <1>1
    <2> QED BY <1>1, <1>2, <2>1, <2>2 DEF Ends, WriteDone
<1> QED BY <1>1, <1>2

(* push(): the new packet is the last of those under way.                   *)
LEMMA PushStep == ASSUME WriterInv, Push PROVE WriterInv'
<1>1. /\ pushed \in Nat /\ pushed' \in 0..MaxPush /\ pushed' = pushed + 1
      /\ handlers' = Append(handlers, <<"push", pushed + 1>>)
      /\ UNCHANGED <<queue_, writing_, inFlight, wire, open, cleared, popped>>
    BY SerializedWriterAssumption DEF Push, WriterInv, WriterTypeOK
<1>2. handlers \in Seq(Handler) /\ <<"push", pushed + 1>> \in Handler
    BY <1>1, SerializedWriterAssumption DEF WriterInv, Handler
<1>3. /\ handlers' \in Seq(Handler) /\ Len(handlers') = Len(handlers) + 1 /\ Len(handlers) \in Nat
      /\ \A i \in 1..Len(handlers) : handlers'[i] = handlers[i]
      /\ handlers'[Len(handlers) + 1] = <<"push", pushed + 1>>
      /\ Ends' = Ends /\ WriteDone' = WriteDone
    BY <1>1, <1>2, AppendFacts
<1>5. Base' = Base /\ Handled' = Handled
    BY <1>1, <1>3 DEF Base, Handled
<1>6. ASSUME open PROVE PushesInOrder'
    <2>0. Handled \in Nat /\ PushesInOrder
        BY <1>6 DEF Handled, WriterInv, WriterTypeOK
    <2>1. Handled <= pushed'
        BY <1>1, <2>0 DEF PushesInOrder
    <2>a. \A i \in 1..Len(handlers') : i \in 1..Len(handlers) \/ i = Len(handlers) + 1
        BY <1>3
    <2>b. \A i \in 1..Len(handlers) : i \in 1..Len(handlers')
        BY <1>3
    <2>2. ASSUME NEW i \in 1..Len(handlers'), handlers'[i][1] = "push"
          PROVE  handlers'[i][2] \in (Handled + 1)..pushed'
        <3>1. CASE i \in 1..Len(handlers)
            <4>1. handlers[i][2] \in (Handled + 1)..pushed
                BY <1>3, <2>0, <2>2, <3>1 DEF PushesInOrder
            <4> QED BY <1>1, <1>3, <2>0, <3>1, <4>1
        <3>2. CASE i = Len(handlers) + 1
            BY <1>1, <1>3, <2>0, <2>1, <3>2 DEF PushesInOrder
        <3> QED BY <2>a, <3>1, <3>2
    <2>3. ASSUME NEW n \in (Handled + 1)..pushed'
          PROVE  \E i \in 1..Len(handlers') : handlers'[i] = <<"push", n>>
        <3>1. CASE n = pushed + 1
            BY <1>3, <3>1
        <3>2. CASE n # pushed + 1
            <4>1. n \in (Handled + 1)..pushed
                BY <1>1, <2>0, <3>2
            <4>2. PICK i \in 1..Len(handlers) : handlers[i] = <<"push", n>>
                BY <2>0, <4>1, Zenon DEF PushesInOrder
            <4> QED BY <1>3, <2>b, <4>2
        <3> QED BY <3>1, <3>2
    <2>4. ASSUME NEW i \in 1..Len(handlers'), NEW j \in 1..Len(handlers'),
                 handlers'[i][1] = "push", handlers'[j][1] = "push", i < j
          PROVE  handlers'[i][2] < handlers'[j][2]
        <3>0. i \in 1..Len(handlers) /\ handlers'[i] = handlers[i]
            BY <1>3, <2>4
        <3>1. CASE j = Len(handlers) + 1
            <4>2. handlers[i][2] \in (Handled + 1)..pushed
                BY <2>0, <2>4, <3>0 DEF PushesInOrder
            <4> QED BY <1>1, <1>3, <2>0, <3>0, <3>1, <4>2
        <3>2. CASE j \in 1..Len(handlers)
            BY <1>3, <2>0, <2>4, <3>0, <3>2, SMTT(40) DEF PushesInOrder
        <3> QED BY <2>a, <3>1, <3>2
    <2> QED BY <1>5, <2>1, <2>2, <2>3, <2>4, Zenon DEF PushesInOrder
<1>7. WriteCycle <=> WriteCycle'
    BY <1>1, <1>3 DEF WriteCycle
<1>8. WriterTypeOK'
    BY <1>1 DEF WriterInv, WriterTypeOK
<1> QED
    BY <1>1, <1>3, <1>5, <1>6, <1>7, <1>8 DEF WriterInv

(* release_obj posts a handler that is neither a push nor a completion.     *)
LEMMA ReleaseStep == ASSUME WriterInv, ReleaseObj PROVE WriterInv'
<1>1. /\ handlers' = Append(handlers, <<"close", 0>>)
      /\ UNCHANGED <<queue_, writing_, inFlight, wire, pushed, open, cleared, popped>>
    BY DEF ReleaseObj
<1>2. handlers \in Seq(Handler) /\ <<"close", 0>> \in Handler
    BY SerializedWriterAssumption DEF WriterInv, Handler
<1>3. /\ handlers' \in Seq(Handler) /\ Len(handlers') = Len(handlers) + 1 /\ Len(handlers) \in Nat
      /\ \A i \in 1..Len(handlers) : handlers'[i] = handlers[i]
      /\ handlers'[Len(handlers) + 1] = <<"close", 0>>
      /\ Ends' = Ends /\ WriteDone' = WriteDone
    BY <1>1, <1>2, AppendFacts
<1>4. /\ \A i \in 1..Len(handlers') : handlers'[i][1] = "push" => i \in 1..Len(handlers)
      /\ \A i \in 1..Len(handlers) : i \in 1..Len(handlers')
    BY <1>3
<1>5. Base' = Base /\ Handled' = Handled
    BY <1>1, <1>3 DEF Base, Handled
<1>6. ASSUME PushesInOrder PROVE PushesInOrder'
    <2>1. Handled' <= pushed'
        BY <1>1, <1>5, <1>6 DEF PushesInOrder
    <2>2. \A i \in 1..Len(handlers') : handlers'[i][1] = "push" => handlers'[i][2] \in (Handled + 1)..pushed
        BY <1>3, <1>4, <1>6 DEF PushesInOrder
    <2>3. \A n \in (Handled + 1)..pushed : \E i \in 1..Len(handlers') : handlers'[i] = <<"push", n>>
        BY <1>3, <1>4, <1>6, Zenon DEF PushesInOrder
    <2>4. \A i, j \in 1..Len(handlers') :
              handlers'[i][1] = "push" /\ handlers'[j][1] = "push" /\ i < j => handlers'[i][2] < handlers'[j][2]
        BY <1>3, <1>4, <1>6 DEF PushesInOrder
    <2> QED BY <1>1, <1>5, <2>1, <2>2, <2>3, <2>4, Zenon DEF PushesInOrder
<1>7. WriteCycle <=> WriteCycle'
    BY <1>1, <1>3 DEF WriteCycle
<1>8. WriterTypeOK'
    BY <1>1 DEF WriterInv, WriterTypeOK
<1> QED
    BY <1>1, <1>3, <1>5, <1>6, <1>7, <1>8, SMTT(40) DEF WriterInv, Handler

(* The socket takes or refuses the one packet that is in flight.            *)
LEMMA SocketStep == ASSUME WriterInv, NEW m \in 1..MaxPush, SocketWrites(m) PROVE WriterInv'
<1>1. /\ inFlight = {m} /\ m = Len(wire) + 1 /\ inFlight' = {}
      /\ UNCHANGED <<queue_, writing_, pushed, open, cleared, popped>>
    BY DEF WriterInv, SocketWrites
<1>2. /\ handlers \in Seq(Handler) /\ wire \in Seq(1..MaxPush) /\ Len(wire) \in Nat
      /\ <<"done", m>> \in Handler /\ <<"failed", m>> \in Handler
    BY SerializedWriterAssumption DEF WriterInv, WriterTypeOK, Handler
<1>3. PICK k \in {"done", "failed"} :
          /\ handlers' = Append(handlers, <<k, m>>)
          /\ k = "done" => open /\ wire' = Append(wire, m)
          /\ k = "failed" => wire' = wire
    BY DEF SocketWrites
<1>4. /\ handlers' \in Seq(Handler) /\ Len(handlers') = Len(handlers) + 1 /\ Len(handlers) \in Nat
      /\ \A i \in 1..Len(handlers) : handlers'[i] = handlers[i]
      /\ handlers'[Len(handlers) + 1] = <<k, m>>
    BY <1>2, <1>3, AppendFacts, Zenon
<1>5. /\ wire' \in Seq(1..MaxPush) /\ \A i \in 1..Len(wire') : wire'[i] = i
      /\ k = "done" => Len(wire') = Len(wire) + 1
    <2>1. \A i \in 1..Len(wire) : wire[i] = i
        BY DEF WriterInv
    <2>2. CASE k = "done"
        <3>1. wire' = Append(wire, m)
            BY <1>3, <2>2
        <3>2. /\ wire' \in Seq(1..MaxPush) /\ Len(wire') = Len(wire) + 1
              /\ \A i \in 1..Len(wire) : wire'[i] = wire[i]
              /\ wire'[Len(wire) + 1] = m
            BY <1>2, <3>1
        <3>3. \A i \in 1..Len(wire') : i \in 1..Len(wire) \/ i = Len(wire) + 1
            BY <1>2, <3>2
        <3>4. \A i \in 1..Len(wire') : wire'[i] = i
            BY <1>1, <2>1, <3>2, <3>3
        <3> QED BY <3>2, <3>4
    <2>3. CASE k = "failed"
        BY <1>2, <1>3, <2>1, <2>3
    <2> QED BY <2>2, <2>3
<1>6. WriterTypeOK'
    BY <1>1, <1>5 DEF WriterInv, WriterTypeOK
<1>7. ASSUME open PROVE PushesInOrder' /\ WriteCycle' /\ Base' \in Nat /\ \A i \in 1..Len(queue_') : queue_'[i] = Base' + i
    <2>1. /\ Ends = {} /\ queue_ # <<>> /\ writing_ /\ PushesInOrder /\ Base \in Nat
          /\ \A i \in 1..Len(queue_) : queue_[i] = Base + i
        BY <1>1, <1>7 DEF WriterInv, WriteCycle
    <2>2. /\ \A i \in 1..Len(handlers') : handlers'[i][1] = "push" => i \in 1..Len(handlers)
          /\ \A i \in 1..Len(handlers) : i \in 1..Len(handlers')
        BY <1>4
    <2>3. Ends' = {Len(handlers) + 1}
        BY <1>4, <2>1 DEF Ends
    <2>4. ~WriteDone /\ (WriteDone' <=> k = "done")
        <3>1. \A i \in 1..Len(handlers) : handlers[i][1] # "done" /\ handlers'[i][1] # "done"
            BY <1>4, <2>1 DEF Ends
        <3>2. ~WriteDone
            BY <3>1 DEF WriteDone
        <3>3. \A i \in 1..Len(handlers') : i \in 1..Len(handlers) \/ i = Len(handlers) + 1
            BY <1>4
        <3>4. handlers'[Len(handlers) + 1][1] = k /\ Len(handlers) + 1 \in 1..Len(handlers')
            BY <1>4
        <3>5. WriteDone' <=> k = "done"
            BY <3>1, <3>3, <3>4 DEF WriteDone
        <3> QED BY <3>2, <3>5
    <2>5. Base' = Base
        BY <1>2, <1>3, <1>5, <2>4 DEF Base
    <2>6. Handled' = Handled
        BY <1>1, <2>5 DEF Handled
    <2>7. PushesInOrder'
        <3>1. Handled' <= pushed'
            BY <1>1, <2>1, <2>6 DEF PushesInOrder
        <3>2. \A i \in 1..Len(handlers') : handlers'[i][1] = "push" => handlers'[i][2] \in (Handled + 1)..pushed
            BY <1>4, <2>1, <2>2 DEF PushesInOrder
        <3>3. \A n \in (Handled + 1)..pushed : \E i \in 1..Len(handlers') : handlers'[i] = <<"push", n>>
            BY <1>4, <2>1, <2>2, Zenon DEF PushesInOrder
        <3>4. \A i, j \in 1..Len(handlers') :
                 handlers'[i][1] = "push" /\ handlers'[j][1] = "push" /\ i < j => handlers'[i][2] < handlers'[j][2]
            BY <1>4, <2>1, <2>2, SMTT(40) DEF PushesInOrder
        <3> QED BY <1>1, <2>6, <3>1, <3>2, <3>3, <3>4, Zenon DEF PushesInOrder
    <2>8. WriteCycle'
        BY <1>1, <2>1, <2>3 DEF WriteCycle
    <2> QED BY <1>1, <2>1, <2>5, <2>7, <2>8
<1> QED
    BY <1>1, <1>4, <1>5, <1>6, <1>7 DEF WriterInv

(* What is left when the oldest handler has been taken to run.              *)
LEMMA TailFacts ==
    ASSUME handlers \in Seq(Handler), handlers # <<>>, handlers' = Tail(handlers)
    PROVE  /\ handlers' \in Seq(Handler) /\ Len(handlers) \in Nat \ {0} /\ Len(handlers') = Len(handlers) - 1
           /\ \A i \in 1..Len(handlers') : i + 1 \in 1..Len(handlers) /\ handlers'[i] = handlers[i + 1]
           /\ \A i \in 1..Len(handlers) : i # 1 => (i - 1 \in 1..Len(handlers') /\ handlers[i] = handlers'[i - 1])
           /\ Head(handlers) = handlers[1] /\ Head(handlers) \in Handler /\ 1 \in 1..Len(handlers)
<1>1. /\ handlers' \in Seq(Handler) /\ Len(handlers) \in Nat \ {0} /\ Len(handlers') = Len(handlers) - 1
      /\ \A i \in 1..Len(handlers') : handlers'[i] = handlers[i + 1]
      /\ Head(handlers) = handlers[1] /\ Head(handlers) \in Handler
    OBVIOUS
<1>2. \A i \in 1..Len(handlers) : i # 1 => i - 1 \in 1..Len(handlers')
    BY <1>1
<1>3. \A i \in 1..Len(handlers) : i # 1 => handlers[i] = handlers'[i - 1]
    BY <1>1, <1>2
<1> QED BY <1>1, <1>2, <1>3

(* After the close a handler changes the queue only, and writes nothing.    *)
LEMMA ClosedStep == ASSUME WriterInv, RunHandler, ~open PROVE WriterInv'
<1>1. /\ handlers # <<>> /\ handlers \in Seq(Handler) /\ handlers' = Tail(handlers)
      /\ cleared = TRUE /\ open = FALSE /\ UNCHANGED <<wire, pushed>>
    BY Zenon DEF WriterInv, RunHandler, WriterTypeOK
<1>2. handlers' \in Seq(Handler) /\ Head(handlers) \in Handler
    BY <1>1, TailFacts
<1>3. /\ queue_ \in Seq(1..MaxPush) /\ writing_ \in BOOLEAN /\ (writing_ => queue_ # <<>>)
      /\ inFlight \subseteq 1..MaxPush /\ wire \in Seq(1..MaxPush) /\ pushed \in 0..MaxPush
      /\ popped \in {"ok", "empty"} /\ (\A i \in 1..Len(wire) : wire[i] = i)
      /\ (inFlight # {} => inFlight = {Len(wire) + 1})
    BY DEF WriterInv, WriterTypeOK
<1>4. open' = FALSE /\ cleared' = TRUE /\ inFlight' = inFlight /\ popped' \in {"ok", "empty"}
    BY <1>1, <1>3, Zenon DEF RunHandler, DoPush, Completed, Failed, CloseOwner, DoWrite
<1>5. queue_' \in Seq(1..MaxPush) /\ writing_' \in BOOLEAN /\ (writing_' => queue_' # <<>>)
    <2>1. CASE Head(handlers)[1] = "push" /\ DoPush(Head(handlers)[2])
        <3>1. Head(handlers)[2] \in 1..MaxPush
            BY <1>2, <2>1 DEF Handler
        <3>2. /\ Append(queue_, Head(handlers)[2]) \in Seq(1..MaxPush)
              /\ Append(queue_, Head(handlers)[2]) # <<>>
            BY <1>3, <3>1
        <3>3. /\ queue_' = Append(queue_, Head(handlers)[2])
              /\ writing_' = writing_ \/ writing_' = FALSE
            BY <1>1, <2>1, Zenon DEF DoPush, DoWrite
        <3> QED BY <1>3, <3>2, <3>3, Zenon
    <2>2. CASE Completed
        <3>1. queue_ # <<>> => Tail(queue_) \in Seq(1..MaxPush)
            BY <1>3
        <3> QED BY <1>1, <1>3, <2>2, <3>1, Zenon DEF Completed, DoWrite
    <2>3. CASE Failed
        BY <1>1, <1>3, <2>3, Zenon DEF Failed
    <2>4. CASE CloseOwner
        BY <1>1, <1>3, <2>4 DEF CloseOwner
    <2> QED BY <2>1, <2>2, <2>3, <2>4 DEF RunHandler
<1>6. WriterTypeOK'
    BY <1>1, <1>3, <1>4, <1>5, Zenon DEF WriterTypeOK
<1> QED
    BY <1>1, <1>2, <1>3, <1>4, <1>6, Zenon DEF WriterInv

(* The close itself: the queue is dropped and nothing new is written.       *)
LEMMA ClosingStep == ASSUME WriterInv, RunHandler, open, CloseOwner PROVE WriterInv'
<1>1. /\ handlers # <<>> /\ handlers \in Seq(Handler) /\ handlers' = Tail(handlers)
      /\ cleared = FALSE /\ UNCHANGED <<wire, pushed>>
    BY Zenon DEF WriterInv, RunHandler, WriterTypeOK
<1>2. handlers' \in Seq(Handler)
    BY <1>1, TailFacts
<1>3. /\ open' = FALSE /\ cleared' = TRUE /\ queue_' = <<>> /\ writing_' = FALSE
      /\ UNCHANGED <<inFlight, popped>>
    BY <1>1 DEF CloseOwner
<1>4. WriterTypeOK'
    <2>1. /\ inFlight \subseteq 1..MaxPush /\ wire \in Seq(1..MaxPush) /\ pushed \in 0..MaxPush
          /\ popped \in {"ok", "empty"} /\ <<>> \in Seq(1..MaxPush)
        BY DEF WriterInv, WriterTypeOK
    <2> QED BY <1>1, <1>3, <2>1, Zenon DEF WriterTypeOK
<1> QED
    BY <1>1, <1>2, <1>3, <1>4, Zenon DEF WriterInv

(* do_push while the socket is open: the packet is the next one, and it is  *)
(* written at once only when nothing is in flight.                          *)
LEMMA PushHandled ==
    ASSUME WriterInv, RunHandler, open, Head(handlers)[1] = "push", DoPush(Head(handlers)[2])
    PROVE  WriterInv'
<1> DEFINE m == Head(handlers)[2]
<1>1. /\ handlers # <<>> /\ handlers \in Seq(Handler) /\ handlers' = Tail(handlers)
      /\ UNCHANGED <<wire, pushed, open, cleared, popped>>
    BY DEF WriterInv, RunHandler, DoPush
<1>2. /\ handlers' \in Seq(Handler) /\ Len(handlers) \in Nat \ {0} /\ Len(handlers') = Len(handlers) - 1
      /\ \A i \in 1..Len(handlers') : i + 1 \in 1..Len(handlers) /\ handlers'[i] = handlers[i + 1]
      /\ \A i \in 1..Len(handlers) : i # 1 => (i - 1 \in 1..Len(handlers') /\ handlers[i] = handlers'[i - 1])
      /\ Head(handlers) = handlers[1] /\ Head(handlers) \in Handler /\ 1 \in 1..Len(handlers)
    BY <1>1, TailFacts
<1>3. m \in 1..MaxPush
    BY <1>2 DEF Handler
<1>4. /\ queue_ \in Seq(1..MaxPush) /\ wire \in Seq(1..MaxPush) /\ pushed \in Nat
      /\ PushesInOrder /\ WriteCycle /\ Base \in Nat /\ (\A i \in 1..Len(queue_) : queue_[i] = Base + i)
      /\ (inFlight # {} => inFlight = {Len(wire) + 1}) /\ inFlight \subseteq 1..MaxPush
    BY SerializedWriterAssumption DEF WriterInv, WriterTypeOK
<1>5. Len(queue_) \in Nat /\ Handled \in Nat /\ Handled = Base + Len(queue_)
    BY <1>4 DEF Handled
<1>6. m = Handled + 1
    <2>1. m \in (Handled + 1)..pushed
        BY <1>2, <1>4 DEF PushesInOrder
    <2>a. Handled + 1 \in (Handled + 1)..pushed
        BY <1>4, <1>5, <2>1
    <2>2. PICK i \in 1..Len(handlers) : handlers[i] = <<"push", Handled + 1>>
        BY <1>4, <2>a, Zenon DEF PushesInOrder
    <2>3. i # 1 => m < Handled + 1
        BY <1>2, <1>4, <2>2, SMTT(40) DEF PushesInOrder
    <2> QED BY <1>2, <1>4, <1>5, <2>1, <2>2, <2>3
<1>7. /\ queue_' = Append(queue_, m) /\ queue_' \in Seq(1..MaxPush) /\ Len(queue_') = Len(queue_) + 1
      /\ (\A i \in 1..Len(queue_) : queue_'[i] = queue_[i]) /\ queue_'[Len(queue_) + 1] = m
      /\ queue_' # <<>>
    <2>1. queue_' = Append(queue_, m)
        BY DEF DoPush, DoWrite
    <2> QED BY <1>3, <1>4, <2>1
<1>8. 1 \notin Ends /\ (Ends' = {} <=> Ends = {}) /\ (\A i, j \in Ends' : i = j)
    <2>1. 1 \notin Ends
        BY <1>2 DEF Ends
    <2>2. \A i \in Ends' : i \in Nat /\ i + 1 \in Ends
        BY <1>2 DEF Ends
    <2>3. \A i \in Ends : i - 1 \in Ends'
        BY <1>2, <2>1 DEF Ends
    <2>4. \A i, j \in Ends' : i = j
        BY <1>4, <2>2 DEF WriteCycle
    <2> QED BY <2>1, <2>2, <2>3, <2>4
<1>9. WriteDone' <=> WriteDone
    BY <1>2 DEF WriteDone
<1>10. Base' = Base
    BY <1>1, <1>9 DEF Base
<1>11. Handled' = Handled + 1
    <2>1. Handled' = Base + (Len(queue_) + 1)
        BY <1>7, <1>10 DEF Handled
    <2>2. Base \in Nat /\ Len(queue_) \in Nat
        BY <1>4, <1>5
    <2> QED BY <1>5, <2>1, <2>2
<1>12. PushesInOrder'
    <2>1. m \in (Handled + 1)..pushed
        BY <1>2, <1>4 DEF PushesInOrder
    <2>2. \A i \in 1..Len(handlers') : handlers'[i][1] = "push" => handlers'[i][2] \in (Handled + 2)..pushed
        <3> SUFFICES ASSUME NEW i \in 1..Len(handlers'), handlers'[i][1] = "push"
                     PROVE  handlers'[i][2] \in (Handled + 2)..pushed
            OBVIOUS
        <3>1. handlers'[i] = handlers[i + 1] /\ i + 1 \in 1..Len(handlers) /\ 1 < i + 1
            BY <1>2
        <3>2. handlers[i + 1][2] \in (Handled + 1)..pushed /\ m < handlers[i + 1][2]
            BY <1>2, <1>4, <3>1, Zenon DEF PushesInOrder
        <3>3. pushed \in Nat /\ Handled \in Nat
            BY <1>4, <1>5
        <3> DEFINE n == handlers[i + 1][2]
        <3>4. n \in (Handled + 1)..pushed /\ Handled + 1 < n
            BY <1>6, <3>2
        <3> HIDE DEF n
        <3>5. n \in (Handled + 2)..pushed
            BY <3>3, <3>4
        <3> QED BY <3>1, <3>5 DEF n
    <2>3. \A n \in (Handled + 2)..pushed : \E i \in 1..Len(handlers') : handlers'[i] = <<"push", n>>
        <3> SUFFICES ASSUME NEW n \in (Handled + 2)..pushed
                     PROVE  \E i \in 1..Len(handlers') : handlers'[i] = <<"push", n>>
            BY Zenon
        <3>1. n \in (Handled + 1)..pushed /\ n # m
            BY <1>4, <1>5, <1>6
        <3>2. PICK i \in 1..Len(handlers) : handlers[i] = <<"push", n>>
            BY <1>4, <3>1, Zenon DEF PushesInOrder
        <3>3. i # 1
            BY <1>2, <3>1, <3>2
        <3> QED BY <1>2, <3>2, <3>3, Zenon
    <2>4. \A i, j \in 1..Len(handlers') :
             handlers'[i][1] = "push" /\ handlers'[j][1] = "push" /\ i < j => handlers'[i][2] < handlers'[j][2]
        <3> SUFFICES ASSUME NEW i \in 1..Len(handlers'), NEW j \in 1..Len(handlers'), i < j,
                            handlers'[i][1] = "push", handlers'[j][1] = "push"
                     PROVE  handlers'[i][2] < handlers'[j][2]
            OBVIOUS
        <3>1. /\ handlers'[i] = handlers[i + 1] /\ i + 1 \in 1..Len(handlers)
              /\ handlers'[j] = handlers[j + 1] /\ j + 1 \in 1..Len(handlers)
            BY <1>2
        <3>2. i + 1 < j + 1
            OBVIOUS
        <3> QED BY <1>4, <3>1, <3>2, Zenon DEF PushesInOrder
    <2>5. Handled + 1 <= pushed /\ (Handled + 1) + 1 = Handled + 2
        BY <1>4, <1>5, <2>1
    <2> QED BY <1>1, <1>11, <2>2, <2>3, <2>4, <2>5, Zenon DEF PushesInOrder
<1>13. WriteCycle' /\ (inFlight' # {} => inFlight' = {Len(wire) + 1}) /\ inFlight' \subseteq 1..MaxPush
       /\ writing_' = TRUE
    <2>1. CASE writing_
        <3>1. UNCHANGED <<writing_, inFlight>> /\ queue_ # <<>>
            BY <1>4, <2>1 DEF DoPush, WriteCycle
        <3>2. writing_' = TRUE
            BY <2>1, <3>1 DEF WriterInv, WriterTypeOK
        <3> QED BY <1>4, <1>7, <1>8, <3>1, <3>2 DEF WriteCycle
    <2>2. CASE ~writing_
        <3>1. queue_ = <<>> /\ inFlight = {} /\ Ends = {}
            BY <1>4, <2>2 DEF WriteCycle
        <3>2. ~WriteDone
            BY <3>1 DEF WriteDone, Ends
        <3>3. m = Len(wire) + 1
            BY <1>4, <1>5, <1>6, <3>1, <3>2 DEF Base
        <3>4. Head(Append(queue_, m)) = m /\ Append(queue_, m) # <<>>
            BY <1>3, <1>4, <3>1
        <3>5. inFlight' = {m} /\ writing_' = TRUE
            BY <2>2, <3>1, <3>4, Zenon DEF DoPush, DoWrite
        <3> QED BY <1>3, <1>7, <1>8, <3>1, <3>3, <3>5 DEF WriteCycle
    <2> QED BY <2>1, <2>2, Zenon
<1>14. \A i \in 1..Len(queue_') : queue_'[i] = Base' + i
    <2>1. m = Base + (Len(queue_) + 1)
        BY <1>4, <1>5, <1>6
    <2>2. \A i \in 1..Len(queue_') : i \in 1..Len(queue_) \/ i = Len(queue_) + 1
        BY <1>5, <1>7
    <2> QED BY <1>4, <1>7, <1>10, <2>1, <2>2, Zenon
<1>15. WriterTypeOK'
    <2>1. wire \in Seq(1..MaxPush) /\ pushed \in 0..MaxPush /\ popped \in {"ok", "empty"}
          /\ open \in BOOLEAN /\ cleared \in BOOLEAN
        BY DEF WriterInv, WriterTypeOK
    <2> QED BY <1>1, <1>7, <1>13, <2>1, Zenon DEF WriterTypeOK
<1> QED
    BY <1>1, <1>2, <1>4, <1>10, <1>12, <1>13, <1>14, <1>15 DEF WriterInv

(* The first element of a sequence that is not empty.                       *)
LEMMA HeadFacts ==
    ASSUME NEW S, NEW q \in Seq(S), q # <<>>
    PROVE  Head(q) = q[1] /\ 1 \in 1..Len(q) /\ Head(q) \in S
<1>1. Len(q) \in Nat \ {0}
    OBVIOUS
<1>2. Head(q) = q[1] /\ Head(q) \in S
    OBVIOUS
<1> QED BY <1>1, <1>2

(* A completion while the socket is open: the packet that was written is at *)
(* the front, it leaves the queue and the next one is written.              *)
LEMMA DoneHandled ==
    ASSUME WriterInv, RunHandler, open, Head(handlers)[1] = "done", Completed
    PROVE  WriterInv'
<1>1. /\ handlers # <<>> /\ handlers \in Seq(Handler) /\ handlers' = Tail(handlers)
      /\ UNCHANGED <<wire, pushed, open, cleared>>
    BY DEF WriterInv, RunHandler, Completed
<1>2. /\ handlers' \in Seq(Handler) /\ Len(handlers) \in Nat \ {0} /\ Len(handlers') = Len(handlers) - 1
      /\ \A i \in 1..Len(handlers') : i + 1 \in 1..Len(handlers) /\ handlers'[i] = handlers[i + 1]
      /\ \A i \in 1..Len(handlers) : i # 1 => (i - 1 \in 1..Len(handlers') /\ handlers[i] = handlers'[i - 1])
      /\ Head(handlers) = handlers[1] /\ Head(handlers) \in Handler /\ 1 \in 1..Len(handlers)
    BY <1>1, TailFacts
<1>3. /\ queue_ \in Seq(1..MaxPush) /\ wire \in Seq(1..MaxPush) /\ pushed \in Nat /\ Len(wire) \in Nat
      /\ PushesInOrder /\ WriteCycle /\ Base \in Nat /\ (\A i \in 1..Len(queue_) : queue_[i] = Base + i)
    BY SerializedWriterAssumption DEF WriterInv, WriterTypeOK
<1>4. 1 \in Ends /\ WriteDone
    BY <1>2 DEF Ends, WriteDone
<1>5. queue_ # <<>> /\ inFlight = {} /\ (\A i \in Ends : i = 1)
    BY <1>3, <1>4 DEF WriteCycle
<1>6. Base = Len(wire) - 1
    BY <1>4 DEF Base
<1>7. \A i \in 1..Len(handlers') : handlers'[i][1] \notin {"done", "failed"}
    <2> SUFFICES ASSUME NEW i \in 1..Len(handlers'), handlers'[i][1] \in {"done", "failed"} PROVE FALSE
        OBVIOUS
    <2>1. i + 1 \in Ends /\ i + 1 # 1
        BY <1>2 DEF Ends
    <2> QED BY <1>5, <2>1
<1>8. Ends' = {} /\ ~WriteDone'
    BY <1>7 DEF Ends, WriteDone
<1>9. Base' = Len(wire) /\ Base' = Base + 1
    BY <1>1, <1>3, <1>6, <1>8 DEF Base
<1>10. /\ Len(queue_) \in Nat \ {0} /\ Tail(queue_) \in Seq(1..MaxPush) /\ Len(Tail(queue_)) = Len(queue_) - 1
       /\ \A i \in 1..Len(Tail(queue_)) : Tail(queue_)[i] = queue_[i + 1] /\ i + 1 \in 1..Len(queue_)
    BY <1>3, <1>5
<1>11. /\ queue_' = Tail(queue_) /\ popped' = popped
       /\ writing_' = (queue_' # <<>>)
       /\ inFlight' = IF queue_' # <<>> THEN {Head(queue_')} ELSE {}
    BY <1>5, SMTT(40) DEF Completed, DoWrite
<1>12. \A i \in 1..Len(queue_') : queue_'[i] = Base' + i
    <2> SUFFICES ASSUME NEW i \in 1..Len(queue_') PROVE queue_'[i] = Base' + i
        OBVIOUS
    <2>1. queue_'[i] = Base + (i + 1)
        BY <1>3, <1>10, <1>11
    <2> QED BY <1>3, <1>9, <2>1
<1>13. queue_' # <<>> => Head(queue_') = Len(wire) + 1 /\ Head(queue_') \in 1..MaxPush
    <2> SUFFICES ASSUME queue_' # <<>> PROVE Head(queue_') = Len(wire) + 1 /\ Head(queue_') \in 1..MaxPush
        OBVIOUS
    <2>a. queue_' \in Seq(1..MaxPush)
        BY <1>10, <1>11
    <2>1. Head(queue_') = queue_'[1] /\ 1 \in 1..Len(queue_') /\ Head(queue_') \in 1..MaxPush
        BY <2>a, HeadFacts, Zenon
    <2> QED BY <1>9, <1>12, <2>1
<1>14. Handled' = Handled
    <2>1. Handled' = (Base + 1) + (Len(queue_) - 1)
        BY <1>9, <1>10, <1>11 DEF Handled
    <2> QED BY <1>3, <1>10, <2>1 DEF Handled
<1>15. PushesInOrder'
    <2>1. \A i \in 1..Len(handlers') : handlers'[i][1] = "push" => handlers'[i][2] \in (Handled + 1)..pushed
        BY <1>2, <1>3 DEF PushesInOrder
    <2>2. \A n \in (Handled + 1)..pushed : \E i \in 1..Len(handlers') : handlers'[i] = <<"push", n>>
        <3> SUFFICES ASSUME NEW n \in (Handled + 1)..pushed
                     PROVE  \E i \in 1..Len(handlers') : handlers'[i] = <<"push", n>>
            BY Zenon
        <3>1. PICK i \in 1..Len(handlers) : handlers[i] = <<"push", n>>
            BY <1>3, Zenon DEF PushesInOrder
        <3>2. i # 1
            BY <1>2, <3>1
        <3> QED BY <1>2, <3>1, <3>2, Zenon
    <2>3. \A i, j \in 1..Len(handlers') :
             handlers'[i][1] = "push" /\ handlers'[j][1] = "push" /\ i < j => handlers'[i][2] < handlers'[j][2]
        <3> SUFFICES ASSUME NEW i \in 1..Len(handlers'), NEW j \in 1..Len(handlers'), i < j,
                            handlers'[i][1] = "push", handlers'[j][1] = "push"
                     PROVE  handlers'[i][2] < handlers'[j][2]
            OBVIOUS
        <3>1. /\ handlers'[i] = handlers[i + 1] /\ i + 1 \in 1..Len(handlers)
              /\ handlers'[j] = handlers[j + 1] /\ j + 1 \in 1..Len(handlers)
            BY <1>2, SMTT(40)
        <3>2. i + 1 < j + 1
            OBVIOUS
        <3>3. handlers[i + 1][1] = "push" /\ handlers[j + 1][1] = "push"
            BY <3>1, Zenon
        <3>4. handlers[i + 1][2] < handlers[j + 1][2]
            BY <1>3, <3>1, <3>2, <3>3, Zenon DEF PushesInOrder
        <3> QED BY <3>1, <3>4, Zenon
    <2>4. Handled <= pushed
        BY <1>3 DEF PushesInOrder
    <2> QED BY <1>1, <1>14, <2>1, <2>2, <2>3, <2>4, Zenon DEF PushesInOrder
<1>16. WriteCycle'
    BY <1>8, <1>11, Zenon DEF WriteCycle
<1>17. WriterTypeOK'
    <2>1. pushed \in 0..MaxPush /\ popped \in {"ok", "empty"} /\ open \in BOOLEAN /\ cleared \in BOOLEAN
        BY DEF WriterInv, WriterTypeOK
    <2>2. inFlight' \subseteq 1..MaxPush
        BY <1>11, <1>13
    <2>3. writing_' \in BOOLEAN /\ (writing_' => queue_' # <<>>)
        BY <1>11, Zenon
    <2> QED BY <1>1, <1>3, <1>10, <1>11, <2>1, <2>2, <2>3, Zenon DEF WriterTypeOK
<1>18. (inFlight' # {} => inFlight' = {Len(wire') + 1}) /\ Base' \in Nat
    BY <1>1, <1>3, <1>9, <1>11, <1>13
<1> QED
    BY <1>1, <1>2, <1>12, <1>15, <1>16, <1>17, <1>18 DEF WriterInv

LEMMA RunHandlerStep == ASSUME WriterInv, RunHandler PROVE WriterInv'
<1>1. CASE ~open
    BY <1>1, ClosedStep
<1>2. CASE open
    <2>1. cleared = FALSE
        BY <1>2, Zenon DEF WriterInv, WriterTypeOK
    <2>2. CASE Head(handlers)[1] = "push" /\ DoPush(Head(handlers)[2])
        BY <1>2, <2>2, PushHandled
    <2>3. CASE Head(handlers)[1] = "done" /\ Completed
        BY <1>2, <2>3, DoneHandled
    <2>4. CASE Failed \/ CloseOwner
        <3>1. CloseOwner
            BY <2>1, <2>4 DEF Failed
        <3> QED BY <1>2, <3>1, ClosingStep
    <2> QED BY <2>2, <2>3, <2>4 DEF RunHandler
<1> QED BY <1>1, <1>2

LEMMA WriterInvStep == WriterInv /\ [WriterNext]_writerVars => WriterInv'
<1> SUFFICES ASSUME WriterInv, [WriterNext]_writerVars PROVE WriterInv'
    OBVIOUS
<1>1. CASE Push
    BY <1>1, PushStep
<1>2. CASE RunHandler
    BY <1>2, RunHandlerStep
<1>3. CASE ReleaseObj
    BY <1>3, ReleaseStep
<1>4. ASSUME NEW m \in 1..MaxPush, SocketWrites(m) PROVE WriterInv'
    BY <1>4, SocketStep
<1>5. CASE UNCHANGED writerVars
    <2>1. UNCHANGED <<queue_, writing_, handlers, inFlight, wire, pushed, open, cleared, popped>>
        BY <1>5 DEF writerVars
    <2>2. Ends' = Ends /\ WriteDone' = WriteDone
        BY <2>1 DEF Ends, WriteDone
    <2>3. Base' = Base
        BY <2>1, <2>2 DEF Base
    <2>4. Handled' = Handled
        BY <2>1, <2>3 DEF Handled
    <2>5. PushesInOrder' = PushesInOrder
        BY <2>1, <2>4 DEF PushesInOrder
    <2>6. WriteCycle' = WriteCycle
        BY <2>1, <2>2 DEF WriteCycle
    <2>7. WriterTypeOK' = WriterTypeOK
        BY <2>1 DEF WriterTypeOK
    <2> QED BY <2>1, <2>3, <2>5, <2>6, <2>7 DEF WriterInv
<1> QED
    BY <1>1, <1>2, <1>3, <1>4, <1>5 DEF WriterNext

LEMMA WriterInvSuffices == WriterInv => OneWriteInFlight
<1> SUFFICES ASSUME WriterInv PROVE OneWriteInFlight
    OBVIOUS
<1>1. inFlight \subseteq {Len(wire) + 1}
    BY DEF WriterInv
<1>2. wire = [i \in 1..Len(wire) |-> i]
    BY DEF WriterInv, WriterTypeOK
<1> QED BY <1>1, <1>2 DEF WriterInv, OneWriteInFlight

(* async_utils.hpp:155: whatever the number of packets, and whenever writes *)
(* end or fail and the owner closes, serialized_writer has one async_write  *)
(* in flight, and the socket gets the packets in the order of their push.   *)
THEOREM WritesAreSerialized == WriterSpec => []OneWriteInFlight
<1>1. WriterSpec => []WriterInv
    BY WriterInitInv, WriterInvStep, PTL DEF WriterSpec
<1> QED BY <1>1, WriterInvSuffices, PTL

-----------------------------------------------------------------------------
(* The upgrade of the two ends of a channel.                                 *)

LEMMA OtherSide == \A s \in Side : Other(s) \in Side /\ Other(s) # s /\ Other(Other(s)) = s
BY Zenon DEF Side, Other

(* None is no engine.                                                       *)
LEMMA NoneApart == None \notin Engine
BY Zenon DEF None, Engine

-----------------------------------------------------------------------------
(* What the functions of the engine keep and change.                        *)

(* The two engines differ in nothing an upgrade depends on, except that d   *)
(* may aim at its peer.                                                     *)
Steered(e, d) ==
    /\ d \in Engine /\ d.id = e.id /\ d.peer = e.peer /\ d.result_delivered = e.result_delivered
    /\ d.targets \subseteq e.targets \cup {e.peer}

LEMMA NewEngineFacts ==
    ASSUME NEW n \in Nat
    PROVE  /\ NewEngine(n + 1) \in Engine
           /\ NewEngine(n + 1).id = n + 1 /\ NewEngine(n + 1).peer = 0 /\ NewEngine(n + 1).targets = {}
           /\ ~NewEngine(n + 1).result_delivered
<1> n + 1 \in Attempt \ {0}
    BY DEF Attempt
<1> 0 \in 0..kPunchMaxRounds
    BY ChannelAssumption
<1> QED
    BY Zenon DEF NewEngine, Engine, Attempt

LEMMA OnPeerInfoFacts ==
    ASSUME NEW e \in Engine, NEW x \in Attempt
    PROVE  /\ OnPeerInfo(e, x) \in Engine /\ OnPeerInfo(e, x).id = e.id /\ OnPeerInfo(e, x).peer = x
           /\ OnPeerInfo(e, x).targets = e.targets /\ OnPeerInfo(e, x).result_delivered = e.result_delivered
BY Zenon DEF OnPeerInfo, Engine

LEMMA StartPunchAtFacts == ASSUME NEW e \in Engine PROVE Steered(e, StartPunchAt(e))
BY Zenon DEF StartPunchAt, Steered, Engine

LEMMA DoPunchRoundFacts == ASSUME NEW e \in Engine PROVE Steered(e, DoPunchRound(e))
BY Zenon DEF DoPunchRound, Steered, Engine

LEMMA StartUdpPunchFacts == ASSUME NEW e \in Engine PROVE Steered(e, StartUdpPunch(e))
<1> DEFINE d == [e EXCEPT !.deadline = FALSE, !.punch_active = TRUE, !.round = 0]
<1>1. 0 \in 0..kPunchMaxRounds
    BY ChannelAssumption
<1>2. Steered(e, d)
    BY <1>1, Zenon DEF Steered, Engine
<1>3. Steered(d, DoPunchRound(d))
    BY <1>2, DoPunchRoundFacts, Zenon DEF Steered
<1>4. Steered(e, [e EXCEPT !.deadline = FALSE])
    BY Zenon DEF Steered, Engine
<1> HIDE DEF d
<1>5. Steered(e, DoPunchRound(d))
    BY <1>2, <1>3, Zenon DEF Steered
<1> QED
    BY <1>4, <1>5, Zenon DEF StartUdpPunch, d

LEMMA StopPunchingFacts == ASSUME NEW e \in Engine PROVE Steered(e, StopPunching(e))
BY Zenon DEF StopPunching, Steered, Engine

-----------------------------------------------------------------------------
(* What the functions of the channel keep and change.                       *)

(* The two channels differ in nothing an upgrade depends on.                *)
Alike(c, d) ==
    /\ d \in Channel /\ d.closed = c.closed /\ d.p2p_success = c.p2p_success /\ d.p2p_socket = c.p2p_socket
    /\ d.peer_endpoint = c.peer_endpoint /\ d.my_external_port = c.my_external_port

LEMMA SchedulePunchRetryFacts ==
    ASSUME NEW c \in Channel
    PROVE  /\ Alike(c, SchedulePunchRetry(c))
           /\ \/ c.closed
              \/ SchedulePunchRetry(c).punch_retry_pending
              \/ SchedulePunchRetry(c).punch_retry_count = kMaxPunchRetries
<1> c.punch_retry_count \in 0..kMaxPunchRetries /\ kMaxPunchRetries \in Nat
    BY ChannelAssumption, Zenon DEF Channel
<1>1. CASE c.closed \/ c.punch_retry_pending \/ c.punch_retry_count >= kMaxPunchRetries
    BY <1>1 DEF SchedulePunchRetry, Alike
<1>2. CASE ~(c.closed \/ c.punch_retry_pending \/ c.punch_retry_count >= kMaxPunchRetries)
    <2>1. c.punch_retry_count + 1 \in 0..kMaxPunchRetries
        BY <1>2
    <2> QED
        BY <1>2, <2>1, Zenon DEF SchedulePunchRetry, Alike, Channel
<1> QED
    BY <1>1, <1>2, Zenon

LEMMA CancelHandshakeTimerFacts ==
    ASSUME NEW c \in Channel
    PROVE  Alike(c, CancelHandshakeTimer(c)) /\ CancelHandshakeTimer(c).closed = c.closed
BY Zenon DEF CancelHandshakeTimer, Alike, Channel

LEMMA FailFacts ==
    ASSUME NEW c \in Channel, NEW s \in Side
    PROVE  /\ Alike(c, Fail(s, c))
           /\ s = "accessor" => \/ c.closed \/ Fail(s, c).punch_retry_pending
                                \/ Fail(s, c).punch_retry_count = kMaxPunchRetries
BY CancelHandshakeTimerFacts, SchedulePunchRetryFacts DEF Fail, Alike

LEMMA ClosedFacts ==
    ASSUME NEW c \in Channel
    PROVE  /\ Closed(c) \in Channel /\ Closed(c).closed /\ Closed(c).p2p_success = c.p2p_success
           /\ Closed(c).p2p_socket = 0 /\ Closed(c).my_external_port = c.my_external_port
BY Zenon DEF Closed, Channel, Attempt

(* The channel after its success callback, which is the first one.          *)
LEMMA UpFacts ==
    ASSUME NEW c \in Channel, NEW r \in Result, ~c.p2p_success
    PROVE  LET up == CancelHandshakeTimer([AcceptP2p(c, r) EXCEPT !.p2p_success = TRUE])
           IN  \A d \in {up, ResetPunchRetry(up)} :
                  /\ d \in Channel /\ d.closed = c.closed /\ d.p2p_success /\ d.p2p_socket = r.socket
                  /\ d.peer_endpoint = r.peer /\ d.my_external_port = c.my_external_port
<1> 0 \in 0..kMaxPunchRetries
    BY ChannelAssumption
<1> DEFINE a == AcceptP2p(c, r)
           b == [a EXCEPT !.p2p_success = TRUE]
           up == CancelHandshakeTimer(b)
<1>1. /\ a \in Channel /\ a.closed = c.closed /\ a.p2p_socket = r.socket /\ a.peer_endpoint = r.peer
      /\ a.my_external_port = c.my_external_port
    BY Zenon DEF AcceptP2p, Channel, Result
<1> HIDE DEF a
<1>2. /\ b \in Channel /\ b.closed = c.closed /\ b.p2p_socket = r.socket /\ b.peer_endpoint = r.peer
      /\ b.my_external_port = c.my_external_port /\ b.p2p_success
    BY <1>1, Zenon DEF Channel
<1> HIDE DEF b
<1>3. Alike(b, up)
    BY <1>2, CancelHandshakeTimerFacts, Zenon
<1>4. Alike(b, ResetPunchRetry(up))
    <2> HIDE DEF up
    <2> QED
        BY <1>3, Zenon DEF ResetPunchRetry, Alike, Channel
<1>5. \A d \in {up, ResetPunchRetry(up)} : Alike(b, d)
    BY <1>3, <1>4, Zenon
<1> QED
    BY <1>2, <1>5, Zenon DEF Alike, b, a

-----------------------------------------------------------------------------
(* The hints under way: the messages that tell an end the port of the peer. *)

Hint(s) == IF s = "accessor" THEN "p2p_handshake" ELSE "handshake_ack"

(* The hints of q name engines up to n, none but n, and none twice in the   *)
(* wrong order.                                                             *)
UpTo(q, s, n) == \A i \in 1..Len(q) : q[i].type = Hint(s) => q[i][Other(s)] <= n
Only(q, s, n) == \A i \in 1..Len(q) : q[i].type = Hint(s) => q[i][Other(s)] = n
InTurn(q, s) ==
    \A i, j \in 1..Len(q) :
        i < j /\ q[i].type = Hint(s) /\ q[j].type = Hint(s) => q[i][Other(s)] <= q[j][Other(s)]

LEMMA PortType == ASSUME NEW m \in Message, NEW s \in Side PROVE m[s] \in Nat
BY Zenon DEF Message, Side, Attempt

LEMMA TailElements ==
    ASSUME NEW q \in Seq(Message), q # <<>>
    PROVE  /\ Head(q) \in Message /\ Head(q) = q[1] /\ 1 \in 1..Len(q)
           /\ Tail(q) \in Seq(Message) /\ Len(Tail(q)) = Len(q) - 1
           /\ \A i \in 1..Len(Tail(q)) : i + 1 \in 1..Len(q) /\ Tail(q)[i] = q[i + 1]
OBVIOUS

LEMMA AppendElements ==
    ASSUME NEW q \in Seq(Message), NEW m \in Message
    PROVE  /\ Append(q, m) \in Seq(Message) /\ Len(Append(q, m)) = Len(q) + 1
           /\ \A i \in 1..Len(q) : i \in 1..Len(Append(q, m)) /\ Append(q, m)[i] = q[i]
           /\ \A i \in 1..Len(Append(q, m)) : i \in 1..Len(q) \/ (i = Len(q) + 1 /\ Append(q, m)[i] = m)
OBVIOUS

LEMMA TailHints ==
    ASSUME NEW q \in Seq(Message), q # <<>>, NEW s \in Side, NEW n \in Nat
    PROVE  /\ UpTo(q, s, n) => UpTo(Tail(q), s, n)
           /\ Only(q, s, n) => Only(Tail(q), s, n)
           /\ InTurn(q, s) => InTurn(Tail(q), s)
<1>1. UpTo(q, s, n) => UpTo(Tail(q), s, n)
    BY TailElements DEF UpTo
<1>2. Only(q, s, n) => Only(Tail(q), s, n)
    BY TailElements DEF Only
<1>3. ASSUME InTurn(q, s) PROVE InTurn(Tail(q), s)
    <2> SUFFICES ASSUME NEW i \in 1..Len(Tail(q)), NEW j \in 1..Len(Tail(q)), i < j,
                        Tail(q)[i].type = Hint(s), Tail(q)[j].type = Hint(s)
                 PROVE  Tail(q)[i][Other(s)] <= Tail(q)[j][Other(s)]
        BY Zenon DEF InTurn
    <2>1. i + 1 < j + 1
        OBVIOUS
    <2>2. /\ i + 1 \in 1..Len(q) /\ Tail(q)[i] = q[i + 1]
          /\ j + 1 \in 1..Len(q) /\ Tail(q)[j] = q[j + 1]
        BY TailElements, Zenon
    <2> QED
        BY <1>3, <2>1, <2>2, Zenon DEF InTurn
<1> QED
    BY <1>1, <1>2, <1>3, Zenon

(* After a hint, the number it names is the least of those still to come.   *)
LEMMA HintIsLeast ==
    ASSUME NEW q \in Seq(Message), q # <<>>, NEW s \in Side, NEW n \in Nat,
           Head(q).type = Hint(s), InTurn(q, s), UpTo(q, s, n)
    PROVE  Head(q)[Other(s)] <= n /\ (Head(q)[Other(s)] = n => Only(Tail(q), s, n))
<1>1. Head(q)[Other(s)] <= n
    BY TailElements, Zenon DEF UpTo
<1>2. ASSUME Head(q)[Other(s)] = n, NEW i \in 1..Len(Tail(q)), Tail(q)[i].type = Hint(s)
      PROVE  Tail(q)[i][Other(s)] = n
    <2>1. 1 < i + 1
        OBVIOUS
    <2>2. i + 1 \in 1..Len(q) /\ Tail(q)[i] = q[i + 1] /\ Head(q) = q[1] /\ 1 \in 1..Len(q)
        BY TailElements, Zenon
    <2>3. n <= q[i + 1][Other(s)]
        BY <1>2, <2>1, <2>2, Zenon DEF InTurn
    <2>4. q[i + 1][Other(s)] <= n
        BY <1>2, <2>2, Zenon DEF UpTo
    <2>5. q[i + 1] \in Message
        BY <2>2
    <2>6. q[i + 1][Other(s)] \in Nat
        BY <2>5, PortType, OtherSide, Zenon
    <2>7. q[i + 1][Other(s)] = n
        BY <2>3, <2>4, <2>6
    <2> QED
        BY <2>2, <2>7, Zenon
<1> QED
    BY <1>1, <1>2, Zenon DEF Only

(* A message that is no hint, or a hint that names the newest engine.       *)
LEMMA AppendHints ==
    ASSUME NEW q \in Seq(Message), NEW m \in Message, NEW s \in Side, NEW n \in Nat,
           m.type = Hint(s) => m[Other(s)] = n
    PROVE  /\ UpTo(q, s, n) => UpTo(Append(q, m), s, n)
           /\ Only(q, s, n) => Only(Append(q, m), s, n)
           /\ InTurn(q, s) /\ UpTo(q, s, n) => InTurn(Append(q, m), s)
<1>0. n <= n
    OBVIOUS
<1> DEFINE r == Append(q, m)
<1>1. ASSUME NEW i \in 1..Len(r) PROVE (i \in 1..Len(q) /\ r[i] = q[i]) \/ r[i] = m
    BY AppendElements, Zenon
<1> HIDE DEF r
<1>2. UpTo(q, s, n) => UpTo(r, s, n)
    BY <1>0, <1>1, Zenon DEF UpTo
<1>3. Only(q, s, n) => Only(r, s, n)
    BY <1>1, Zenon DEF Only
<1> USE DEF r
<1>4. ASSUME InTurn(q, s), UpTo(q, s, n) PROVE InTurn(r, s)
    <2> SUFFICES ASSUME NEW i \in 1..Len(r), NEW j \in 1..Len(r), i < j, r[i].type = Hint(s), r[j].type = Hint(s)
                 PROVE  r[i][Other(s)] <= r[j][Other(s)]
        BY Zenon DEF InTurn
    <2>1. /\ i \in 1..Len(q) \/ (i = Len(q) + 1 /\ r[i] = m)
          /\ j \in 1..Len(q) \/ (j = Len(q) + 1 /\ r[j] = m)
          /\ Len(r) = Len(q) + 1
        BY AppendElements, Zenon
    <2>2. i \in 1..Len(q)
        <3>1. \A k \in Nat : \A x, y \in 1..k + 1 : x < y => x \in 1..k
            OBVIOUS
        <3>2. Len(q) \in Nat
            OBVIOUS
        <3> QED
            BY <2>1, <3>1, <3>2, Zenon
    <2>3. r[i] = q[i]
        BY <2>2, AppendElements, Zenon
    <2>4. CASE j \in 1..Len(q)
        <3>1. r[j] = q[j]
            BY <2>4, AppendElements, Zenon
        <3> QED
            BY <1>4, <2>2, <2>3, <2>4, <3>1, Zenon DEF InTurn
    <2>5. CASE r[j] = m
        BY <1>4, <2>2, <2>3, <2>5, Zenon DEF UpTo
    <2> QED
        BY <2>1, <2>4, <2>5, Zenon
<1> QED
    BY <1>2, <1>3, <1>4, Zenon

-----------------------------------------------------------------------------
(* What a step does to the parts of the state an upgrade depends on.        *)

Alive(s) == engine[s] # None

(* The engine is kept or given up, the channel is kept or closed, and the   *)
(* messages move on.                                                        *)
EngineKept(s) == engine'[s] = None \/ (Alive(s) /\ Steered(engine[s], engine'[s]))

ChannelKept(s) ==
    /\ ch'[s].p2p_success = ch[s].p2p_success /\ ch'[s].p2p_socket \in {ch[s].p2p_socket, 0}
    /\ ch'[s].my_external_port \in {ch[s].my_external_port, started[s], 0}
    /\ ~ch'[s].closed => /\ ~ch[s].closed /\ ch'[s].p2p_socket = ch[s].p2p_socket
                         /\ ch'[s].peer_endpoint = ch[s].peer_endpoint

(* A message that may be sent to s by what is not the end of an upgrade.    *)
Fits(m, s) == m \in Message /\ m.type # "confirm_ok" /\ (m.type = Hint(s) => m[Other(s)] = started[Other(s)])

QueueKept(s) ==
    \/ signal'[s] = signal[s]
    \/ signal[s] # <<>> /\ signal'[s] = Tail(signal[s])
    \/ \E m : Fits(m, s) /\ signal'[s] = Append(signal[s], m)

QueuesKept == \A t \in Side : QueueKept(t)
EnginesKept == \A t \in Side : EngineKept(t)
ChannelsKept == \A t \in Side : ChannelKept(t)

Quiet == QueuesKept /\ EnginesKept /\ ChannelsKept /\ UNCHANGED <<posted, started>>

(* The kinds of the other steps: s learns the port of its peer from a hint  *)
(* or from a probe, begins an attempt, delivers a result, and its channel   *)
(* takes the result or the sender of a datagram.                            *)
ByHint(s) ==
    /\ signal[s] # <<>> /\ Head(signal[s]).type = Hint(s) /\ signal'[s] = Tail(signal[s]) /\ QueueKept(Other(s))
    /\ Alive(s) /\ Steered(OnPeerInfo(engine[s], Head(signal[s])[Other(s)]), engine'[s])
    /\ engine'[Other(s)] = engine[Other(s)] /\ UNCHANGED <<ch, posted, started>>

ByProbe(s) ==
    /\ \A t \in Side : Alive(t)
    /\ engine[s].id \in engine[Other(s)].targets /\ QueuesKept
    /\ Steered(OnPeerInfo(engine[s], engine[Other(s)].id), engine'[s])
    /\ engine'[Other(s)] = engine[Other(s)] /\ UNCHANGED <<ch, posted, started>>

Begins(s) ==
    /\ started' = [started EXCEPT ![s] = @ + 1]
    /\ engine'[s] \in {None, NewEngine(started[s] + 1)} /\ engine'[Other(s)] = engine[Other(s)]
    /\ QueuesKept /\ ChannelsKept
    /\ s = "accessor" => posted[s] = <<>> /\ ~ch[s].p2p_success /\ ch'[s].my_external_port = 0
    /\ UNCHANGED posted

Delivers(s) ==
    LET m == Head(signal[s])
    IN  /\ posted[s] = <<>> /\ signal[s] # <<>> /\ signal'[s] = Tail(signal[s]) /\ Alive(s)
        /\ m.type = (IF s = "accessor" THEN "confirm_ack" ELSE "confirm_ok")
        /\ m[s] = engine[s].id /\ m[Other(s)] \in engine[s].targets /\ ~engine[s].result_delivered
        /\ IF s = "accessor" THEN signal'[Other(s)] = Append(signal[Other(s)], [m EXCEPT !.type = "confirm_ok"])
                             ELSE signal'[Other(s)] = signal[Other(s)]
        /\ engine'[s] \in Engine /\ engine'[s].id = engine[s].id /\ engine'[s].peer = engine[s].peer
        /\ engine'[s].targets \subseteq engine[s].targets \cup {engine[s].peer}
        /\ engine'[s].result_delivered /\ engine'[Other(s)] = engine[Other(s)]
        /\ posted' = [posted EXCEPT ![s] = <<[socket |-> engine[s].id, peer |-> engine[s].peer]>>]
        /\ UNCHANGED <<ch, started>>

(* The success callback, which is the first one of s, and a datagram.       *)
Accepts(s) ==
    /\ posted[s] # <<>> /\ posted' = [posted EXCEPT ![s] = Tail(@)]
    /\ ch' \in [Side -> Channel] /\ ch'[Other(s)] = ch[Other(s)]
    /\ ch'[s].closed = ch[s].closed /\ ch'[s].p2p_success /\ ch'[s].my_external_port = ch[s].my_external_port
    /\ ch'[s].p2p_socket = posted[s][1].socket /\ ch'[s].peer_endpoint = posted[s][1].peer
    /\ UNCHANGED <<engine, signal, started>>

Relearns(s) ==
    /\ \A t \in Side : ch[t].p2p_socket # 0
    /\ ch'[s].peer_endpoint = ch[Other(s)].p2p_socket
    /\ \A t \in Side : /\ ch'[t].closed = ch[t].closed /\ ch'[t].p2p_success = ch[t].p2p_success
                       /\ ch'[t].p2p_socket = ch[t].p2p_socket /\ ch'[t].my_external_port = ch[t].my_external_port
    /\ UNCHANGED <<engine, signal, posted, started>>

(* An engine bears the number of the last attempt of its end, and neither   *)
(* engine, hint nor port is ahead of the attempts.                          *)
Numbers ==
    /\ \A s \in Side : /\ Alive(s) => /\ engine[s].id = started[s]
                                      /\ \A x \in engine[s].targets \cup {engine[s].peer} : x <= started[Other(s)]
                       /\ UpTo(signal[s], s, started[Other(s)]) /\ InTurn(signal[s], s)
    /\ ch["accessor"].my_external_port \in {0, started["accessor"]}

(* The result of s, posted or taken by its channel.                         *)
Done(s) == posted[s] # <<>> \/ ch[s].p2p_success
Res(s) == IF posted[s] # <<>> THEN posted[s][1] ELSE [socket |-> ch[s].p2p_socket, peer |-> ch[s].peer_endpoint]

(* An end gets one result, the accessor's comes from its last attempt, and  *)
(* the provider's comes second.                                             *)
Once ==
    /\ \A s \in Side : /\ Len(posted[s]) <= 1 /\ (posted[s] # <<>> => ~ch[s].p2p_success)
                       /\ ch[s].p2p_socket # 0 => ch[s].p2p_success
    /\ Done("accessor") /\ Alive("accessor") => engine["accessor"].result_delivered
    /\ Done("accessor") /\ ~ch["accessor"].closed => Res("accessor").socket = started["accessor"]
    /\ Done("provider") => Done("accessor")

(* How the actions change the variables.                                    *)
LEMMA EngineChange ==
    ASSUME TypeOK, NEW s \in Side, NEW x, x = None \/ x \in Engine, engine' = [engine EXCEPT ![s] = x]
    PROVE  /\ engine' \in [Side -> Engine \cup {None}] /\ engine'[s] = x
           /\ \A t \in Side : t # s => engine'[t] = engine[t]
BY Zenon DEF TypeOK

LEMMA EngineAlive == ASSUME TypeOK, NEW s \in Side PROVE Alive(s) <=> engine[s] \in Engine
BY NoneApart, Zenon DEF TypeOK, Alive

LEMMA SteeredSame == ASSUME TypeOK, NEW s \in Side PROVE engine'[s] = engine[s] => EngineKept(s)
BY EngineAlive, Zenon DEF EngineKept, Steered, Alive

LEMMA EngineSteered ==
    ASSUME TypeOK, NEW s \in Side, NEW x, x = None \/ (Alive(s) /\ Steered(engine[s], x)),
           engine' = [engine EXCEPT ![s] = x]
    PROVE  engine' \in [Side -> Engine \cup {None}] /\ EnginesKept
<1>1. x = None \/ x \in Engine
    BY Zenon DEF Steered
<1>2. /\ engine' \in [Side -> Engine \cup {None}] /\ engine'[s] = x
      /\ \A t \in Side : t # s => engine'[t] = engine[t]
    BY <1>1, EngineChange, Zenon
<1>3. EngineKept(s)
    BY <1>2, Zenon DEF EngineKept
<1>4. \A t \in Side : t # s => EngineKept(t)
    BY <1>2, SteeredSame, Zenon
<1> QED
    BY <1>2, <1>3, <1>4, Zenon DEF EnginesKept

LEMMA EngineUnchanged ==
    ASSUME TypeOK, engine' = engine PROVE engine' \in [Side -> Engine \cup {None}] /\ EnginesKept
<1>1. \A t \in Side : EngineKept(t)
    BY SteeredSame, Zenon
<1> QED
    BY <1>1, Zenon DEF EnginesKept, TypeOK

LEMMA ChannelMoves ==
    ASSUME TypeOK, NEW s \in Side, NEW d \in Channel, ch' = [ch EXCEPT ![s] = d],
           d.closed = ch[s].closed, d.p2p_success = ch[s].p2p_success, d.p2p_socket = ch[s].p2p_socket,
           d.peer_endpoint = ch[s].peer_endpoint,
           d.my_external_port \in {ch[s].my_external_port, started[s], 0}
    PROVE  ch' \in [Side -> Channel] /\ ChannelsKept /\ ch'[s] = d
<1>1. ch \in [Side -> Channel]
    BY Zenon DEF TypeOK
<1>2. ch' \in [Side -> Channel] /\ ch'[s] = d /\ \A t \in Side : t # s => ch'[t] = ch[t]
    BY <1>1, Zenon
<1>3. ChannelKept(s)
    BY <1>2, Zenon DEF ChannelKept
<1>4. \A t \in Side : t # s => ChannelKept(t)
    BY <1>2, Zenon DEF ChannelKept
<1> QED
    BY <1>2, <1>3, <1>4, Zenon DEF ChannelsKept

LEMMA ChannelChange ==
    ASSUME TypeOK, NEW s \in Side, NEW d, Alike(ch[s], d), ch' = [ch EXCEPT ![s] = d]
    PROVE  ch' \in [Side -> Channel] /\ ChannelsKept
BY ChannelMoves, Zenon DEF Alike

LEMMA ChannelCloses ==
    ASSUME TypeOK, NEW s \in Side, ch' = [ch EXCEPT ![s] = Closed(ch[s])]
    PROVE  ch' \in [Side -> Channel] /\ ChannelsKept
<1>1. ch \in [Side -> Channel]
    BY Zenon DEF TypeOK
<1>2. /\ Closed(ch[s]) \in Channel /\ Closed(ch[s]).closed /\ Closed(ch[s]).p2p_success = ch[s].p2p_success
      /\ Closed(ch[s]).p2p_socket = 0 /\ Closed(ch[s]).my_external_port = ch[s].my_external_port
    BY <1>1, ClosedFacts, Zenon
<1>3. /\ ch' \in [Side -> Channel] /\ ch'[s] = Closed(ch[s])
      /\ \A t \in Side : t # s => ch'[t] = ch[t]
    BY <1>1, <1>2, Zenon
<1>4. ChannelKept(s)
    BY <1>2, <1>3, Zenon DEF ChannelKept
<1>5. \A t \in Side : t # s => ChannelKept(t)
    BY <1>3, Zenon DEF ChannelKept
<1> QED
    BY <1>3, <1>4, <1>5, Zenon DEF ChannelsKept

LEMMA ChannelUnchanged == ASSUME TypeOK, ch' = ch PROVE ch' \in [Side -> Channel] /\ ChannelsKept
BY Zenon DEF TypeOK, ChannelsKept, ChannelKept

SignalOK == signal' \in [Side -> Seq(Message)] /\ \A s \in Side : Len(signal'[s]) <= MaxSignals

LEMMA QueueUnchanged == ASSUME TypeOK, signal' = signal PROVE SignalOK /\ QueuesKept
BY Zenon DEF TypeOK, SignalOK, QueuesKept, QueueKept

LEMMA QueueReceives ==
    ASSUME TypeOK, NEW s \in Side, signal[s] # <<>>, Receive(s)
    PROVE  /\ SignalOK /\ QueuesKept
           /\ signal'[s] = Tail(signal[s]) /\ signal'[Other(s)] = signal[Other(s)]
<1>1. signal \in [Side -> Seq(Message)] /\ Len(signal[s]) <= MaxSignals /\ MaxSignals \in Nat
    BY ChannelAssumption, Zenon DEF TypeOK
<1>2. Tail(signal[s]) \in Seq(Message) /\ Len(Tail(signal[s])) = Len(signal[s]) - 1
    BY <1>1, TailElements, Zenon
<1>3. Len(signal[s]) \in Nat
    BY <1>1
<1>4. Len(Tail(signal[s])) <= MaxSignals
    BY <1>1, <1>2, <1>3
<1>5. /\ signal' \in [Side -> Seq(Message)] /\ signal'[s] = Tail(signal[s])
      /\ \A t \in Side : t # s => signal'[t] = signal[t]
    BY <1>1, <1>2, Zenon DEF Receive
<1>6. QueuesKept
    BY <1>5, Zenon DEF QueuesKept, QueueKept
<1>7. SignalOK
    BY <1>4, <1>5, Zenon DEF SignalOK, TypeOK
<1> QED
    BY <1>5, <1>6, <1>7, OtherSide, Zenon

LEMMA QueueSends ==
    ASSUME TypeOK, NEW s \in Side, NEW m \in Message, CanSend(s), Send(s, m)
    PROVE  /\ SignalOK /\ signal'[Other(s)] = Append(signal[Other(s)], m)
           /\ signal'[s] = signal[s] /\ (Fits(m, Other(s)) => QueuesKept)
<1>1. signal \in [Side -> Seq(Message)] /\ MaxSignals \in Nat /\ Other(s) \in Side /\ Other(s) # s
    BY ChannelAssumption, OtherSide, Zenon DEF TypeOK
<1>2. Append(signal[Other(s)], m) \in Seq(Message) /\ Len(Append(signal[Other(s)], m)) = Len(signal[Other(s)]) + 1
    BY <1>1, AppendElements, Zenon
<1>3. Len(signal[Other(s)]) \in Nat
    BY <1>1
<1>4. Len(Append(signal[Other(s)], m)) <= MaxSignals
    BY <1>1, <1>2, <1>3 DEF CanSend
<1>5. /\ signal' \in [Side -> Seq(Message)] /\ signal'[Other(s)] = Append(signal[Other(s)], m)
      /\ \A t \in Side : t # Other(s) => signal'[t] = signal[t]
    BY <1>1, <1>2, Zenon DEF Send
<1>6. Fits(m, Other(s)) => QueuesKept
    BY <1>5, Zenon DEF QueuesKept, QueueKept
<1>7. SignalOK
    BY <1>4, <1>5, Zenon DEF SignalOK, TypeOK
<1> QED
    BY <1>1, <1>5, <1>6, <1>7, Zenon

LEMMA QueueAnswers ==
    ASSUME TypeOK, NEW s \in Side, NEW m \in Message, CanSend(s), signal[s] # <<>>, Answer(s, m)
    PROVE  /\ SignalOK /\ signal'[Other(s)] = Append(signal[Other(s)], m)
           /\ signal'[s] = Tail(signal[s]) /\ (Fits(m, Other(s)) => QueuesKept)
<1>1. signal \in [Side -> Seq(Message)] /\ MaxSignals \in Nat /\ Other(s) \in Side /\ Other(s) # s
    BY ChannelAssumption, OtherSide, Zenon DEF TypeOK
<1>2. Append(signal[Other(s)], m) \in Seq(Message) /\ Len(Append(signal[Other(s)], m)) = Len(signal[Other(s)]) + 1
    BY <1>1, AppendElements, Zenon
<1>3. Tail(signal[s]) \in Seq(Message) /\ Len(Tail(signal[s])) = Len(signal[s]) - 1
    BY <1>1, TailElements, Zenon
<1>4. Len(signal[Other(s)]) \in Nat /\ Len(signal[s]) \in Nat /\ Len(signal[s]) <= MaxSignals
    BY <1>1 DEF TypeOK
<1>5. Len(Append(signal[Other(s)], m)) <= MaxSignals /\ Len(Tail(signal[s])) <= MaxSignals
    BY <1>1, <1>2, <1>3, <1>4 DEF CanSend
<1>6. /\ signal' \in [Side -> Seq(Message)] /\ signal'[Other(s)] = Append(signal[Other(s)], m)
      /\ signal'[s] = Tail(signal[s])
    BY <1>1, <1>2, <1>3, Zenon DEF Answer
<1>7. \A t \in Side : t = s \/ t = Other(s)
    BY DEF Side, Other
<1>8. Fits(m, Other(s)) => QueuesKept
    BY <1>6, <1>7, Zenon DEF QueuesKept, QueueKept
<1>9. SignalOK
    BY <1>5, <1>6, <1>7, Zenon DEF SignalOK
<1> QED
    BY <1>6, <1>8, <1>9, Zenon

LEMMA TypesTogether ==
    ASSUME ch' \in [Side -> Channel], engine' \in [Side -> Engine \cup {None}], SignalOK,
           posted' \in [Side -> Seq(Result)], started' \in [Side -> Attempt]
    PROVE  TypeOK'
BY Zenon DEF TypeOK, SignalOK

LEMMA QuietTypes ==
    ASSUME TypeOK, ch' \in [Side -> Channel], engine' \in [Side -> Engine \cup {None}], SignalOK,
           UNCHANGED <<posted, started>>
    PROVE  TypeOK'
BY Zenon DEF TypeOK, SignalOK

-----------------------------------------------------------------------------
(* The kind of each action.                                                 *)

LEMMA NewAttemptFacts ==
    ASSUME TypeOK, NEW s \in Side, NEW c \in Channel, NewAttempt(s, c)
    PROVE  /\ started' = [started EXCEPT ![s] = @ + 1] /\ started' \in [Side -> Attempt]
           /\ engine' \in [Side -> Engine \cup {None}]
           /\ engine'[s] \in {None, NewEngine(started[s] + 1)} /\ engine'[Other(s)] = engine[Other(s)]
           /\ \E d \in Channel : Alike(c, d) /\ d.handshake_timer /\ ch' = [ch EXCEPT ![s] = d]
<1>1. started' = [started EXCEPT ![s] = @ + 1] /\ started \in [Side -> Nat]
    BY Zenon DEF NewAttempt, TypeOK, Attempt
<1>2. started' \in [Side -> Attempt]
    BY <1>1 DEF Attempt
<1>3. NewEngine(started[s] + 1) \in Engine
    BY <1>1, NewEngineFacts, Zenon
<1>4. CASE /\ engine' = [engine EXCEPT ![s] = NewEngine(started[s] + 1)]
           /\ ch' = [ch EXCEPT ![s] = [c EXCEPT !.handshake_timer = TRUE]]
    <2>1. Alike(c, [c EXCEPT !.handshake_timer = TRUE]) /\ [c EXCEPT !.handshake_timer = TRUE].handshake_timer
        BY Zenon DEF Alike, Channel
    <2> HIDE DEF Channel
    <2>2. \E d \in Channel : Alike(c, d) /\ d.handshake_timer /\ ch' = [ch EXCEPT ![s] = d]
        BY <1>4, <2>1, Zenon DEF Alike
    <2>3. /\ engine' \in [Side -> Engine \cup {None}] /\ engine'[s] = NewEngine(started[s] + 1)
          /\ engine'[Other(s)] = engine[Other(s)]
        BY <1>3, <1>4, EngineChange, OtherSide, Zenon
    <2> QED
        BY <1>1, <1>2, <2>2, <2>3, Zenon
<1>5. CASE /\ engine' = [engine EXCEPT ![s] = None]
           /\ ch' = [ch EXCEPT ![s] = [Fail(s, c) EXCEPT !.handshake_timer = TRUE]]
    <2> DEFINE f == Fail(s, c)
    <2>1. Alike(c, f)
        BY FailFacts, Zenon
    <2> HIDE DEF f
    <2>2. Alike(c, [f EXCEPT !.handshake_timer = TRUE]) /\ [f EXCEPT !.handshake_timer = TRUE].handshake_timer
        BY <2>1, Zenon DEF Alike, Channel
    <2>3. \E d \in Channel : Alike(c, d) /\ d.handshake_timer /\ ch' = [ch EXCEPT ![s] = d]
        BY <1>5, <2>2, Zenon DEF Alike, f
    <2>4. /\ engine' \in [Side -> Engine \cup {None}] /\ engine'[s] = None
          /\ engine'[Other(s)] = engine[Other(s)]
        BY <1>5, EngineChange, OtherSide, Zenon
    <2> QED
        BY <1>1, <1>2, <2>3, <2>4, Zenon
<1> QED
    BY <1>4, <1>5, Zenon DEF NewAttempt

LEMMA MsgType ==
    ASSUME NEW a \in Attempt, NEW p \in Attempt,
           NEW t \in {"punch_start", "p2p_handshake", "handshake_ack", "probe_match", "punch_confirm", "confirm_ack",
                      "confirm_ok"}
    PROVE  /\ Msg(t, a, p) \in Message /\ Msg(t, a, p).type = t /\ Msg(t, a, p).accessor = a
           /\ Msg(t, a, p).provider = p /\ Msg(t, a, p)["accessor"] = a /\ Msg(t, a, p)["provider"] = p
BY Zenon DEF Msg, Message

LEMMA MaybeStartP2pKind ==
    ASSUME TypeOK, MaybeStartP2p
    PROVE  TypeOK' /\ (Quiet \/ Begins("accessor"))
<1> DEFINE s == "accessor"
           c == [ch[s] EXCEPT !.punch_retry_pending = FALSE]
<1>0. s \in Side /\ Other(s) = "provider" /\ Other("provider") = s
    BY Zenon DEF Side, Other
<1>1. ch[s] \in Channel
    BY <1>0, Zenon DEF TypeOK
<1>2. Alike(ch[s], c)
    BY <1>1, Zenon DEF Alike, Channel
<1>3. CASE (c.closed \/ c.p2p_success) /\ ch' = [ch EXCEPT ![s] = c] /\ UNCHANGED <<engine, signal, posted, started>>
    <2>1. ch' \in [Side -> Channel] /\ ChannelsKept
        BY <1>0, <1>2, <1>3, ChannelChange, Zenon
    <2> QED
        BY <1>3, <2>1, EngineUnchanged, QueueUnchanged, QuietTypes, Zenon DEF Quiet
<1>4. CASE /\ ~(c.closed \/ c.p2p_success) /\ CanSend(s) /\ NewAttempt(s, [c EXCEPT !.my_external_port = 0])
           /\ Send(s, Msg("punch_start", 0, 0)) /\ UNCHANGED posted
    <2> DEFINE b == [c EXCEPT !.my_external_port = 0]
    <2>1. /\ b \in Channel /\ b.closed = ch[s].closed /\ b.p2p_success = ch[s].p2p_success
          /\ b.p2p_socket = ch[s].p2p_socket /\ b.peer_endpoint = ch[s].peer_endpoint /\ b.my_external_port = 0
        BY <1>2, Zenon DEF Alike, Channel, Attempt
    <2>2. /\ started' = [started EXCEPT ![s] = @ + 1] /\ started' \in [Side -> Attempt]
          /\ engine' \in [Side -> Engine \cup {None}]
          /\ engine'[s] \in {None, NewEngine(started[s] + 1)} /\ engine'[Other(s)] = engine[Other(s)]
          /\ \E d \in Channel : Alike(b, d) /\ d.handshake_timer /\ ch' = [ch EXCEPT ![s] = d]
        <3> HIDE DEF b
        <3> QED
            BY <1>0, <1>4, <2>1, NewAttemptFacts, Zenon DEF b
    <2> HIDE DEF b
    <2>3. PICK d \in Channel : Alike(b, d) /\ d.handshake_timer /\ ch' = [ch EXCEPT ![s] = d]
        BY <2>2, Zenon
    <2>4. ch' \in [Side -> Channel] /\ ChannelsKept /\ ch'[s] = d
        BY <1>0, <2>1, <2>3, ChannelMoves, Zenon DEF Alike
    <2>5. Msg("punch_start", 0, 0) \in Message /\ Msg("punch_start", 0, 0).type = "punch_start"
        BY MsgType DEF Attempt
    <2>6. Fits(Msg("punch_start", 0, 0), Other(s))
        BY <1>0, <2>5, Zenon DEF Fits, Hint
    <2>7. SignalOK /\ QueuesKept
        BY <1>0, <1>4, <2>5, <2>6, QueueSends, Zenon
    <2>8. posted[s] = <<>> /\ ~ch[s].p2p_success /\ ch'[s].my_external_port = 0
        BY <1>2, <1>4, <2>1, <2>3, <2>4, Zenon DEF MaybeStartP2p, Alike
    <2>9. posted' \in [Side -> Seq(Result)]
        BY <1>4, Zenon DEF TypeOK
    <2>10. Begins(s)
        BY <1>4, <2>2, <2>4, <2>7, <2>8, Zenon DEF Begins
    <2> QED
        BY <2>2, <2>4, <2>7, <2>9, <2>10, TypesTogether, Zenon
<1> QED
    BY <1>3, <1>4, Zenon DEF MaybeStartP2p

LEMMA PunchStartKind ==
    ASSUME TypeOK, PunchStart
    PROVE  TypeOK' /\ Begins("provider")
<1> DEFINE s == "provider"
           b == CancelHandshakeTimer(ch[s])
<1>0. s \in Side /\ s # "accessor"
    BY Zenon DEF Side
<1>1. ch[s] \in Channel
    BY <1>0, Zenon DEF TypeOK
<1>2. Alike(ch[s], b) /\ b \in Channel
    BY <1>1, CancelHandshakeTimerFacts, Zenon DEF Alike
<1> HIDE DEF b
<1>3. NewAttempt(s, b) /\ Receive(s) /\ UNCHANGED posted /\ signal[s] # <<>>
    BY Zenon DEF PunchStart, b, Arrives
<1>4. /\ started' = [started EXCEPT ![s] = @ + 1] /\ started' \in [Side -> Attempt]
      /\ engine' \in [Side -> Engine \cup {None}]
      /\ engine'[s] \in {None, NewEngine(started[s] + 1)} /\ engine'[Other(s)] = engine[Other(s)]
      /\ \E d \in Channel : Alike(b, d) /\ d.handshake_timer /\ ch' = [ch EXCEPT ![s] = d]
    BY <1>0, <1>2, <1>3, NewAttemptFacts, Zenon
<1>5. PICK d \in Channel : Alike(b, d) /\ d.handshake_timer /\ ch' = [ch EXCEPT ![s] = d]
    BY <1>4, Zenon
<1>6. ch' \in [Side -> Channel] /\ ChannelsKept
    BY <1>0, <1>2, <1>5, ChannelMoves, Zenon DEF Alike
<1>7. SignalOK /\ QueuesKept
    BY <1>0, <1>3, QueueReceives, Zenon
<1>8. posted' \in [Side -> Seq(Result)]
    BY <1>3, Zenon DEF TypeOK
<1>9. Begins(s)
    BY <1>0, <1>3, <1>4, <1>6, <1>7, Zenon DEF Begins
<1> QED
    BY <1>4, <1>6, <1>7, <1>8, <1>9, TypesTogether, Zenon

LEMMA P2pHandshakeKind ==
    ASSUME TypeOK, Numbers, P2pHandshake
    PROVE  TypeOK' /\ ByHint("accessor")
<1> DEFINE s == "accessor"
           m == Head(signal[s])
           e == OnPeerInfo(engine[s], m.provider)
           port == ch[s].my_external_port
<1>0. s \in Side /\ Other(s) = "provider" /\ Hint(s) = "p2p_handshake" /\ Other("provider") = s
    BY Zenon DEF Side, Other, Hint
<1>1. /\ signal[s] # <<>> /\ m.type = Hint(s) /\ Alive(s) /\ UNCHANGED <<ch, posted, started>>
      /\ \/ /\ port # 0 /\ CanSend(s) /\ engine' = [engine EXCEPT ![s] = StartPunchAt(e)]
            /\ Answer(s, Msg("handshake_ack", port, 0))
         \/ engine' = [engine EXCEPT ![s] = [e EXCEPT !.deferred = TRUE]] /\ Receive(s)
    BY <1>0, Zenon DEF P2pHandshake, Arrives, Alive
<1>2. m \in Message /\ engine[s] \in Engine /\ port \in Attempt /\ m.provider \in Attempt /\ 0 \in Attempt
    <2>1. signal[s] \in Seq(Message) /\ ch[s] \in Channel
        BY <1>0, Zenon DEF TypeOK
    <2>2. m \in Message
        BY <1>1, <2>1, TailElements, Zenon
    <2> QED
        BY <1>0, <1>1, <2>1, <2>2, EngineAlive, Zenon DEF Channel, Message, Attempt
<1>3. e \in Engine
    BY <1>2, OnPeerInfoFacts, Zenon
<1>4. m.provider = m[Other(s)]
    BY <1>0, Zenon
<1>5. \A x : Steered(e, x) => Steered(OnPeerInfo(engine[s], m[Other(s)]), x)
    BY <1>4, Zenon
<1> HIDE DEF e
<1>6. PICK x : Steered(e, x) /\ engine' = [engine EXCEPT ![s] = x]
    <2>1. Steered(e, StartPunchAt(e))
        BY <1>3, StartPunchAtFacts, Zenon
    <2>2. Steered(e, [e EXCEPT !.deferred = TRUE])
        BY <1>3, Zenon DEF Steered, Engine
    <2> QED
        BY <1>1, <2>1, <2>2, Zenon
<1>7. engine' \in [Side -> Engine \cup {None}] /\ engine'[s] = x /\ engine'[Other(s)] = engine[Other(s)]
    <2>1. x \in Engine
        BY <1>6, Zenon DEF Steered
    <2> QED
        BY <1>0, <1>6, <2>1, EngineChange, OtherSide, Zenon
<1>8. SignalOK /\ signal'[s] = Tail(signal[s]) /\ QueueKept(Other(s))
    <2>1. CASE port # 0 /\ CanSend(s) /\ Answer(s, Msg("handshake_ack", port, 0))
        <3> DEFINE a == Msg("handshake_ack", port, 0)
        <3>1. a \in Message /\ a.type = "handshake_ack" /\ a["accessor"] = port
            BY <1>2, MsgType
        <3>2. port = started[s]
            BY <2>1, Zenon DEF Numbers
        <3> HIDE DEF a
        <3>3. Fits(a, Other(s))
            BY <1>0, <3>1, <3>2, Zenon DEF Fits, Hint
        <3> QED
            BY <1>0, <1>1, <2>1, <3>1, <3>3, QueueAnswers, OtherSide, Zenon DEF a, QueuesKept
    <2>2. CASE Receive(s)
        BY <1>0, <1>1, <2>2, QueueReceives, OtherSide, Zenon DEF QueuesKept
    <2> QED
        BY <1>1, <2>1, <2>2, Zenon
<1>9. ByHint(s)
    BY <1>1, <1>5, <1>6, <1>7, <1>8, Zenon DEF ByHint
<1>10. TypeOK'
    BY <1>1, <1>7, <1>8, QuietTypes, Zenon DEF TypeOK
<1> QED
    BY <1>9, <1>10, Zenon

LEMMA HandshakeAckKind ==
    ASSUME TypeOK, HandshakeAck
    PROVE  TypeOK' /\ ByHint("provider")
<1> DEFINE s == "provider"
           m == Head(signal[s])
           e == OnPeerInfo(engine[s], m.accessor)
<1>0. s \in Side /\ Other(s) = "accessor" /\ Hint(s) = "handshake_ack"
    BY Zenon DEF Side, Other, Hint
<1>1. /\ signal[s] # <<>> /\ m.type = Hint(s) /\ Alive(s) /\ UNCHANGED <<ch, posted, started>>
      /\ engine' = [engine EXCEPT ![s] = StartPunchAt(e)] /\ Receive(s)
    BY <1>0, Zenon DEF HandshakeAck, Arrives, Alive, TypeOK
<1>2. m \in Message /\ engine[s] \in Engine /\ m.accessor \in Attempt
    <2>1. signal[s] \in Seq(Message)
        BY <1>0, Zenon DEF TypeOK
    <2>2. m \in Message
        BY <1>1, <2>1, TailElements, Zenon
    <2> QED
        BY <1>0, <1>1, <2>2, EngineAlive, Zenon DEF Message
<1>3. e \in Engine
    BY <1>2, OnPeerInfoFacts, Zenon
<1>4. e = OnPeerInfo(engine[s], m[Other(s)])
    BY <1>0, Zenon
<1> HIDE DEF e
<1>5. Steered(e, StartPunchAt(e)) /\ StartPunchAt(e) \in Engine
    BY <1>3, StartPunchAtFacts, Zenon DEF Steered
<1>6. engine' \in [Side -> Engine \cup {None}] /\ engine'[s] = StartPunchAt(e) /\ engine'[Other(s)] = engine[Other(s)]
    BY <1>0, <1>1, <1>5, EngineChange, OtherSide, Zenon
<1>7. SignalOK /\ signal'[s] = Tail(signal[s]) /\ QueueKept(Other(s))
    BY <1>0, <1>1, QueueReceives, OtherSide, Zenon DEF QueuesKept
<1>8. ByHint(s)
    BY <1>1, <1>4, <1>5, <1>6, <1>7, Zenon DEF ByHint
<1>9. TypeOK'
    BY <1>1, <1>6, <1>7, QuietTypes, Zenon DEF TypeOK
<1> QED
    BY <1>8, <1>9, Zenon

LEMMA ProbeArrivesKind ==
    ASSUME TypeOK, NEW s \in Side, ProbeArrives(s)
    PROVE  TypeOK' /\ ByProbe(s)
<1> DEFINE e == engine[s]
           p == engine[Other(s)]
           d == OnPeerInfo(e, p.id)
<1>1. /\ e # None /\ p # None /\ e.id \in p.targets /\ CanSend(s) /\ UNCHANGED <<ch, posted, started>>
      /\ engine' = [engine EXCEPT ![s].peer = p.id]
      /\ \/ s = "provider" /\ Send(s, Msg("probe_match", p.id, e.id))
         \/ UNCHANGED signal
    BY Zenon DEF ProbeArrives, Punching
<1>2. e \in Engine /\ p \in Engine
    BY <1>1, EngineAlive, OtherSide, Zenon DEF Alive
<1>3. e.id \in Attempt /\ p.id \in Attempt
    BY <1>2, Zenon DEF Engine
<1>4. d \in Engine /\ Steered(d, d)
    BY <1>2, <1>3, OnPeerInfoFacts, Zenon DEF Steered
<1>5. engine' = [engine EXCEPT ![s] = d]
    BY <1>1, Zenon DEF OnPeerInfo, TypeOK
<1> HIDE DEF d
<1>6. engine' \in [Side -> Engine \cup {None}] /\ engine'[s] = d /\ engine'[Other(s)] = engine[Other(s)]
    BY <1>4, <1>5, EngineChange, OtherSide, Zenon
<1>7. SignalOK /\ QueuesKept
    <2>1. CASE s = "provider" /\ Send(s, Msg("probe_match", p.id, e.id))
        <3> DEFINE a == Msg("probe_match", p.id, e.id)
        <3>1. a \in Message /\ a.type = "probe_match"
            BY <1>3, MsgType
        <3> HIDE DEF a
        <3>2. Fits(a, Other(s))
            BY <3>1, OtherSide, Zenon DEF Fits, Hint
        <3> QED
            BY <1>1, <2>1, <3>1, <3>2, QueueSends, Zenon DEF a
    <2>2. CASE UNCHANGED signal
        BY <2>2, QueueUnchanged, Zenon
    <2> QED
        BY <1>1, <2>1, <2>2, Zenon
<1>8. \A t \in Side : Alive(t)
    BY <1>1, Zenon DEF Alive, Side, Other
<1>9. ByProbe(s)
    BY <1>1, <1>4, <1>6, <1>7, <1>8, Zenon DEF ByProbe, d
<1>10. TypeOK'
    BY <1>1, <1>6, <1>7, QuietTypes, Zenon DEF TypeOK
<1> QED
    BY <1>9, <1>10, Zenon

LEMMA EchoKind ==
    ASSUME TypeOK, Numbers, NEW s \in Side, Echo(s)
    PROVE  TypeOK' /\ Quiet
<1> DEFINE e == [engine[s] EXCEPT !.probing = FALSE]
<1>1. Alive(s) /\ CanSend(s) /\ UNCHANGED <<posted, started>>
    BY Zenon DEF Echo, Alive
<1>2. engine[s] \in Engine
    BY <1>1, EngineAlive, Zenon
<1>3. Steered(engine[s], e) /\ e \in Engine
    BY <1>2, Zenon DEF Steered, Engine
<1>4. e.id = started[s] /\ e.id \in Attempt /\ 0 \in Attempt
    BY <1>1, <1>3, Zenon DEF Steered, Numbers, Engine, Attempt
<1>5. CASE s = "accessor"
    <2>1. /\ ch' = [ch EXCEPT ![s].my_external_port = e.id]
          /\ engine' = [engine EXCEPT ![s] = IF e.deferred THEN StartPunchAt(e) ELSE e]
          /\ IF e.deferred THEN Send(s, Msg("handshake_ack", e.id, 0)) ELSE UNCHANGED signal
        BY <1>5, Zenon DEF Echo
    <2> HIDE DEF e
    <2>2. SignalOK /\ QueuesKept
        <3>1. CASE Send(s, Msg("handshake_ack", e.id, 0))
            <4> DEFINE a == Msg("handshake_ack", e.id, 0)
            <4>1. a \in Message /\ a.type = "handshake_ack" /\ a["accessor"] = e.id
                BY <1>4, MsgType
            <4> HIDE DEF a
            <4>2. Fits(a, Other(s))
                BY <1>4, <1>5, <4>1, OtherSide, Zenon DEF Fits, Hint
            <4> QED
                BY <1>1, <3>1, <4>1, <4>2, QueueSends, Zenon DEF a
        <3>2. CASE UNCHANGED signal
            BY <3>2, QueueUnchanged, Zenon
        <3> QED
            BY <2>1, <3>1, <3>2, Zenon
    <2>3. Steered(e, StartPunchAt(e))
        BY <1>3, StartPunchAtFacts, Zenon
    <2>4. Steered(engine[s], IF e.deferred THEN StartPunchAt(e) ELSE e)
        BY <1>3, <2>3, Zenon DEF Steered
    <2>5. engine' \in [Side -> Engine \cup {None}] /\ EnginesKept
        BY <1>1, <2>1, <2>4, EngineSteered, Zenon
    <2>6. ch[s] \in Channel /\ ch' = [ch EXCEPT ![s] = [ch[s] EXCEPT !.my_external_port = e.id]]
        BY <2>1, Zenon DEF TypeOK
    <2> DEFINE d == [ch[s] EXCEPT !.my_external_port = e.id]
    <2>7. /\ d \in Channel /\ d.closed = ch[s].closed /\ d.p2p_success = ch[s].p2p_success
          /\ d.p2p_socket = ch[s].p2p_socket /\ d.peer_endpoint = ch[s].peer_endpoint /\ d.my_external_port = started[s]
        BY <1>4, <2>6, Zenon DEF Channel
    <2> HIDE DEF d
    <2>8. ch' \in [Side -> Channel] /\ ChannelsKept
        BY <2>6, <2>7, ChannelMoves, Zenon DEF d
    <2> QED
        BY <1>1, <2>2, <2>5, <2>8, QuietTypes, Zenon DEF Quiet
<1>6. CASE s # "accessor"
    <2>1. engine' = [engine EXCEPT ![s] = e] /\ Send(s, Msg("p2p_handshake", 0, e.id)) /\ UNCHANGED ch
        BY <1>6, Zenon DEF Echo
    <2>2. s = "provider" /\ Other(s) = "accessor"
        BY <1>6, Zenon DEF Side, Other
    <2> HIDE DEF e
    <2> DEFINE a == Msg("p2p_handshake", 0, e.id)
    <2>3. a \in Message /\ a.type = "p2p_handshake" /\ a["provider"] = e.id
        BY <1>4, MsgType
    <2> HIDE DEF a
    <2>4. Fits(a, Other(s))
        BY <1>4, <2>2, <2>3, OtherSide, Zenon DEF Fits, Hint
    <2>5. SignalOK /\ QueuesKept
        BY <1>1, <2>1, <2>3, <2>4, QueueSends, Zenon DEF a
    <2>6. engine' \in [Side -> Engine \cup {None}] /\ EnginesKept
        BY <1>1, <1>3, <2>1, EngineSteered, Zenon
    <2> QED
        BY <1>1, <2>1, <2>5, <2>6, QuietTypes, ChannelUnchanged, Zenon DEF Quiet
<1> QED
    BY <1>5, <1>6, Zenon

LEMMA OnFailedFacts ==
    ASSUME TypeOK, NEW s \in Side, OnFailed(s), UNCHANGED <<signal, posted, started>>
    PROVE  TypeOK' /\ Quiet
<1>1. ch[s] \in Channel /\ ch' = [ch EXCEPT ![s] = Fail(s, ch[s])] /\ engine' = [engine EXCEPT ![s] = None]
    BY Zenon DEF TypeOK, OnFailed
<1>2. ch' \in [Side -> Channel] /\ ChannelsKept
    BY <1>1, FailFacts, ChannelChange, Zenon
<1>3. engine' \in [Side -> Engine \cup {None}] /\ EnginesKept
    BY <1>1, EngineSteered, Zenon
<1> QED
    BY <1>2, <1>3, QueueUnchanged, QuietTypes, Zenon DEF Quiet

LEMMA ProbeGivesUpKind ==
    ASSUME TypeOK, NEW s \in Side, ProbeGivesUp(s) PROVE TypeOK' /\ Quiet
BY OnFailedFacts, Zenon DEF ProbeGivesUp

LEMMA OnlySteered ==
    ASSUME TypeOK, NEW s \in Side, NEW x, Alive(s), Steered(engine[s], x), engine' = [engine EXCEPT ![s] = x],
           UNCHANGED <<ch, signal, posted, started>>
    PROVE  TypeOK' /\ Quiet
<1>1. engine' \in [Side -> Engine \cup {None}] /\ EnginesKept
    BY EngineSteered, Zenon
<1> QED
    BY <1>1, ChannelUnchanged, QueueUnchanged, QuietTypes, Zenon DEF Quiet

LEMMA DeadlineKind ==
    ASSUME TypeOK, NEW s \in Side, Deadline(s) PROVE TypeOK' /\ Quiet
<1>1. Alive(s) /\ engine' = [engine EXCEPT ![s] = StartUdpPunch(engine[s])] /\ UNCHANGED <<ch, signal, posted, started>>
    BY Zenon DEF Deadline, Alive, TypeOK
<1>2. Steered(engine[s], StartUdpPunch(engine[s]))
    BY <1>1, EngineAlive, StartUdpPunchFacts, Zenon
<1> QED
    BY <1>1, <1>2, OnlySteered, Zenon

LEMMA RoundEndsKind ==
    ASSUME TypeOK, NEW s \in Side, RoundEnds(s) PROVE TypeOK' /\ Quiet
<1>1. Alive(s) /\ UNCHANGED <<signal, posted, started>>
    BY Zenon DEF RoundEnds, Punching, Alive
<1>2. CASE OnFailed(s)
    BY <1>1, <1>2, OnFailedFacts, Zenon
<1>3. CASE ~(engine[s].round + 1 >= kPunchMaxRounds)
    <2> DEFINE d == [engine[s] EXCEPT !.round = @ + 1]
    <2>1. engine[s] \in Engine
        BY <1>1, EngineAlive, Zenon
    <2>2. engine[s].round + 1 \in 0..kPunchMaxRounds
        BY <1>3, <2>1, ChannelAssumption DEF Engine
    <2>3. Steered(engine[s], d) /\ d \in Engine
        BY <2>1, <2>2, Zenon DEF Steered, Engine
    <2>4. engine' = [engine EXCEPT ![s] = DoPunchRound(d)] /\ UNCHANGED ch
        BY <1>3, Zenon DEF RoundEnds
    <2> HIDE DEF d
    <2>5. Steered(d, DoPunchRound(d))
        BY <2>3, DoPunchRoundFacts, Zenon
    <2>6. Steered(engine[s], DoPunchRound(d))
        BY <2>3, <2>5, Zenon DEF Steered
    <2> QED
        BY <1>1, <2>4, <2>6, OnlySteered, Zenon
<1> QED
    BY <1>2, <1>3, Zenon DEF RoundEnds

LEMMA ConfirmKind ==
    ASSUME TypeOK, NEW s \in Side, NEW type,
           NEW reply \in {"punch_confirm", "confirm_ack"}, Confirm(s, type, reply)
    PROVE  TypeOK' /\ Quiet
<1> DEFINE m == Head(signal[s])
<1>1. signal[s] # <<>> /\ Alive(s) /\ CanSend(s) /\ UNCHANGED <<ch, posted, started>>
    BY Zenon DEF Confirm, Arrives, Alive
<1>2. CASE Receive(s) /\ UNCHANGED engine
    BY <1>1, <1>2, QueueReceives, ChannelUnchanged, EngineUnchanged, QuietTypes, Zenon DEF Quiet
<1>3. CASE engine' = [engine EXCEPT ![s] = StopPunching(engine[s])] /\ Answer(s, [m EXCEPT !.type = reply])
    <2>1. engine' \in [Side -> Engine \cup {None}] /\ EnginesKept
        BY <1>1, <1>3, EngineAlive, StopPunchingFacts, EngineSteered, Zenon
    <2>2. m \in Message
        BY <1>1, TailElements, Zenon DEF TypeOK
    <2> DEFINE a == [m EXCEPT !.type = reply]
    <2>3. a \in Message /\ a.type = reply
        <3> HIDE DEF m
        <3> QED
            BY <2>2, Zenon DEF Message
    <2> HIDE DEF a
    <2>4. Fits(a, Other(s))
        BY <2>3, Zenon DEF Fits, Hint
    <2>5. SignalOK /\ QueuesKept
        BY <1>1, <1>3, <2>3, <2>4, QueueAnswers, Zenon DEF a
    <2> QED
        BY <1>1, <2>1, <2>5, ChannelUnchanged, QuietTypes, Zenon DEF Quiet
<1>4. \/ Receive(s) /\ UNCHANGED engine
      \/ engine' = [engine EXCEPT ![s] = StopPunching(@)] /\ Answer(s, [m EXCEPT !.type = reply])
    BY Zenon DEF Confirm
<1> QED
    BY <1>2, <1>3, <1>4, Zenon

LEMMA DeliveredFacts ==
    ASSUME TypeOK, NEW s \in Side, Delivered(s), Alive(s), posted[s] = <<>>
    PROVE  /\ engine' \in [Side -> Engine \cup {None}] /\ engine'[Other(s)] = engine[Other(s)]
           /\ engine'[s] \in Engine /\ engine'[s].id = engine[s].id /\ engine'[s].peer = engine[s].peer
           /\ engine'[s].targets \subseteq engine[s].targets \cup {engine[s].peer} /\ engine'[s].result_delivered
           /\ posted' = [posted EXCEPT ![s] = <<[socket |-> engine[s].id, peer |-> engine[s].peer]>>]
           /\ posted' \in [Side -> Seq(Result)]
<1>1. engine[s] \in Engine
    BY EngineAlive, Zenon
<1> DEFINE e == StopPunching(engine[s])
           d == [e EXCEPT !.result_delivered = TRUE]
           r == [socket |-> engine[s].id, peer |-> engine[s].peer]
<1>2. Steered(engine[s], e)
    BY <1>1, StopPunchingFacts, Zenon
<1>3. engine' = [engine EXCEPT ![s] = d]
    BY Zenon DEF Delivered
<1> HIDE DEF e
<1>4. d \in Engine /\ d.id = e.id /\ d.peer = e.peer /\ d.targets = e.targets /\ d.result_delivered
    BY <1>2, Zenon DEF Steered, Engine
<1> HIDE DEF d
<1>5. engine' \in [Side -> Engine \cup {None}] /\ engine'[s] = d /\ engine'[Other(s)] = engine[Other(s)]
    BY <1>3, <1>4, EngineChange, OtherSide, Zenon
<1>6. r \in Result
    BY <1>1, Zenon DEF Engine, Result
<1>7. posted' = [posted EXCEPT ![s] = Append(posted[s], r)]
    BY Zenon DEF Delivered
<1>8. Append(posted[s], r) = <<r>>
    <2> HIDE DEF r
    <2> QED
        OBVIOUS
<1>9. posted' = [posted EXCEPT ![s] = <<r>>]
    BY <1>7, <1>8, Zenon
<1>10. posted' \in [Side -> Seq(Result)]
    <2> HIDE DEF r
    <2>1. <<r>> \in Seq(Result)
        BY <1>6
    <2> QED
        BY <1>9, <2>1, Zenon DEF TypeOK
<1> QED
    BY <1>2, <1>4, <1>5, <1>9, <1>10, Zenon DEF Steered

LEMMA ConfirmAckKind ==
    ASSUME TypeOK, ConfirmAck
    PROVE  TypeOK' /\ (Quiet \/ Delivers("accessor"))
<1> DEFINE s == "accessor"
           m == Head(signal[s])
<1>0. s \in Side
    BY Zenon DEF Side
<1>1. /\ signal[s] # <<>> /\ m.type = "confirm_ack" /\ posted[s] = <<>> /\ Alive(s) /\ CanSend(s)
      /\ UNCHANGED <<ch, started>>
    BY Zenon DEF ConfirmAck, Arrives, Alive
<1>2. CASE Receive(s) /\ UNCHANGED <<engine, posted>>
    BY <1>0, <1>1, <1>2, QueueReceives, ChannelUnchanged, EngineUnchanged, QuietTypes, Zenon DEF Quiet
<1>3. CASE /\ IsValidProbePair(engine[s], s, m) /\ ~engine[s].result_delivered
           /\ Delivered(s) /\ Answer(s, [m EXCEPT !.type = "confirm_ok"])
    <2>1. m \in Message
        BY <1>0, <1>1, TailElements, Zenon DEF TypeOK
    <2> DEFINE a == [m EXCEPT !.type = "confirm_ok"]
    <2>2. a \in Message
        <3> HIDE DEF m
        <3> QED
            BY <2>1, Zenon DEF Message
    <2> HIDE DEF a
    <2>3. SignalOK /\ signal'[s] = Tail(signal[s]) /\ signal'[Other(s)] = Append(signal[Other(s)], a)
        BY <1>0, <1>1, <1>3, <2>2, QueueAnswers, Zenon DEF a
    <2>4. /\ engine' \in [Side -> Engine \cup {None}] /\ engine'[Other(s)] = engine[Other(s)]
          /\ engine'[s] \in Engine /\ engine'[s].id = engine[s].id /\ engine'[s].peer = engine[s].peer
          /\ engine'[s].targets \subseteq engine[s].targets \cup {engine[s].peer} /\ engine'[s].result_delivered
          /\ posted' = [posted EXCEPT ![s] = <<[socket |-> engine[s].id, peer |-> engine[s].peer]>>]
          /\ posted' \in [Side -> Seq(Result)]
        BY <1>0, <1>1, <1>3, DeliveredFacts, Zenon
    <2>5. Delivers(s)
        BY <1>1, <1>3, <2>3, <2>4, Zenon DEF Delivers, IsValidProbePair, a
    <2>6. ch' \in [Side -> Channel] /\ started' \in [Side -> Attempt]
        BY <1>1, Zenon DEF TypeOK
    <2> QED
        BY <2>3, <2>4, <2>5, <2>6, TypesTogether, Zenon
<1> QED
    BY <1>2, <1>3, Zenon DEF ConfirmAck

LEMMA ConfirmOkKind ==
    ASSUME TypeOK, ConfirmOk
    PROVE  TypeOK' /\ (Quiet \/ Delivers("provider"))
<1> DEFINE s == "provider"
           m == Head(signal[s])
<1>0. s \in Side /\ s # "accessor"
    BY Zenon DEF Side
<1>1. /\ signal[s] # <<>> /\ m.type = "confirm_ok" /\ posted[s] = <<>> /\ Alive(s) /\ Receive(s)
      /\ UNCHANGED <<ch, started>>
    BY Zenon DEF ConfirmOk, Arrives, Alive
<1>2. CASE UNCHANGED <<engine, posted>>
    BY <1>0, <1>1, <1>2, QueueReceives, ChannelUnchanged, EngineUnchanged, QuietTypes, Zenon DEF Quiet
<1>3. CASE IsValidProbePair(engine[s], s, m) /\ ~engine[s].result_delivered /\ Delivered(s)
    <2>1. SignalOK /\ signal'[s] = Tail(signal[s]) /\ signal'[Other(s)] = signal[Other(s)]
        BY <1>0, <1>1, QueueReceives, Zenon
    <2>2. /\ engine' \in [Side -> Engine \cup {None}] /\ engine'[Other(s)] = engine[Other(s)]
          /\ engine'[s] \in Engine /\ engine'[s].id = engine[s].id /\ engine'[s].peer = engine[s].peer
          /\ engine'[s].targets \subseteq engine[s].targets \cup {engine[s].peer} /\ engine'[s].result_delivered
          /\ posted' = [posted EXCEPT ![s] = <<[socket |-> engine[s].id, peer |-> engine[s].peer]>>]
          /\ posted' \in [Side -> Seq(Result)]
        BY <1>0, <1>1, <1>3, DeliveredFacts, Zenon
    <2>3. Delivers(s)
        BY <1>0, <1>1, <1>3, <2>1, <2>2, Zenon DEF Delivers, IsValidProbePair
    <2>4. ch' \in [Side -> Channel] /\ started' \in [Side -> Attempt]
        BY <1>1, Zenon DEF TypeOK
    <2> QED
        BY <2>1, <2>2, <2>3, <2>4, TypesTogether, Zenon
<1> QED
    BY <1>2, <1>3, Zenon DEF ConfirmOk

LEMMA DropKind ==
    ASSUME TypeOK, NEW s \in Side, Drop(s) PROVE TypeOK' /\ Quiet
BY QueueReceives, ChannelUnchanged, EngineUnchanged, QuietTypes, Zenon DEF Quiet, Drop

LEMMA SuccessKind ==
    ASSUME TypeOK, Once, NEW s \in Side, Success(s)
    PROVE  TypeOK' /\ Accepts(s)
<1> DEFINE r == Head(posted[s])
           up == CancelHandshakeTimer([AcceptP2p(ch[s], r) EXCEPT !.p2p_success = TRUE])
           d == IF s = "accessor" THEN ResetPunchRetry(up) ELSE up
<1>1. /\ posted[s] # <<>> /\ ch' = [ch EXCEPT ![s] = d] /\ posted' = [posted EXCEPT ![s] = Tail(@)]
      /\ UNCHANGED <<engine, signal, started>>
    BY Zenon DEF Success
<1>2. posted[s] \in Seq(Result) /\ ch[s] \in Channel /\ ch \in [Side -> Channel] /\ posted \in [Side -> Seq(Result)]
    BY Zenon DEF TypeOK
<1>3. r \in Result /\ r = posted[s][1] /\ Tail(posted[s]) \in Seq(Result)
    BY <1>1, <1>2
<1>4. ~ch[s].p2p_success
    BY <1>1, Zenon DEF Once
<1> HIDE DEF r
<1>5. /\ d \in Channel /\ d.closed = ch[s].closed /\ d.p2p_success /\ d.p2p_socket = r.socket
      /\ d.peer_endpoint = r.peer /\ d.my_external_port = ch[s].my_external_port
    <2>1. d \in {up, ResetPunchRetry(up)}
        BY Zenon
    <2> QED
        BY <1>2, <1>3, <1>4, <2>1, UpFacts, Zenon
<1> HIDE DEF d
<1>6. ch' \in [Side -> Channel] /\ ch'[s] = d /\ ch'[Other(s)] = ch[Other(s)]
    BY <1>1, <1>2, <1>5, OtherSide, Zenon
<1>7. Accepts(s)
    BY <1>1, <1>3, <1>5, <1>6, Zenon DEF Accepts
<1>8. posted' \in [Side -> Seq(Result)]
    BY <1>1, <1>2, <1>3, Zenon
<1> QED
    BY <1>1, <1>6, <1>7, <1>8, TypesTogether, QueueUnchanged, EngineUnchanged, Zenon DEF TypeOK

LEMMA HandshakeExpiresKind ==
    ASSUME TypeOK, NEW s \in Side, HandshakeExpires(s) PROVE TypeOK' /\ Quiet
<1> DEFINE d == [ch[s] EXCEPT !.handshake_timer = FALSE, !.timed_out = TRUE]
<1>1. ch[s] \in Channel
    BY Zenon DEF TypeOK
<1>2. ch' = [ch EXCEPT ![s] = d] /\ UNCHANGED <<engine, signal, posted, started>>
    BY Zenon DEF HandshakeExpires, TypeOK
<1>3. Alike(ch[s], d)
    BY <1>1, Zenon DEF Alike, Channel
<1> HIDE DEF d
<1> QED
    BY <1>2, <1>3, ChannelChange, EngineUnchanged, QueueUnchanged, QuietTypes, Zenon DEF Quiet

LEMMA HandshakeTimeoutKind ==
    ASSUME TypeOK, NEW s \in Side, HandshakeTimeout(s) PROVE TypeOK' /\ Quiet
<1> DEFINE c == [ch[s] EXCEPT !.timed_out = FALSE]
<1>1. ch[s] \in Channel
    BY Zenon DEF TypeOK
<1>2. Alike(ch[s], c) /\ c \in Channel
    BY <1>1, Zenon DEF Alike, Channel
<1>3. /\ UNCHANGED <<signal, posted, started>>
      /\ \/ ch' = [ch EXCEPT ![s] = c] /\ UNCHANGED engine
         \/ /\ engine' = [engine EXCEPT ![s] = None]
            /\ ch' = [ch EXCEPT ![s] = IF s = "accessor" THEN SchedulePunchRetry(c) ELSE c]
    BY Zenon DEF HandshakeTimeout
<1> HIDE DEF c
<1>4. Alike(c, SchedulePunchRetry(c))
    BY <1>2, SchedulePunchRetryFacts, Zenon
<1>5. Alike(ch[s], SchedulePunchRetry(c))
    BY <1>2, <1>4, Zenon DEF Alike
<1>6. PICK d : Alike(ch[s], d) /\ ch' = [ch EXCEPT ![s] = d]
    BY <1>2, <1>3, <1>5, Zenon
<1>7. ch' \in [Side -> Channel] /\ ChannelsKept
    BY <1>6, ChannelChange, Zenon
<1>8. engine' \in [Side -> Engine \cup {None}] /\ EnginesKept
    BY <1>3, EngineUnchanged, EngineSteered, Zenon
<1> QED
    BY <1>3, <1>7, <1>8, QueueUnchanged, QuietTypes, Zenon DEF Quiet

LEMMA CloseKind ==
    ASSUME TypeOK, NEW s \in Side, Close(s) PROVE TypeOK' /\ Quiet
<1>1. /\ ch' = [ch EXCEPT ![s] = Closed(ch[s])] /\ engine' = [engine EXCEPT ![s] = None]
      /\ UNCHANGED <<signal, posted, started>>
    BY Zenon DEF Close
<1> QED
    BY <1>1, ChannelCloses, EngineSteered, QueueUnchanged, QuietTypes, Zenon DEF Quiet

LEMMA TcpReleasedKind ==
    ASSUME TypeOK, NEW s \in Side, TcpReleased(s) PROVE TypeOK' /\ Quiet
<1>1. CASE Close(s)
    BY <1>1, CloseKind, Zenon
<1>2. CASE ch' = [ch EXCEPT ![s].tcp = FALSE] /\ UNCHANGED <<engine, signal, posted, started>>
    <2> DEFINE d == [ch[s] EXCEPT !.tcp = FALSE]
    <2>1. ch[s] \in Channel
        BY Zenon DEF TypeOK
    <2>2. ch' = [ch EXCEPT ![s] = d]
        BY <1>2, Zenon DEF TypeOK
    <2>3. Alike(ch[s], d)
        BY <2>1, Zenon DEF Alike, Channel
    <2> HIDE DEF d
    <2> QED
        BY <1>2, <2>2, <2>3, ChannelChange, EngineUnchanged, QueueUnchanged, QuietTypes, Zenon DEF Quiet
<1> QED
    BY <1>1, <1>2, Zenon DEF TcpReleased

LEMMA DatagramKind ==
    ASSUME TypeOK, NEW s \in Side, Datagram(s) PROVE TypeOK' /\ Relearns(s)
<1> DEFINE x == ch[Other(s)].p2p_socket
           d == [ch[s] EXCEPT !.peer_endpoint = x]
<1>1. ch \in [Side -> Channel] /\ ch[s] \in Channel /\ x \in Attempt
    BY OtherSide, Zenon DEF TypeOK, Channel
<1>2. /\ ch' = [ch EXCEPT ![s] = d] /\ UNCHANGED <<engine, signal, posted, started>>
      /\ ch[s].p2p_socket # 0 /\ x # 0
    BY <1>1, Zenon DEF Datagram
<1> HIDE DEF x
<1>3. /\ d \in Channel /\ d.closed = ch[s].closed /\ d.p2p_success = ch[s].p2p_success
      /\ d.p2p_socket = ch[s].p2p_socket /\ d.my_external_port = ch[s].my_external_port /\ d.peer_endpoint = x
    BY <1>1, Zenon DEF Channel
<1> HIDE DEF d
<1>4. ch' \in [Side -> Channel] /\ ch'[s] = d /\ ch'[Other(s)] = ch[Other(s)]
    BY <1>1, <1>2, <1>3, OtherSide, Zenon
<1>5. \A t \in Side : t = s \/ t = Other(s)
    BY DEF Side, Other
<1>6. Relearns(s)
    BY <1>2, <1>3, <1>4, <1>5, Zenon DEF Relearns, x
<1> QED
    BY <1>2, <1>4, <1>6, QueueUnchanged, EngineUnchanged, QuietTypes, Zenon

(* Every step is of one of these kinds.                                     *)
Kind ==
    \/ Quiet
    \/ \E s \in Side : ByHint(s) \/ ByProbe(s) \/ Begins(s) \/ Delivers(s) \/ Accepts(s) \/ Relearns(s)

LEMMA NextKind ==
    ASSUME TypeOK, Numbers, Once, [Next]_vars
    PROVE  TypeOK' /\ Kind
<1>0. "accessor" \in Side /\ "provider" \in Side
    BY Zenon DEF Side
<1>1. CASE \/ MaybeStartP2p \/ PunchStart \/ P2pHandshake \/ HandshakeAck \/ ConfirmAck \/ ConfirmOk
    BY <1>0, <1>1, MaybeStartP2pKind, PunchStartKind, P2pHandshakeKind, HandshakeAckKind, ConfirmAckKind, ConfirmOkKind,
       Zenon DEF Kind
<1>2. CASE Confirm("accessor", "probe_match", "punch_confirm") \/ Confirm("provider", "punch_confirm", "confirm_ack")
    BY <1>0, <1>2, ConfirmKind, Zenon DEF Kind
<1>3. ASSUME NEW s \in Side,
             \/ Echo(s) \/ ProbeGivesUp(s) \/ Deadline(s) \/ RoundEnds(s) \/ Drop(s)
             \/ HandshakeExpires(s) \/ HandshakeTimeout(s) \/ TcpReleased(s) \/ Close(s) \/ Dead(s)
      PROVE  TypeOK' /\ Kind
    BY <1>3, EchoKind, ProbeGivesUpKind, DeadlineKind, RoundEndsKind, DropKind, HandshakeExpiresKind,
       HandshakeTimeoutKind, TcpReleasedKind, CloseKind, Zenon DEF Kind, Dead
<1>4. ASSUME NEW s \in Side, ProbeArrives(s) \/ Success(s) \/ Datagram(s)
      PROVE  TypeOK' /\ Kind
    BY <1>4, ProbeArrivesKind, SuccessKind, DatagramKind, Zenon DEF Kind
<1>5. CASE UNCHANGED vars
    BY <1>5, QueueUnchanged, ChannelUnchanged, EngineUnchanged, QuietTypes, Zenon DEF Quiet, vars, Kind
<1> QED
    BY <1>1, <1>2, <1>3, <1>4, <1>5, Zenon DEF Next

-----------------------------------------------------------------------------
(* The inductive invariant.                                                 *)

(* The end s may aim at the last attempt of the other one; it does so for   *)
(* good when no older hint is under way.                                    *)
Knows(s) == started[Other(s)] \in engine[s].targets \cup {engine[s].peer}
Certain(s) == Alive(s) /\ engine[s].peer = started[Other(s)] /\ Only(signal[s], s, started[Other(s)])

(* When a probe can reach an engine, one end is certain.                    *)
OneIsCertain == (\A s \in Side : Alive(s)) /\ (\E s \in Side : Knows(s)) => \E s \in Side : Certain(s)

(* At most one confirm_ok is under way, after the accessor's result and     *)
(* before the provider's.  If the provider's attempt is still the one it    *)
(* names, then that end is certain or the accessor's result meets it.       *)
Oks(q) == {i \in 1..Len(q) : q[i].type = "confirm_ok"}
OneOk(q) == \A i, j \in Oks(q) : i = j
OkHolds(m) ==
    /\ Done("accessor") /\ ~Done("provider")
    /\ m.accessor = started["accessor"] /\ m.provider <= started["provider"]
    /\ ~ch["accessor"].closed /\ Alive("provider") /\ m.provider = started["provider"] =>
          Certain("provider") \/ Res("accessor").peer = started["provider"]
OkFollows == OneOk(signal["provider"]) /\ \A i \in Oks(signal["provider"]) : OkHolds(signal["provider"][i])

(* One of two results names the socket of the other.                        *)
Met == (\A s \in Side : Done(s) /\ ~ch[s].closed) => \E s \in Side : Res(s).peer = Res(Other(s)).socket

Inv == TypeOK /\ Numbers /\ OneIsCertain /\ Once /\ OkFollows /\ Met

(* What most steps leave of the parts of the invariant.                     *)
HintsKept(s) ==
    /\ UpTo(signal'[s], s, started[Other(s)]) /\ InTurn(signal'[s], s)
    /\ Only(signal[s], s, started[Other(s)]) => Only(signal'[s], s, started[Other(s)])

EngineSame(s) ==
    \/ engine'[s] = None
    \/ /\ Alive(s) /\ engine'[s].id = engine[s].id /\ engine'[s].peer = engine[s].peer
       /\ engine'[s].targets \subseteq engine[s].targets \cup {engine[s].peer}
       /\ engine[s].result_delivered => engine'[s].result_delivered

ResultKept(s) ==
    /\ (posted[s] # <<>> \/ ch[s].p2p_success) <=> (posted'[s] # <<>> \/ ch'[s].p2p_success)
    /\ Len(posted'[s]) <= 1 /\ (posted'[s] # <<>> => ~ch'[s].p2p_success)
    /\ ch'[s].p2p_socket # 0 => ch'[s].p2p_success
    /\ ~ch'[s].closed => ~ch[s].closed /\ Res(s)'.socket = Res(s).socket /\ Res(s)'.peer = Res(s).peer

LEMMA Kept ==
    ASSUME TypeOK, Numbers, NEW s \in Side
    PROVE  /\ QueueKept(s) => HintsKept(s)
           /\ signal[s] # <<>> /\ signal'[s] = Tail(signal[s]) => HintsKept(s)
           /\ EngineKept(s) => EngineSame(s)
<1> DEFINE q == signal[s]
           n == started[Other(s)]
<1>1. q \in Seq(Message) /\ n \in Nat
    BY OtherSide, Zenon DEF TypeOK, Attempt
<1>2. UpTo(q, s, n) /\ InTurn(q, s)
    BY Zenon DEF Numbers
<1>3. q # <<>> /\ signal'[s] = Tail(q) => HintsKept(s)
    BY <1>1, <1>2, TailHints, Zenon DEF HintsKept
<1>4. ASSUME NEW m, Fits(m, s), signal'[s] = Append(q, m) PROVE HintsKept(s)
    BY <1>1, <1>2, <1>4, AppendHints, Zenon DEF HintsKept, Fits
<1>5. signal'[s] = q => HintsKept(s)
    BY <1>2, Zenon DEF HintsKept
<1>6. EngineKept(s) => EngineSame(s)
    BY Zenon DEF EngineKept, EngineSame, Steered
<1> QED
    BY <1>3, <1>4, <1>5, <1>6, Zenon DEF QueueKept

LEMMA KeptResults ==
    ASSUME Once, NEW s \in Side, ChannelKept(s), UNCHANGED posted
    PROVE  ResultKept(s)
BY Zenon DEF Once, ChannelKept, ResultKept, Res

LEMMA EngineSteady ==
    ASSUME TypeOK, NEW s \in Side, engine'[s] = engine[s] PROVE EngineSame(s)
BY EngineAlive, Zenon DEF EngineSame, Alive

LEMMA DeliversHints ==
    ASSUME TypeOK, Numbers, NEW s \in Side, Delivers(s)
    PROVE  \A t \in Side : HintsKept(t) /\ EngineSame(t)
<1> DEFINE m == Head(signal[s])
           a == [m EXCEPT !.type = "confirm_ok"]
<1>0. \A t \in Side : t = s \/ t = Other(s)
    BY DEF Side, Other
<1>1. HintsKept(s) /\ EngineSame(s)
    BY Kept, Zenon DEF Delivers, EngineSame
<1>2. EngineSame(Other(s))
    BY EngineSteady, OtherSide, Zenon DEF Delivers
<1>3. signal[s] \in Seq(Message) /\ signal[s] # <<>> /\ signal[Other(s)] \in Seq(Message) /\ started[s] \in Nat
    BY OtherSide, Zenon DEF Delivers, TypeOK, Attempt
<1>4. m \in Message
    BY <1>3, TailElements, Zenon
<1>5. a \in Message /\ a.type = "confirm_ok"
    <2> HIDE DEF m
    <2> QED
        BY <1>4, Zenon DEF Message
<1>6. signal'[Other(s)] = Append(signal[Other(s)], a) \/ signal'[Other(s)] = signal[Other(s)]
    BY Zenon DEF Delivers
<1> HIDE DEF a, m
<1>7. UpTo(signal[Other(s)], Other(s), started[s]) /\ InTurn(signal[Other(s)], Other(s))
    BY OtherSide, Zenon DEF Numbers
<1>8. CASE signal'[Other(s)] = signal[Other(s)]
    BY <1>0, <1>1, <1>2, <1>7, <1>8, OtherSide, Zenon DEF HintsKept
<1>9. CASE signal'[Other(s)] = Append(signal[Other(s)], a)
    <2>1. a.type # Hint(Other(s))
        BY <1>5, Zenon DEF Hint
    <2>2. HintsKept(Other(s))
        BY <1>3, <1>5, <1>7, <1>9, <2>1, AppendHints, OtherSide DEF HintsKept
    <2> QED
        BY <1>0, <1>1, <1>2, <2>2, Zenon
<1> QED
    BY <1>6, <1>8, <1>9, Zenon

(* What a step of each kind does to an engine and its hints, in the terms   *)
(* of the invariant.                                                        *)
LEMMA HintMoves ==
    ASSUME TypeOK, Numbers, NEW s \in Side, ByHint(s)
    PROVE  LET v == Head(signal[s])[Other(s)]
               n == started[Other(s)]
           IN  /\ Alive(s) /\ engine'[s] # None /\ engine'[s].id = engine[s].id /\ engine'[s].peer = v
               /\ engine'[s].targets \subseteq engine[s].targets \cup {v}
               /\ engine'[s].result_delivered = engine[s].result_delivered
               /\ EngineSame(Other(s)) /\ HintsKept(s) /\ HintsKept(Other(s))
               /\ v <= n /\ (v = n => Only(signal'[s], s, n)) /\ (Only(signal[s], s, n) => v = n)
<1> DEFINE v == Head(signal[s])[Other(s)]
           n == started[Other(s)]
           e == OnPeerInfo(engine[s], v)
<1>1. signal[s] \in Seq(Message) /\ signal[s] # <<>> /\ n \in Nat /\ Head(signal[s]).type = Hint(s)
    BY OtherSide, Zenon DEF ByHint, TypeOK, Attempt
<1>2. Head(signal[s]) \in Message /\ Head(signal[s]) = signal[s][1] /\ 1 \in 1..Len(signal[s])
    BY <1>1, TailElements, Zenon
<1>3. v \in Attempt
    BY <1>2, PortType, OtherSide, Zenon DEF Attempt
<1>4. engine[s] \in Engine
    BY EngineAlive, Zenon DEF ByHint
<1>5. /\ e \in Engine /\ e.id = engine[s].id /\ e.peer = v
      /\ e.targets = engine[s].targets /\ e.result_delivered = engine[s].result_delivered
    BY <1>3, <1>4, OnPeerInfoFacts, Zenon
<1>6. Steered(e, engine'[s])
    BY Zenon DEF ByHint
<1>7. engine'[s] # None
    BY <1>6, NoneApart, Zenon DEF Steered
<1>8. /\ engine'[s].id = engine[s].id /\ engine'[s].peer = v
      /\ engine'[s].targets \subseteq engine[s].targets \cup {v}
      /\ engine'[s].result_delivered = engine[s].result_delivered
    <2> HIDE DEF e
    <2> QED
        BY <1>5, <1>6, Zenon DEF Steered
<1>9. EngineSame(Other(s)) /\ HintsKept(s) /\ HintsKept(Other(s))
    BY <1>1, Kept, EngineSteady, OtherSide, Zenon DEF ByHint
<1>10. v <= n /\ (v = n => Only(signal'[s], s, n))
    BY <1>1, HintIsLeast, Zenon DEF ByHint, Numbers
<1>11. Only(signal[s], s, n) => v = n
    BY <1>1, <1>2, Zenon DEF Only
<1> QED
    BY <1>7, <1>8, <1>9, <1>10, <1>11, Zenon DEF ByHint

LEMMA ProbeMoves ==
    ASSUME TypeOK, Numbers, NEW s \in Side, ByProbe(s)
    PROVE  /\ engine'[s] # None /\ engine'[s].id = engine[s].id /\ engine'[s].peer = started[Other(s)]
           /\ engine'[s].targets \subseteq engine[s].targets \cup {started[Other(s)]}
           /\ engine'[s].result_delivered = engine[s].result_delivered
           /\ EngineSame(Other(s)) /\ HintsKept(s) /\ HintsKept(Other(s)) /\ Knows(Other(s))
<1> DEFINE v == engine[Other(s)].id
           e == OnPeerInfo(engine[s], v)
<1>1. engine[s] \in Engine /\ v = started[Other(s)] /\ v \in Attempt /\ engine[s].id = started[s]
    BY EngineAlive, OtherSide, Zenon DEF ByProbe, Numbers, Engine
<1>2. /\ e \in Engine /\ e.id = engine[s].id /\ e.peer = v
      /\ e.targets = engine[s].targets /\ e.result_delivered = engine[s].result_delivered
    BY <1>1, OnPeerInfoFacts, Zenon
<1>3. Steered(e, engine'[s])
    BY Zenon DEF ByProbe
<1>4. engine'[s] # None
    BY <1>3, NoneApart, Zenon DEF Steered
<1>5. /\ engine'[s].id = engine[s].id /\ engine'[s].peer = v
      /\ engine'[s].targets \subseteq engine[s].targets \cup {v}
      /\ engine'[s].result_delivered = engine[s].result_delivered
    <2> HIDE DEF e
    <2> QED
        BY <1>2, <1>3, Zenon DEF Steered
<1>6. EngineSame(Other(s)) /\ HintsKept(s) /\ HintsKept(Other(s))
    BY Kept, EngineSteady, OtherSide, Zenon DEF ByProbe, QueuesKept
<1>7. Knows(Other(s))
    BY <1>1, OtherSide, Zenon DEF ByProbe, Knows
<1> QED
    BY <1>1, <1>4, <1>5, <1>6, <1>7, Zenon

LEMMA BeginMoves ==
    ASSUME TypeOK, Numbers, NEW s \in Side, Begins(s)
    PROVE  /\ started'[s] = started[s] + 1 /\ started'[Other(s)] = started[Other(s)]
           /\ engine'[s] = None \/ (engine'[s].id = started[s] + 1 /\ engine'[s].peer = 0 /\ engine'[s].targets = {})
           /\ EngineSame(Other(s)) /\ HintsKept(s) /\ HintsKept(Other(s))
<1>1. started \in [Side -> Nat]
    BY Zenon DEF TypeOK, Attempt
<1>2. started'[s] = started[s] + 1 /\ started'[Other(s)] = started[Other(s)]
    BY <1>1, OtherSide, Zenon DEF Begins
<1>3. engine'[s] = None \/ (engine'[s].id = started[s] + 1 /\ engine'[s].peer = 0 /\ engine'[s].targets = {})
    BY <1>1, NewEngineFacts DEF Begins
<1>4. EngineSame(Other(s)) /\ HintsKept(s) /\ HintsKept(Other(s))
    BY Kept, EngineSteady, OtherSide, Zenon DEF Begins, QueuesKept
<1> QED
    BY <1>2, <1>3, <1>4, Zenon

(* The steps that leave every engine and every hint what they are.          *)
LEMMA SteadySteps ==
    ASSUME TypeOK, Numbers, NEW s \in Side, Quiet \/ Delivers(s) \/ Accepts(s) \/ Relearns(s)
    PROVE  UNCHANGED started /\ \A t \in Side : HintsKept(t) /\ EngineSame(t)
<1>1. CASE Quiet
    BY <1>1, Kept, Zenon DEF Quiet, QueuesKept, EnginesKept
<1>2. CASE Delivers(s)
    BY <1>2, DeliversHints, Zenon DEF Delivers
<1>3. CASE Accepts(s) \/ Relearns(s)
    <2>1. UNCHANGED <<engine, signal, started>>
        BY <1>3, Zenon DEF Accepts, Relearns
    <2>2. \A t \in Side : QueueKept(t)
        BY <2>1, Zenon DEF QueueKept
    <2> QED
        BY <2>1, <2>2, Kept, EngineSteady, Zenon
<1> QED
    BY <1>1, <1>2, <1>3, Zenon

(* Numbers, for one end and without its port.                               *)
Bounded(s) ==
    /\ Alive(s) => /\ engine[s].id = started[s]
                   /\ \A x \in engine[s].targets \cup {engine[s].peer} : x <= started[Other(s)]
    /\ UpTo(signal[s], s, started[Other(s)]) /\ InTurn(signal[s], s)

LEMMA NumbersParts ==
    Numbers <=> (\A s \in Side : Bounded(s)) /\ ch["accessor"].my_external_port \in {0, started["accessor"]}
BY Zenon DEF Numbers, Bounded

LEMMA BoundedSame ==
    ASSUME TypeOK, NEW s \in Side, Bounded(s), EngineSame(s), HintsKept(s), started'[s] = started[s],
           started'[Other(s)] = started[Other(s)]
    PROVE  Bounded(s)'
<1>1. Alive(s)' => Alive(s) /\ engine'[s].id = engine[s].id /\ engine'[s].peer = engine[s].peer
                   /\ engine'[s].targets \subseteq engine[s].targets \cup {engine[s].peer}
    BY Zenon DEF Alive, EngineSame
<1> QED
    BY <1>1, Zenon DEF Bounded, HintsKept, Alive

LEMMA Later ==
    ASSUME NEW q \in Seq(Message), NEW s \in Side, NEW n \in Nat, UpTo(q, s, n)
    PROVE  UpTo(q, s, n + 1)
<1> SUFFICES ASSUME NEW i \in 1..Len(q), q[i].type = Hint(s) PROVE q[i][Other(s)] <= n + 1
    BY Zenon DEF UpTo
<1>1. q[i][Other(s)] <= n
    BY Zenon DEF UpTo
<1>2. q[i] \in Message
    OBVIOUS
<1>3. q[i][Other(s)] \in Nat
    BY <1>2, PortType, OtherSide, Zenon
<1> QED
    BY <1>1, <1>3

LEMMA BoundedStep ==
    ASSUME TypeOK, TypeOK', Numbers, Kind, NEW t \in Side
    PROVE  Bounded(t)'
<1>0. \A s \in Side : Bounded(s) /\ (t = s \/ t = Other(s)) /\ Other(s) \in Side /\ Other(Other(s)) = s /\ Other(s) # s
    BY NumbersParts, OtherSide, Zenon DEF Side, Other
<1>1. started \in [Side -> Nat] /\ \A s \in Side : Alive(s) => engine[s].targets \subseteq Nat /\ engine[s].peer \in Nat
    BY EngineAlive, Zenon DEF TypeOK, Attempt, Engine
<1>2. CASE Quiet \/ \E s \in Side : Delivers(s) \/ Accepts(s) \/ Relearns(s)
    BY <1>0, <1>2, SteadySteps, BoundedSame, Zenon
<1>3. ASSUME NEW s \in Side, ByHint(s) PROVE Bounded(t)'
    <2> DEFINE v == Head(signal[s])[Other(s)]
    <2>1. /\ Alive(s) /\ engine'[s] # None /\ engine'[s].id = engine[s].id /\ engine'[s].peer = v
          /\ engine'[s].targets \subseteq engine[s].targets \cup {v}
          /\ EngineSame(Other(s)) /\ HintsKept(s) /\ HintsKept(Other(s)) /\ v <= started[Other(s)]
        BY <1>3, HintMoves, Zenon
    <2> HIDE DEF v
    <2>2. UNCHANGED started
        BY <1>3, Zenon DEF ByHint
    <2>3. Bounded(s)'
        BY <1>0, <2>1, <2>2, Zenon DEF Bounded, HintsKept, Alive
    <2>4. Bounded(Other(s))'
        BY <1>0, <2>1, <2>2, BoundedSame, Zenon
    <2> QED
        BY <1>0, <2>3, <2>4, Zenon
<1>4. ASSUME NEW s \in Side, ByProbe(s) PROVE Bounded(t)'
    <2>1. /\ engine'[s] # None /\ engine'[s].id = engine[s].id /\ engine'[s].peer = started[Other(s)]
          /\ engine'[s].targets \subseteq engine[s].targets \cup {started[Other(s)]} /\ Alive(s)
          /\ EngineSame(Other(s)) /\ HintsKept(s) /\ HintsKept(Other(s))
        BY <1>4, ProbeMoves, Zenon DEF ByProbe
    <2>2. UNCHANGED started /\ started[Other(s)] <= started[Other(s)]
        BY <1>0, <1>1, <1>4 DEF ByProbe
    <2>3. Bounded(s)'
        BY <1>0, <2>1, <2>2, Zenon DEF Bounded, HintsKept, Alive
    <2>4. Bounded(Other(s))'
        BY <1>0, <2>1, <2>2, BoundedSame, Zenon
    <2> QED
        BY <1>0, <2>3, <2>4, Zenon
<1>5. ASSUME NEW s \in Side, Begins(s) PROVE Bounded(t)'
    <2> DEFINE o == Other(s)
    <2>1. /\ started'[s] = started[s] + 1 /\ started'[o] = started[o]
          /\ engine'[s] = None \/ (engine'[s].id = started[s] + 1 /\ engine'[s].peer = 0 /\ engine'[s].targets = {})
          /\ EngineSame(o) /\ HintsKept(s) /\ HintsKept(o)
        BY <1>5, BeginMoves, Zenon
    <2>2. started[s] \in Nat /\ started[o] \in Nat /\ 0 <= started[o]
        BY <1>0, <1>1
    <2>3. Bounded(s)'
        BY <1>0, <2>1, <2>2, Zenon DEF Bounded, HintsKept, Alive
    <2>4. UpTo(signal'[o], o, started'[s]) /\ InTurn(signal'[o], o)
        <3>1. signal'[o] \in Seq(Message)
            BY <1>0, Zenon DEF TypeOK
        <3> QED
            BY <1>0, <2>1, <2>2, <3>1, Later, Zenon DEF HintsKept
    <2>5. ASSUME engine'[o] # None, NEW x \in engine'[o].targets \cup {engine'[o].peer} PROVE x <= started'[s]
        <3>1. Alive(o) /\ x \in engine[o].targets \cup {engine[o].peer}
            BY <2>1, <2>5, Zenon DEF EngineSame
        <3>2. x \in Nat /\ x <= started[s]
            BY <1>0, <1>1, <3>1, Zenon DEF Bounded
        <3> QED
            BY <2>1, <2>2, <3>2
    <2>6. engine'[o] # None => engine'[o].id = started'[o]
        BY <1>0, <2>1, Zenon DEF EngineSame, Bounded
    <2>7. Bounded(o)'
        BY <1>0, <2>4, <2>5, <2>6, Zenon DEF Bounded, Alive
    <2> QED
        BY <1>0, <2>3, <2>7, Zenon
<1> QED
    BY <1>2, <1>3, <1>4, <1>5, Zenon DEF Kind

LEMMA PortStep ==
    ASSUME TypeOK, Numbers, Kind
    PROVE  ch'["accessor"].my_external_port \in {0, started'["accessor"]}
<1> DEFINE a == "accessor"
           port == ch[a].my_external_port
<1>0. port \in {0, started[a]} /\ a \in Side /\ Other(a) \in Side /\ Other("provider") = a
    BY OtherSide, Zenon DEF Numbers, Side, Other
<1>1. CASE Quiet \/ \E s \in Side : ByHint(s) \/ ByProbe(s) \/ Delivers(s) \/ Relearns(s)
    <2>1. started' = started
        BY <1>1, Zenon DEF Quiet, ByHint, ByProbe, Delivers, Relearns
    <2>2. ch'[a].my_external_port \in {port, started[a], 0}
        BY <1>0, <1>1, Zenon DEF Quiet, ChannelsKept, ChannelKept, ByHint, ByProbe, Delivers, Relearns
    <2> QED
        BY <1>0, <2>1, <2>2, Zenon
<1>2. ASSUME NEW s \in Side, Accepts(s) PROVE ch'[a].my_external_port \in {0, started'[a]}
    <2>1. a = s \/ a = Other(s)
        BY Zenon DEF Side, Other
    <2> QED
        BY <1>0, <1>2, <2>1, Zenon DEF Accepts
<1>3. ASSUME NEW s \in Side, Begins(s) PROVE ch'[a].my_external_port \in {0, started'[a]}
    <2>1. CASE s = a
        BY <1>3, <2>1, Zenon DEF Begins
    <2>2. CASE s # a
        <3>1. s = "provider"
            BY <2>2, Zenon DEF Side
        <3>2. started'[a] = started[a]
            BY <1>0, <1>3, <3>1, Zenon DEF Begins, TypeOK
        <3> QED
            BY <1>0, <1>3, <3>2, Zenon DEF Begins, ChannelsKept, ChannelKept
    <2> QED
        BY <2>1, <2>2, Zenon
<1> QED
    BY <1>1, <1>2, <1>3, Zenon DEF Kind

LEMMA NumbersStep == ASSUME TypeOK, TypeOK', Numbers, Kind PROVE Numbers'
<1>1. \A t \in Side : Bounded(t)'
    BY BoundedStep, Zenon
<1> QED
    BY <1>1, PortStep, Zenon DEF Numbers, Bounded

LEMMA CertainSame ==
    ASSUME NEW s \in Side, EngineSame(s), HintsKept(s), UNCHANGED started
    PROVE  /\ engine'[s] # None /\ Certain(s) => Certain(s)'
           /\ engine'[s] # None => Alive(s) /\ (Knows(s)' => Knows(s))
BY Zenon DEF EngineSame, HintsKept, Certain, Knows, Alive

LEMMA OneIsCertainStep == ASSUME TypeOK, Numbers, OneIsCertain, Kind PROVE OneIsCertain'
<1> SUFFICES ASSUME \A s \in Side : engine'[s] # None, NEW k \in Side, Knows(k)'
             PROVE  \E s \in Side : Certain(s)'
    BY Zenon DEF OneIsCertain, Alive
<1>0. \A s, t \in Side : (t = s \/ t = Other(s)) /\ Other(s) \in Side /\ Other(Other(s)) = s /\ Other(s) # s
    BY Zenon DEF Side, Other
<1>1. ASSUME Quiet \/ \E s \in Side : Delivers(s) \/ Accepts(s) \/ Relearns(s)
      PROVE  \E s \in Side : Certain(s)'
    <2>1. UNCHANGED started /\ \A t \in Side : HintsKept(t) /\ EngineSame(t)
        BY <1>1, SteadySteps, Zenon
    <2>2. \A t \in Side : Alive(t) /\ (Knows(t)' => Knows(t)) /\ (Certain(t) => Certain(t)')
        BY <2>1, CertainSame, Zenon
    <2> QED
        BY <2>2, Zenon DEF OneIsCertain
<1>2. ASSUME NEW s \in Side, ByHint(s) PROVE \E u \in Side : Certain(u)'
    <2> DEFINE v == Head(signal[s])[Other(s)]
               n == started[Other(s)]
    <2>1. /\ Alive(s) /\ engine'[s].peer = v /\ engine'[s].targets \subseteq engine[s].targets \cup {v}
          /\ EngineSame(Other(s)) /\ HintsKept(s) /\ HintsKept(Other(s))
          /\ (v = n => Only(signal'[s], s, n)) /\ (Only(signal[s], s, n) => v = n)
        BY <1>2, HintMoves, Zenon
    <2> HIDE DEF v
    <2>2. UNCHANGED started
        BY <1>2, Zenon DEF ByHint
    <2>3. CASE v = n
        BY <2>1, <2>2, <2>3, Zenon DEF Certain, Alive
    <2>4. CASE v # n
        <3>1. ~Certain(s)
            BY <2>1, <2>4, Zenon DEF Certain
        <3>2. /\ Alive(Other(s)) /\ (Knows(Other(s))' => Knows(Other(s)))
              /\ Certain(Other(s)) => Certain(Other(s))'
            BY <1>0, <2>1, <2>2, CertainSame, Zenon
        <3>3. Knows(s)' => Knows(s)
            BY <2>1, <2>2, <2>4, Zenon DEF Knows
        <3>4. \A t \in Side : Alive(t)
            BY <1>0, <2>1, <3>2, Zenon
        <3>5. Knows(k)
            BY <1>0, <3>2, <3>3, Zenon
        <3>6. \E u \in Side : Certain(u)
            BY <3>4, <3>5, Zenon DEF OneIsCertain
        <3>7. Certain(Other(s))
            BY <1>0, <3>1, <3>6, Zenon
        <3> QED
            BY <1>0, <3>2, <3>7, Zenon
    <2> QED
        BY <2>3, <2>4, Zenon
<1>3. ASSUME NEW s \in Side, ByProbe(s) PROVE \E u \in Side : Certain(u)'
    <2>1. /\ engine'[s].peer = started[Other(s)] /\ UNCHANGED started
          /\ EngineSame(Other(s)) /\ HintsKept(s) /\ HintsKept(Other(s)) /\ Knows(Other(s)) /\ \A t \in Side : Alive(t)
        BY <1>3, ProbeMoves, Zenon DEF ByProbe
    <2>2. PICK u \in Side : Certain(u)
        BY <1>0, <2>1, Zenon DEF OneIsCertain
    <2>3. CASE u = Other(s)
        BY <1>0, <2>1, <2>2, <2>3, CertainSame, Zenon
    <2>4. CASE u = s
        BY <2>1, <2>2, <2>4, Zenon DEF Certain, HintsKept, Alive
    <2> QED
        BY <1>0, <2>3, <2>4, Zenon
<1>4. ASSUME NEW s \in Side, Begins(s) PROVE FALSE
    <2> DEFINE o == Other(s)
    <2>1. /\ started'[s] = started[s] + 1 /\ started'[o] = started[o]
          /\ engine'[s].id = started[s] + 1 /\ engine'[s].peer = 0 /\ engine'[s].targets = {}
          /\ EngineSame(o)
        BY <1>4, BeginMoves, Zenon
    <2>2. Alive(o) /\ engine'[o].targets \cup {engine'[o].peer} \subseteq engine[o].targets \cup {engine[o].peer}
        BY <1>0, <2>1, Zenon DEF EngineSame
    <2>3. engine[o] \in Engine /\ engine[o].id = started[o] /\ started[s] \in Nat
        BY <1>0, <2>2, EngineAlive, Zenon DEF Numbers, TypeOK, Attempt
    <2>4. started[o] # 0
        BY <2>3, Zenon DEF Engine
    <2>5. ~Knows(s)'
        BY <2>1, <2>4, Zenon DEF Knows
    <2>6. \A x \in engine[o].targets \cup {engine[o].peer} : x <= started[s]
        BY <1>0, <2>2, Zenon DEF Numbers
    <2>7. ~(started[s] + 1 <= started[s])
        BY <2>3
    <2>8. ~Knows(o)'
        BY <1>0, <2>1, <2>2, <2>6, <2>7, Zenon DEF Knows
    <2> QED
        BY <1>0, <2>5, <2>8, Zenon
<1> QED
    BY <1>1, <1>2, <1>3, <1>4, Zenon DEF Kind

LEMMA Stays == ASSUME Once, NEW s \in Side, UNCHANGED <<ch, posted>> PROVE ResultKept(s)
BY Zenon DEF Once, ResultKept, Res

(* The callback moves the result and leaves it what it is.                  *)
LEMMA AcceptKeeps ==
    ASSUME TypeOK, Once, NEW s \in Side, Accepts(s)
    PROVE  \A t \in Side : ResultKept(t)
<1>1. posted \in [Side -> Seq(Result)] /\ posted[s] # <<>> /\ Len(posted[s]) <= 1 /\ ~ch[s].p2p_success
    BY Zenon DEF TypeOK, Accepts, Once
<1>2. posted'[s] = <<>> /\ posted'[Other(s)] = posted[Other(s)]
    <2>1. Tail(posted[s]) = <<>>
        BY <1>1
    <2> QED
        BY <1>1, <2>1, OtherSide, Zenon DEF Accepts
<1>3. Len(posted'[s]) <= 1
    BY <1>2
<1>4. ResultKept(s)
    BY <1>1, <1>2, <1>3, Zenon DEF Accepts, ResultKept, Res
<1>5. ResultKept(Other(s))
    BY <1>2, OtherSide DEF Accepts, ResultKept, Res, Once
<1>6. \A t \in Side : t = s \/ t = Other(s)
    BY DEF Side, Other
<1> QED
    BY <1>4, <1>5, <1>6, Zenon

(* The steps of an engine that delivers.                                    *)
LEMMA DeliverMoves ==
    ASSUME TypeOK, Numbers, Once, NEW s \in Side, Delivers(s), ~Done(s)
    PROVE  /\ Done(s)' /\ Len(posted'[s]) <= 1 /\ (posted'[s] # <<>> => ~ch'[s].p2p_success)
           /\ Res(s)'.socket = started[s] /\ Res(s)'.peer = engine[s].peer
           /\ ResultKept(Other(s)) /\ UNCHANGED <<ch, started>> /\ engine'[s].result_delivered
<1> DEFINE r == [socket |-> engine[s].id, peer |-> engine[s].peer]
<1>1. posted' = [posted EXCEPT ![s] = <<r>>] /\ UNCHANGED <<ch, started>> /\ Alive(s) /\ engine'[s].result_delivered
    BY Zenon DEF Delivers
<1>2. posted'[s] = <<r>> /\ posted'[Other(s)] = posted[Other(s)]
    BY <1>1, OtherSide, Zenon DEF TypeOK
<1>3. <<r>> # <<>> /\ Len(<<r>>) <= 1 /\ <<r>>[1] = r
    <2> HIDE DEF r
    <2> QED
        OBVIOUS
<1>4. r.socket = started[s] /\ r.peer = engine[s].peer
    BY <1>1, Zenon DEF Numbers
<1> HIDE DEF r
<1>5. Res(s)' = r
    BY <1>2, <1>3, ZenonT(40) DEF Res
<1>6. ResultKept(Other(s))
    BY <1>1, <1>2, OtherSide DEF ResultKept, Res, Once
<1> QED
    BY <1>1, <1>2, <1>3, <1>4, <1>5, <1>6, Zenon DEF Done

LEMMA OnceSame ==
    ASSUME Once, \A t \in Side : ResultKept(t), started'["accessor"] = started["accessor"],
           \/ engine'["accessor"] = None
           \/ /\ Alive("accessor")
              /\ engine["accessor"].result_delivered => engine'["accessor"].result_delivered
    PROVE  Once'
<1>0. "accessor" \in Side /\ "provider" \in Side
    BY Zenon DEF Side
<1>1. \A t \in Side : /\ Len(posted'[t]) <= 1 /\ (posted'[t] # <<>> => ~ch'[t].p2p_success)
                      /\ ch'[t].p2p_socket # 0 => ch'[t].p2p_success
                      /\ Done(t) <=> Done(t)'
                      /\ ~ch'[t].closed => ~ch[t].closed /\ Res(t)'.socket = Res(t).socket
    BY Zenon DEF ResultKept, Done
<1>2. Done("accessor")' /\ Alive("accessor")' => engine'["accessor"].result_delivered
    BY <1>0, <1>1, Zenon DEF Once, Alive
<1>3. Done("accessor")' /\ ~ch'["accessor"].closed => Res("accessor")'.socket = started'["accessor"]
    BY <1>0, <1>1, Zenon DEF Once
<1>4. Done("provider")' => Done("accessor")'
    BY <1>0, <1>1, Zenon DEF Once
<1> QED
    BY <1>1, <1>2, <1>3, <1>4, Zenon DEF Once

(* The kinds of steps that leave the results what they are.                 *)
LEMMA ResultsStay ==
    ASSUME TypeOK, Once, NEW s \in Side, Quiet \/ ByHint(s) \/ ByProbe(s) \/ Begins(s) \/ Accepts(s)
    PROVE  \A t \in Side : ResultKept(t)
<1>1. CASE Quiet \/ Begins(s)
    BY <1>1, KeptResults, Zenon DEF Quiet, Begins, ChannelsKept
<1>2. CASE ByHint(s) \/ ByProbe(s)
    BY <1>2, Stays, Zenon DEF ByHint, ByProbe
<1>3. CASE Accepts(s)
    BY <1>3, AcceptKeeps, Zenon
<1> QED
    BY <1>1, <1>2, <1>3, Zenon

(* The provider delivers after a confirm_ok.                                *)
LEMMA HeadIsOk ==
    ASSUME TypeOK, OkFollows, Delivers("provider")
    PROVE  OkHolds(Head(signal["provider"])) /\ 1 \in Oks(signal["provider"])
<1> DEFINE q == signal["provider"]
<1>1. q \in Seq(Message) /\ q # <<>> /\ Head(q).type = "confirm_ok"
    BY Zenon DEF TypeOK, Side, Delivers
<1>2. Head(q) = q[1] /\ 1 \in 1..Len(q)
    BY <1>1, TailElements, Zenon
<1>3. 1 \in Oks(q)
    BY <1>1, <1>2, Zenon DEF Oks
<1> QED
    BY <1>2, <1>3, Zenon DEF OkFollows

LEMMA RelearnMoves ==
    ASSUME TypeOK, Once, NEW s \in Side, Relearns(s)
    PROVE  /\ \A t \in Side : /\ Done(t) /\ Done(t)' /\ posted[t] = <<>> /\ posted'[t] = <<>>
                              /\ Res(t)'.socket = ch[t].p2p_socket /\ Res(t).socket = ch[t].p2p_socket
           /\ Res(s)'.peer = Res(Other(s))'.socket
<1>1. \A t \in Side : posted[t] = <<>> /\ ch[t].p2p_success /\ posted'[t] = <<>> /\ ch'[t].p2p_success
    BY Zenon DEF Relearns, Once
<1>2. \A t \in Side : ch'[t].p2p_socket = ch[t].p2p_socket
    BY Zenon DEF Relearns
<1>3. ch'[s].peer_endpoint = ch[Other(s)].p2p_socket
    BY Zenon DEF Relearns
<1> QED
    BY <1>1, <1>2, <1>3, OtherSide, Zenon DEF Done, Res

LEMMA OnceStep == ASSUME TypeOK, Numbers, Once, OkFollows, Kind PROVE Once'
<1> DEFINE a == "accessor"
           p == "provider"
<1>0. a \in Side /\ p \in Side /\ Other(a) = p /\ Other(p) = a /\ \A t \in Side : t = a \/ t = p
    BY Zenon DEF Side, Other
<1>1. ASSUME NEW s \in Side, Quiet \/ ByHint(s) \/ ByProbe(s) \/ Accepts(s) \/ Begins(p) PROVE Once'
    <2>1. \A t \in Side : ResultKept(t)
        BY <1>0, <1>1, ResultsStay, Zenon
    <2>2. started'[a] = started[a]
        BY <1>0, <1>1, BeginMoves, Zenon DEF Quiet, ByHint, ByProbe, Accepts
    <2>3. EngineSame(a) \/ (Alive(a) /\ engine'[a].result_delivered = engine[a].result_delivered)
        <3>1. a = s \/ a = Other(s)
            BY Zenon DEF Side, Other
        <3> QED
            BY <1>0, <1>1, <3>1, SteadySteps, HintMoves, ProbeMoves, BeginMoves, Zenon DEF ByProbe
    <2> QED
        BY <2>1, <2>2, <2>3, OnceSame, Zenon DEF EngineSame
<1>2. ASSUME Begins(a) PROVE Once'
    <2>1. \A t \in Side : ResultKept(t)
        BY <1>0, <1>2, ResultsStay, Zenon
    <2>2. ~Done(a) /\ ~Done(p)
        BY <1>2, Zenon DEF Begins, Done, Once
    <2>3. ~Done(a)' /\ ~Done(p)'
        BY <1>0, <2>1, <2>2, Zenon DEF ResultKept, Done
    <2> QED
        BY <2>1, <2>3, Zenon DEF Once, ResultKept
<1>3. ASSUME Delivers(a) PROVE Once'
    <2>1. ~Done(a)
        BY <1>3, Zenon DEF Delivers, Once
    <2>2. /\ Done(a)' /\ Len(posted'[a]) <= 1 /\ (posted'[a] # <<>> => ~ch'[a].p2p_success)
          /\ Res(a)'.socket = started[a]
          /\ ResultKept(p) /\ UNCHANGED <<ch, started>> /\ engine'[a].result_delivered
        BY <1>0, <1>3, <2>1, DeliverMoves, Zenon
    <2> QED
        BY <1>0, <2>2, Zenon DEF Once, ResultKept
<1>4. ASSUME Delivers(p) PROVE Once'
    <2>1. ~Done(p) /\ Done(a)
        BY <1>4, HeadIsOk, Zenon DEF OkHolds
    <2>2. /\ Done(p)' /\ Len(posted'[p]) <= 1 /\ (posted'[p] # <<>> => ~ch'[p].p2p_success)
          /\ ResultKept(a) /\ UNCHANGED <<ch, started>>
        BY <1>0, <1>4, <2>1, DeliverMoves, Zenon
    <2>3. engine'[a] = engine[a]
        BY <1>0, <1>4, Zenon DEF Delivers
    <2>4. Done(a)'
        BY <2>1, <2>2, Zenon DEF ResultKept, Done
    <2>5. \A t \in Side : /\ Len(posted'[t]) <= 1 /\ (posted'[t] # <<>> => ~ch'[t].p2p_success)
                          /\ ch'[t].p2p_socket # 0 => ch'[t].p2p_success
        BY <1>0, <2>2, Zenon DEF ResultKept, Once
    <2>6. Alive(a)' => engine'[a].result_delivered
        BY <2>1, <2>3, Zenon DEF Once, Alive
    <2>7. ~ch'[a].closed => Res(a)'.socket = started'[a]
        BY <2>1, <2>2, Zenon DEF Once, ResultKept
    <2> QED
        BY <2>4, <2>5, <2>6, <2>7, Zenon DEF Once
<1>5. ASSUME NEW s \in Side, Relearns(s) PROVE Once'
    <2>1. \A t \in Side : /\ Done(t) /\ Done(t)' /\ posted'[t] = posted[t]
                          /\ Res(t)'.socket = Res(t).socket
        BY <1>5, RelearnMoves, Zenon
    <2>2. /\ UNCHANGED <<engine, started>>
          /\ \A t \in Side : /\ ch'[t].closed = ch[t].closed /\ ch'[t].p2p_success = ch[t].p2p_success
                             /\ ch'[t].p2p_socket = ch[t].p2p_socket
        BY <1>5, Zenon DEF Relearns
    <2> QED
        BY <1>0, <2>1, <2>2, Zenon DEF Once, Alive
<1> QED
    BY <1>0, <1>1, <1>2, <1>3, <1>4, <1>5, Zenon DEF Kind

(* The confirm_ok messages of a queue.                                      *)
LEMMA TailOks ==
    ASSUME NEW q \in Seq(Message), q # <<>>, OneOk(q)
    PROVE  /\ OneOk(Tail(q)) /\ \A i \in Oks(Tail(q)) : \E k \in Oks(q) : Tail(q)[i] = q[k]
           /\ 1 \in Oks(q) => Oks(Tail(q)) = {}
<1>1. \A i \in Oks(Tail(q)) : i \in Nat /\ i >= 1 /\ i + 1 \in Oks(q) /\ Tail(q)[i] = q[i + 1]
    <2> TAKE i \in Oks(Tail(q))
    <2>1. i \in 1..Len(Tail(q)) /\ Tail(q)[i].type = "confirm_ok"
        BY Zenon DEF Oks
    <2>2. i + 1 \in 1..Len(q) /\ Tail(q)[i] = q[i + 1]
        BY <2>1, TailElements, Zenon
    <2> QED
        BY <2>1, <2>2 DEF Oks
<1>2. OneOk(Tail(q))
    <2> SUFFICES ASSUME NEW i \in Oks(Tail(q)), NEW j \in Oks(Tail(q)) PROVE i = j
        BY Zenon DEF OneOk
    <2>1. i \in Nat /\ j \in Nat /\ i + 1 \in Oks(q) /\ j + 1 \in Oks(q)
        BY <1>1, Zenon
    <2>2. i + 1 = j + 1
        BY <2>1, Zenon DEF OneOk
    <2> QED
        BY <2>1, <2>2
<1>3. ASSUME 1 \in Oks(q) PROVE Oks(Tail(q)) = {}
    <2> SUFFICES ASSUME NEW i \in Oks(Tail(q)) PROVE FALSE
        BY Zenon
    <2>1. i \in Nat /\ i >= 1 /\ i + 1 \in Oks(q)
        BY <1>1, Zenon
    <2>2. i + 1 = 1
        BY <1>3, <2>1, Zenon DEF OneOk
    <2> QED
        BY <2>1, <2>2
<1> QED
    BY <1>1, <1>2, <1>3, Zenon

LEMMA AppendOks ==
    ASSUME NEW q \in Seq(Message), NEW m \in Message
    PROVE  /\ m.type # "confirm_ok" /\ OneOk(q) =>
                 OneOk(Append(q, m)) /\ \A i \in Oks(Append(q, m)) : \E k \in Oks(q) : Append(q, m)[i] = q[k]
           /\ Oks(q) = {} => OneOk(Append(q, m)) /\ \A i \in Oks(Append(q, m)) : Append(q, m)[i] = m
<1> DEFINE r == Append(q, m)
<1>1. \A i \in Oks(r) : (i \in Oks(q) /\ r[i] = q[i]) \/ (i = Len(q) + 1 /\ r[i] = m /\ m.type = "confirm_ok")
    <2> TAKE i \in Oks(r)
    <2>1. i \in 1..Len(r) /\ r[i].type = "confirm_ok"
        BY Zenon DEF Oks
    <2>2. (i \in 1..Len(q) /\ r[i] = q[i]) \/ (i = Len(q) + 1 /\ r[i] = m)
        BY <2>1, AppendElements, Zenon
    <2> HIDE DEF r
    <2> QED
        BY <2>1, <2>2, Zenon DEF Oks
<1> HIDE DEF r
<1>2. ASSUME m.type # "confirm_ok", OneOk(q)
      PROVE  OneOk(r) /\ \A i \in Oks(r) : \E k \in Oks(q) : r[i] = q[k]
    BY <1>1, <1>2, Zenon DEF OneOk
<1>3. ASSUME Oks(q) = {} PROVE OneOk(r) /\ \A i \in Oks(r) : r[i] = m
    BY <1>1, <1>3, Zenon DEF OneOk
<1> QED
    BY <1>2, <1>3, Zenon DEF r

LEMMA KeptOks ==
    ASSUME TypeOK, OkFollows,
           QueueKept("provider") \/ (signal["provider"] # <<>> /\ signal'["provider"] = Tail(signal["provider"]))
    PROVE  /\ OneOk(signal'["provider"])
           /\ \A i \in Oks(signal'["provider"]) :
                 \E k \in Oks(signal["provider"]) : signal'["provider"][i] = signal["provider"][k]
<1> DEFINE q == signal["provider"]
           r == signal'["provider"]
<1>1. q \in Seq(Message) /\ OneOk(q)
    BY Zenon DEF TypeOK, Side, OkFollows
<1>2. CASE q # <<>> /\ r = Tail(q)
    <2> HIDE DEF q, r
    <2>1. OneOk(Tail(q)) /\ \A i \in Oks(Tail(q)) : \E k \in Oks(q) : Tail(q)[i] = q[k]
        BY <1>1, <1>2, TailOks, Zenon
    <2>2. OneOk(r) /\ \A i \in Oks(r) : \E k \in Oks(q) : r[i] = q[k]
        BY <1>2, <2>1, Zenon
    <2> QED
        BY <2>2, Zenon DEF q, r
<1>3. ASSUME NEW m, Fits(m, "provider"), r = Append(q, m)
      PROVE  OneOk(r) /\ \A i \in Oks(r) : \E k \in Oks(q) : r[i] = q[k]
    <2> HIDE DEF q, r
    <2>1. OneOk(Append(q, m)) /\ \A i \in Oks(Append(q, m)) : \E k \in Oks(q) : Append(q, m)[i] = q[k]
        BY <1>1, <1>3, AppendOks, Zenon DEF Fits
    <2> QED
        BY <1>3, <2>1, Zenon
<1>4. CASE r = q
    BY <1>1, <1>4, Zenon
<1> QED
    BY <1>2, <1>3, <1>4, Zenon DEF QueueKept

(* What holds of a confirm_ok goes on to hold while the results stay, and   *)
(* the end that is certain stays so or gets a new attempt.                  *)
LEMMA OkSame ==
    ASSUME TypeOK, OkFollows, \A t \in Side : ResultKept(t),
           QueueKept("provider") \/ (signal["provider"] # <<>> /\ signal'["provider"] = Tail(signal["provider"])),
           started' = started,
           engine'["provider"] # None => Alive("provider"),
           engine'["provider"] # None /\ Certain("provider") => Certain("provider")'
    PROVE  OkFollows'
<1> DEFINE q == signal["provider"]
           r == signal'["provider"]
<1>0. "accessor" \in Side /\ "provider" \in Side
    BY Zenon DEF Side
<1>1. OneOk(r) /\ \A i \in Oks(r) : \E k \in Oks(q) : r[i] = q[k]
    BY KeptOks, Zenon
<1>2. ASSUME NEW m, OkHolds(m) PROVE OkHolds(m)'
    <2>1. Done("accessor")' /\ ~Done("provider")'
        BY <1>0, <1>2, Zenon DEF OkHolds, ResultKept, Done
    <2>2. ASSUME ~ch'["accessor"].closed, Alive("provider")', m.provider = started'["provider"]
          PROVE  Certain("provider")' \/ Res("accessor")'.peer = started'["provider"]
        <3>1. ~ch["accessor"].closed /\ Res("accessor")'.peer = Res("accessor").peer
            BY <1>0, <2>2, Zenon DEF ResultKept
        <3> QED
            BY <1>2, <2>2, <3>1, Zenon DEF OkHolds, Alive
    <2> QED
        BY <1>2, <2>1, <2>2, Zenon DEF OkHolds
<1>3. ASSUME NEW i \in Oks(r) PROVE OkHolds(signal["provider"][i])'
    <2>1. PICK k \in Oks(q) : r[i] = q[k]
        BY <1>1, Zenon
    <2>2. PICK m : m = q[k]
        BY Zenon
    <2>3. OkHolds(m)
        BY <2>2, Zenon DEF OkFollows
    <2>4. OkHolds(m)'
        BY <1>2, <2>3, Zenon
    <2> QED
        BY <2>1, <2>2, <2>4, Zenon DEF OkHolds
<1> QED
    BY <1>1, <1>3, Zenon DEF OkFollows

LEMMA OkFollowsStep ==
    ASSUME TypeOK, Numbers, OneIsCertain, Once, OkFollows, Kind
    PROVE  OkFollows'
<1> DEFINE a == "accessor"
           p == "provider"
           q == signal[p]
           r == signal'[p]
<1>0. a \in Side /\ p \in Side /\ Other(a) = p /\ Other(p) = a /\ \A t \in Side : t = a \/ t = p
    BY Zenon DEF Side, Other
<1>1. q \in Seq(Message) /\ started \in [Side -> Nat] /\ OneOk(q)
    BY <1>0, Zenon DEF TypeOK, Attempt, OkFollows
<1>2. ASSUME NEW s \in Side, Quiet \/ Accepts(s) PROVE OkFollows'
    <2>1. \A t \in Side : ResultKept(t)
        BY <1>2, ResultsStay, Zenon
    <2>2. UNCHANGED started /\ HintsKept(p) /\ EngineSame(p)
        BY <1>0, <1>2, SteadySteps, Zenon
    <2>3. QueueKept(p)
        BY <1>0, <1>2, Zenon DEF Quiet, QueuesKept, Accepts, QueueKept
    <2>4. engine'[p] # None => Alive(p) /\ (Certain(p) => Certain(p)')
        BY <1>0, <2>2, CertainSame, Zenon
    <2> QED
        BY <2>1, <2>2, <2>3, <2>4, OkSame, Zenon
<1>3. ASSUME ByHint(a) PROVE OkFollows'
    <2>1. \A t \in Side : ResultKept(t)
        BY <1>0, <1>3, ResultsStay, Zenon
    <2>2. EngineSame(p) /\ HintsKept(p) /\ UNCHANGED started /\ QueueKept(p)
        BY <1>0, <1>3, HintMoves, Zenon DEF ByHint
    <2>3. engine'[p] # None => Alive(p) /\ (Certain(p) => Certain(p)')
        BY <1>0, <2>2, CertainSame, Zenon
    <2> QED
        BY <2>1, <2>2, <2>3, OkSame, Zenon
<1>4. ASSUME ByHint(p) PROVE OkFollows'
    <2> DEFINE v == Head(signal[p])[Other(p)]
    <2>1. \A t \in Side : ResultKept(t)
        BY <1>0, <1>4, ResultsStay, Zenon
    <2>2. /\ Alive(p) /\ engine'[p].peer = v /\ HintsKept(p)
          /\ (Only(signal[p], p, started[Other(p)]) => v = started[Other(p)])
        BY <1>0, <1>4, HintMoves, Zenon
    <2>3. UNCHANGED started /\ q # <<>> /\ r = Tail(q)
        BY <1>4, Zenon DEF ByHint
    <2> HIDE DEF v
    <2>4. engine'[p] # None /\ Certain(p) => Certain(p)'
        BY <2>2, <2>3, Zenon DEF Certain, HintsKept, Alive
    <2> QED
        BY <2>1, <2>2, <2>3, <2>4, OkSame, Zenon
<1>5. ASSUME NEW s \in Side, ByProbe(s) PROVE OkFollows'
    <2>1. \A t \in Side : ResultKept(t)
        BY <1>5, ResultsStay, Zenon
    <2>2. UNCHANGED started /\ QueueKept(p) /\ HintsKept(p)
        BY <1>0, <1>5, ProbeMoves, Zenon DEF ByProbe, QueuesKept
    <2>3. EngineSame(p) \/ (engine'[p].peer = started[Other(p)] /\ Alive(p))
        BY <1>0, <1>5, ProbeMoves, Zenon DEF ByProbe
    <2>4. engine'[p] # None => Alive(p) /\ (Certain(p) => Certain(p)')
        BY <1>0, <2>2, <2>3, CertainSame, Zenon DEF Certain, HintsKept, Alive
    <2> QED
        BY <2>1, <2>2, <2>4, OkSame, Zenon
<1>6. ASSUME Begins(a) PROVE OkFollows'
    <2>1. ~Done(a)
        BY <1>6, Zenon DEF Begins, Done
    <2>2. Oks(q) = {}
        BY <2>1, Zenon DEF OkFollows, OkHolds
    <2>3. OneOk(r) /\ Oks(r) = {}
        BY <1>0, <1>6, <2>2, KeptOks, Zenon DEF Begins, QueuesKept
    <2> QED
        BY <2>3, Zenon DEF OkFollows
<1>7. ASSUME Begins(p) PROVE OkFollows'
    <2>1. OneOk(r) /\ \A i \in Oks(r) : \E k \in Oks(q) : r[i] = q[k]
        BY <1>0, <1>7, KeptOks, Zenon DEF Begins, QueuesKept
    <2>2. started'[p] = started[p] + 1 /\ started'[a] = started[a]
        BY <1>0, <1>7, BeginMoves, Zenon
    <2>3. \A t \in Side : ResultKept(t)
        BY <1>0, <1>7, ResultsStay, Zenon
    <2>4. ASSUME NEW i \in Oks(r) PROVE OkHolds(signal["provider"][i])'
        <3>1. PICK k \in Oks(q) : r[i] = q[k]
            BY <2>1, Zenon
        <3>2. PICK m : m = q[k]
            BY Zenon
        <3>3. OkHolds(m) /\ m \in Message
            BY <1>1, <3>2 DEF OkFollows, Oks
        <3>4. m.provider \in Nat /\ m.provider <= started[p] /\ started[p] \in Nat /\ m.accessor = started[a]
            BY <1>0, <1>1, <3>3, Zenon DEF OkHolds, Message, Attempt
        <3>5. m.provider <= started'[p] /\ m.provider # started'[p] /\ m.accessor = started'[a]
            BY <2>2, <3>4
        <3>6. Done(a)' /\ ~Done(p)'
            BY <1>0, <2>3, <3>3, Zenon DEF OkHolds, ResultKept, Done
        <3> QED
            BY <3>1, <3>2, <3>5, <3>6, Zenon DEF OkHolds
    <2> QED
        BY <2>1, <2>4, Zenon DEF OkFollows
<1>8. ASSUME Delivers(a) PROVE OkFollows'
    <2> DEFINE h == Head(signal[a])
               m == [h EXCEPT !.type = "confirm_ok"]
    <2>1. ~Done(a) /\ ~Done(p)
        BY <1>8, Zenon DEF Delivers, Once
    <2>2. Oks(q) = {}
        BY <2>1, Zenon DEF OkFollows, OkHolds
    <2>3. signal[a] # <<>> /\ r = Append(q, m) /\ Alive(a) /\ h[a] = engine[a].id /\ h[p] \in engine[a].targets
        BY <1>0, <1>8, Zenon DEF Delivers
    <2>4. h \in Message
        BY <1>0, <2>3, TailElements, Zenon DEF TypeOK
    <2>5. m \in Message /\ m.accessor = h[a] /\ m.provider = h[p]
        <3> HIDE DEF h
        <3> QED
            BY <2>4, Zenon DEF Message
    <2> HIDE DEF m
    <2>6. OneOk(r) /\ \A i \in Oks(r) : r[i] = m
        <3> HIDE DEF q, r
        <3>1. OneOk(Append(q, m)) /\ \A i \in Oks(Append(q, m)) : Append(q, m)[i] = m
            BY <1>1, <2>2, <2>5, AppendOks, Zenon
        <3> QED
            BY <2>3, <3>1, Zenon
    <2>7. /\ Done(a)' /\ Res(a)'.peer = engine[a].peer /\ ResultKept(p) /\ UNCHANGED <<ch, started>>
        BY <1>0, <1>8, <2>1, DeliverMoves, Zenon
    <2>8. m.accessor = started[a] /\ m.provider <= started[p]
        BY <1>0, <2>3, <2>5, Zenon DEF Numbers
    <2>9. HintsKept(p) /\ EngineSame(p) /\ engine'[p] = engine[p]
        BY <1>0, <1>8, DeliversHints, Zenon DEF Delivers
    <2>10. ASSUME Alive(p)', m.provider = started[p] PROVE Certain(p)' \/ Res(a)'.peer = started[p]
        <3>1. Knows(a) /\ Alive(p)
            BY <1>0, <2>3, <2>5, <2>9, <2>10, Zenon DEF Knows, Alive
        <3>2. Certain(a) \/ Certain(p)
            BY <1>0, <2>3, <3>1, Zenon DEF OneIsCertain
        <3>3. CASE Certain(a)
            BY <1>0, <2>7, <3>3, Zenon DEF Certain
        <3>4. CASE Certain(p)
            BY <1>0, <2>7, <2>9, <2>10, <3>4, CertainSame, Zenon DEF Alive
        <3> QED
            BY <3>2, <3>3, <3>4, Zenon
    <2>11. ~Done(p)'
        BY <2>1, <2>7, Zenon DEF ResultKept, Done
    <2>12. ASSUME NEW i \in Oks(r) PROVE OkHolds(signal["provider"][i])'
        <3>1. r[i] = m
            BY <2>6, Zenon
        <3> QED
            BY <2>7, <2>8, <2>10, <2>11, <3>1, Zenon DEF OkHolds
    <2> QED
        BY <2>6, <2>12, Zenon DEF OkFollows
<1>9. ASSUME Delivers(p) PROVE OkFollows'
    <2>1. q # <<>> /\ r = Tail(q)
        BY <1>9, Zenon DEF Delivers
    <2>2. 1 \in Oks(q)
        BY <1>9, HeadIsOk, Zenon
    <2>3. OneOk(r) /\ Oks(r) = {}
        BY <1>1, <2>1, <2>2, TailOks, Zenon
    <2> QED
        BY <2>3, Zenon DEF OkFollows
<1>10. ASSUME NEW s \in Side, Relearns(s) PROVE OkFollows'
    <2>1. Done(p) /\ r = q
        BY <1>0, <1>10, RelearnMoves, Zenon DEF Relearns
    <2>2. Oks(r) = {}
        BY <2>1, Zenon DEF OkFollows, OkHolds
    <2> QED
        BY <2>2, Zenon DEF OkFollows, OneOk
<1> QED
    BY <1>0, <1>2, <1>3, <1>4, <1>5, <1>6, <1>7, <1>8, <1>9, <1>10, Zenon DEF Kind

LEMMA MetStep == ASSUME TypeOK, Numbers, Once, OkFollows, Met, Kind PROVE Met'
<1> DEFINE a == "accessor"
           p == "provider"
<1>0. a \in Side /\ p \in Side /\ Other(a) = p /\ Other(p) = a /\ \A t \in Side : t = a \/ t = p
    BY Zenon DEF Side, Other
<1> SUFFICES ASSUME \A s \in Side : Done(s)' /\ ~ch'[s].closed
             PROVE  \E s \in Side : Res(s)'.peer = Res(Other(s))'.socket
    BY Zenon DEF Met
<1>1. ASSUME NEW s \in Side, Quiet \/ ByHint(s) \/ ByProbe(s) \/ Begins(s) \/ Accepts(s)
      PROVE  \E u \in Side : Res(u)'.peer = Res(Other(u))'.socket
    <2>1. \A t \in Side : ResultKept(t)
        BY <1>1, ResultsStay, Zenon
    <2>2. \A t \in Side : /\ Done(t) /\ ~ch[t].closed /\ Res(t)'.socket = Res(t).socket /\ Res(t)'.peer = Res(t).peer
        BY <2>1, Zenon DEF ResultKept, Done
    <2> QED
        BY <1>0, <2>2, Zenon DEF Met
<1>2. ASSUME Delivers(a) PROVE FALSE
    <2>1. ~Done(a) /\ ~Done(p)
        BY <1>2, Zenon DEF Delivers, Once
    <2>2. ~Done(p)'
        BY <1>0, <1>2, <2>1, DeliverMoves, Zenon DEF ResultKept, Done
    <2> QED
        BY <1>0, <2>2, Zenon
<1>3. ASSUME Delivers(p) PROVE \E u \in Side : Res(u)'.peer = Res(Other(u))'.socket
    <2> DEFINE m == Head(signal[p])
    <2>1. OkHolds(m) /\ Alive(p) /\ m[p] = engine[p].id
        BY <1>3, HeadIsOk, Zenon DEF Delivers
    <2>2. m.provider = started[p]
        BY <1>0, <2>1, Zenon DEF Numbers
    <2>3. /\ Res(p)'.socket = started[p] /\ Res(p)'.peer = engine[p].peer /\ ResultKept(a)
          /\ UNCHANGED <<ch, started>>
        BY <1>0, <1>3, <2>1, DeliverMoves, Zenon DEF OkHolds
    <2> HIDE DEF m
    <2>4. ~ch[a].closed /\ Res(a)'.socket = Res(a).socket /\ Res(a)'.peer = Res(a).peer
        BY <1>0, <2>3, Zenon DEF ResultKept
    <2>5. Res(a).socket = started[a]
        BY <2>1, <2>4, Zenon DEF OkHolds, Once
    <2>6. Certain(p) \/ Res(a).peer = started[p]
        BY <2>1, <2>2, <2>4, Zenon DEF OkHolds
    <2>7. Certain(p) => engine[p].peer = started[a]
        BY <1>0, Zenon DEF Certain
    <2> QED
        BY <1>0, <2>3, <2>4, <2>5, <2>6, <2>7, Zenon
<1>4. ASSUME NEW s \in Side, Relearns(s) PROVE \E u \in Side : Res(u)'.peer = Res(Other(u))'.socket
    BY <1>4, RelearnMoves, Zenon
<1> QED
    BY <1>0, <1>1, <1>2, <1>3, <1>4, Zenon DEF Kind

-----------------------------------------------------------------------------
LEMMA InitInv == Init => Inv
<1> SUFFICES ASSUME Init PROVE Inv
    BY Zenon
<1> DEFINE c(s) == [closed |-> FALSE, p2p_success |-> FALSE, tcp |-> TRUE, p2p_socket |-> 0, peer_endpoint |-> 0,
                    my_external_port |-> 0, handshake_timer |-> FALSE, timed_out |-> FALSE,
                    punch_retry_count |-> 0, punch_retry_pending |-> s = "accessor"]
<1>1. /\ ch = [s \in Side |-> c(s)] /\ engine = [s \in Side |-> None]
      /\ signal = [s \in Side |-> <<>>] /\ posted = [s \in Side |-> <<>>] /\ started = [s \in Side |-> 0]
    BY Zenon DEF Init
<1>2. 0 \in 0..kMaxPunchRetries /\ 0 \in Attempt /\ 0 <= MaxSignals
    BY ChannelAssumption DEF Attempt
<1>3. \A s \in Side : /\ c(s) \in Channel /\ ~c(s).closed /\ ~c(s).p2p_success /\ c(s).p2p_socket = 0
                      /\ c(s).my_external_port = 0
    BY <1>2, Zenon DEF Channel
<1> HIDE DEF c
<1>4. \A s \in Side : /\ ch[s] = c(s) /\ engine[s] = None /\ signal[s] = <<>> /\ posted[s] = <<>> /\ started[s] = 0
    BY <1>1, Zenon
<1>5. <<>> \in Seq(Message) /\ <<>> \in Seq(Result) /\ Len(<<>>) = 0 /\ 1..0 = {}
    OBVIOUS
<1>6. ch \in [Side -> Channel] /\ engine \in [Side -> Engine \cup {None}] /\ started \in [Side -> Attempt]
    BY <1>1, <1>2, <1>3, Zenon
<1>7. signal \in [Side -> Seq(Message)] /\ posted \in [Side -> Seq(Result)]
    BY <1>1, <1>5, Zenon
<1>8. \A s \in Side : Len(signal[s]) <= MaxSignals
    BY <1>2, <1>4, <1>5, Zenon
<1>9. TypeOK
    BY <1>6, <1>7, <1>8, Zenon DEF TypeOK
<1>10. "accessor" \in Side /\ "provider" \in Side
    BY Zenon DEF Side
<1>11. Numbers
    BY <1>3, <1>4, <1>5, <1>10, Zenon DEF Numbers, Alive, UpTo, InTurn
<1>12. OneIsCertain
    BY <1>4, <1>10, Zenon DEF OneIsCertain, Alive
<1>13. \A s \in Side : ~Done(s) /\ Len(posted[s]) <= 1
    BY <1>3, <1>4, <1>5 DEF Done
<1>14. Once
    BY <1>3, <1>4, <1>10, <1>13, Zenon DEF Once
<1>15. OkFollows
    BY <1>4, <1>5, <1>10, Zenon DEF OkFollows, OneOk, Oks
<1>16. Met
    BY <1>10, <1>13, Zenon DEF Met
<1> QED
    BY <1>9, <1>11, <1>12, <1>14, <1>15, <1>16, Zenon DEF Inv

LEMMA NextInv == Inv /\ [Next]_vars => Inv'
<1> SUFFICES ASSUME Inv, [Next]_vars PROVE Inv'
    BY Zenon
<1>1. TypeOK /\ Numbers /\ OneIsCertain /\ Once /\ OkFollows /\ Met
    BY Zenon DEF Inv
<1>2. TypeOK' /\ Kind
    BY <1>1, NextKind, Zenon
<1> QED
    BY <1>1, <1>2, NumbersStep, OneIsCertainStep, OnceStep, OkFollowsStep, MetStep, Zenon DEF Inv

(* The invariant holds in every state the two ends can reach, the types of  *)
(* the channel and the engine among it.                                     *)
THEOREM Types == Spec => []TypeOK
<1>1. Inv => TypeOK
    BY Zenon DEF Inv
<1> QED
    BY <1>1, InitInv, NextInv, PTL DEF Spec

(* Of two ends that have both left the relay and are open, one at least     *)
(* sends to the socket the other one reads, for any number of attempts,     *)
(* rounds and messages under way (accept_p2p, frp_punch_engine).            *)
THEOREM UpgradesConnect == Spec => []UpgradeConnects
<1>1. Inv => UpgradeConnects
    <2> SUFFICES ASSUME Inv, \A s \in Side : ch[s].p2p_success /\ ~ch[s].closed
                 PROVE  \E s \in Side : ch[s].peer_endpoint = ch[Other(s)].p2p_socket
        BY Zenon DEF UpgradeConnects
    <2>1. \A s \in Side : posted[s] = <<>> /\ Done(s)
        BY Zenon DEF Inv, Once, Done
    <2>2. \A s \in Side : Res(s).peer = ch[s].peer_endpoint /\ Res(s).socket = ch[s].p2p_socket
        BY <2>1, Zenon DEF Res
    <2>3. PICK s \in Side : Res(s).peer = Res(Other(s)).socket
        BY <2>1, Zenon DEF Inv, Met
    <2> QED
        BY <2>2, <2>3, OtherSide, Zenon
<1> QED
    BY <1>1, InitInv, NextInv, PTL DEF Spec

-----------------------------------------------------------------------------
(* The attempts of the accessor.                                            *)

Guarded(c) ==
    \/ c.closed \/ c.p2p_success
    \/ c.handshake_timer \/ c.timed_out \/ c.punch_retry_pending \/ c.punch_retry_count = kMaxPunchRetries

LEMMA GuardParts == AttemptGuarded <=> (posted["accessor"] # <<>> \/ Guarded(ch["accessor"]))
BY Zenon DEF AttemptGuarded, Guarded

LEMMA GuardFrom ==
    ASSUME \/ Guarded(ch["accessor"])'
           \/ posted'["accessor"] # <<>>
           \/ /\ AttemptGuarded /\ ch'["accessor"] = ch["accessor"]
              /\ posted["accessor"] # <<>> => posted'["accessor"] # <<>>
    PROVE  AttemptGuarded'
BY GuardParts, Zenon DEF AttemptGuarded, Guarded

(* A channel the accessor puts in the place of its own.                     *)
LEMMA GuardPut ==
    ASSUME TypeOK, AttemptGuarded, NEW s \in Side, NEW d, ch' = [ch EXCEPT ![s] = d],
           s = "accessor" => Guarded(d) \/ (posted["accessor"] # <<>>), UNCHANGED posted
    PROVE  AttemptGuarded'
<1>0. "accessor" \in Side
    BY Zenon DEF Side
<1>1. CASE s = "accessor"
    <2>1. ch'["accessor"] = d
        BY <1>0, <1>1, Zenon DEF TypeOK
    <2>2. Guarded(d) => Guarded(ch["accessor"])'
        BY <2>1, Zenon DEF Guarded
    <2> QED
        BY <1>1, <2>2, GuardFrom, Zenon
<1>2. CASE s # "accessor"
    <2>1. ch'["accessor"] = ch["accessor"]
        BY <1>0, <1>2, Zenon DEF TypeOK
    <2> QED
        BY <2>1, GuardFrom, Zenon
<1> QED
    BY <1>1, <1>2, Zenon

(* A change of parts of the channel that its guard does not depend on.      *)
LEMMA GuardTouch ==
    ASSUME TypeOK, AttemptGuarded, NEW s \in Side, NEW d, ch' = [ch EXCEPT ![s] = d], UNCHANGED posted,
           Guarded(ch[s]) => Guarded(d)
    PROVE  AttemptGuarded'
BY GuardParts, GuardPut, Zenon

LEMMA GuardedFailure ==
    ASSUME TypeOK, AttemptGuarded, NEW s \in Side, OnFailed(s), UNCHANGED posted PROVE AttemptGuarded'
<1>1. ch[s] \in Channel /\ ch' = [ch EXCEPT ![s] = Fail(s, ch[s])]
    BY Zenon DEF TypeOK, OnFailed
<1>2. Alike(ch[s], Fail(s, ch[s]))
      /\ (s = "accessor" => \/ ch[s].closed \/ Fail(s, ch[s]).punch_retry_pending
                            \/ Fail(s, ch[s]).punch_retry_count = kMaxPunchRetries)
    BY <1>1, FailFacts, Zenon
<1>3. s = "accessor" => Guarded(Fail(s, ch[s]))
    BY <1>2, Zenon DEF Guarded, Alike
<1> QED
    BY <1>1, <1>3, GuardPut, Zenon

LEMMA GuardedStart ==
    ASSUME TypeOK, AttemptGuarded, MaybeStartP2p \/ PunchStart PROVE AttemptGuarded'
<1>0. "accessor" \in Side /\ "provider" \in Side
    BY Zenon DEF Side
<1>1. CASE PunchStart
    <2> DEFINE b == CancelHandshakeTimer(ch["provider"])
    <2>1. b \in Channel
        BY <1>0, CancelHandshakeTimerFacts, Zenon DEF TypeOK, Alike
    <2> HIDE DEF b
    <2>2. NewAttempt("provider", b) /\ UNCHANGED posted
        BY <1>1, Zenon DEF PunchStart, b
    <2>3. PICK d \in Channel : ch' = [ch EXCEPT !["provider"] = d]
        BY <1>0, <2>1, <2>2, NewAttemptFacts, Zenon
    <2> QED
        BY <1>0, <2>2, <2>3, GuardPut, Zenon
<1>2. CASE MaybeStartP2p
    <2> DEFINE c == [ch["accessor"] EXCEPT !.punch_retry_pending = FALSE]
               b == [c EXCEPT !.my_external_port = 0]
    <2>1. ch["accessor"] \in Channel
        BY <1>0, Zenon DEF TypeOK
    <2>2. c \in Channel /\ b \in Channel
        BY <2>1, Zenon DEF Channel, Attempt
    <2>3. CASE (c.closed \/ c.p2p_success) /\ ch' = [ch EXCEPT !["accessor"] = c] /\ UNCHANGED posted
        <3> HIDE DEF c
        <3> QED
            BY <1>0, <2>3, GuardPut, Zenon DEF Guarded
    <2>4. CASE NewAttempt("accessor", b) /\ UNCHANGED posted
        <3> HIDE DEF b
        <3>1. PICK d \in Channel : d.handshake_timer /\ ch' = [ch EXCEPT !["accessor"] = d]
            BY <1>0, <2>2, <2>4, NewAttemptFacts, Zenon
        <3> QED
            BY <1>0, <2>4, <3>1, GuardPut, Zenon DEF Guarded
    <2> QED
        BY <1>2, <2>3, <2>4, Zenon DEF MaybeStartP2p
<1> QED
    BY <1>1, <1>2, Zenon

LEMMA GuardedTimers ==
    ASSUME TypeOK, AttemptGuarded, NEW s \in Side, HandshakeExpires(s) \/ HandshakeTimeout(s)
    PROVE  AttemptGuarded'
<1>0. ch[s] \in Channel
    BY Zenon DEF TypeOK
<1>1. CASE HandshakeExpires(s)
    <2> DEFINE d == [ch[s] EXCEPT !.handshake_timer = FALSE, !.timed_out = TRUE]
    <2>1. ch' = [ch EXCEPT ![s] = d] /\ UNCHANGED posted
        BY <1>1, Zenon DEF HandshakeExpires, TypeOK
    <2>2. d.timed_out
        BY <1>0, Zenon DEF Channel
    <2> HIDE DEF d
    <2> QED
        BY <2>1, <2>2, GuardPut, Zenon DEF Guarded
<1>2. CASE HandshakeTimeout(s)
    <2> DEFINE c == [ch[s] EXCEPT !.timed_out = FALSE]
    <2>1. c \in Channel
        BY <1>0, Zenon DEF Channel
    <2>2. CASE (c.closed \/ c.p2p_success) /\ ch' = [ch EXCEPT ![s] = c] /\ UNCHANGED posted
        <3> HIDE DEF c
        <3> QED
            BY <2>2, GuardPut, Zenon DEF Guarded
    <2>3. CASE /\ ch' = [ch EXCEPT ![s] = IF s = "accessor" THEN SchedulePunchRetry(c) ELSE c]
               /\ ~c.closed /\ UNCHANGED posted
        <3> HIDE DEF c
        <3>1. SchedulePunchRetry(c).punch_retry_pending \/ SchedulePunchRetry(c).punch_retry_count = kMaxPunchRetries
            BY <2>1, <2>3, SchedulePunchRetryFacts, Zenon
        <3>2. Guarded(SchedulePunchRetry(c))
            BY <3>1, Zenon DEF Guarded
        <3> QED
            BY <2>3, <3>2, GuardPut, Zenon
    <2> QED
        BY <1>2, <2>2, <2>3, Zenon DEF HandshakeTimeout
<1> QED
    BY <1>1, <1>2, Zenon

LEMMA GuardedEnd ==
    ASSUME TypeOK, AttemptGuarded, NEW s \in Side, TcpReleased(s) \/ Close(s) \/ Dead(s)
    PROVE  AttemptGuarded'
<1>0. ch[s] \in Channel
    BY Zenon DEF TypeOK
<1>1. CASE Close(s)
    <2>1. ch' = [ch EXCEPT ![s] = Closed(ch[s])] /\ UNCHANGED posted
        BY <1>1, Zenon DEF Close
    <2> QED
        BY <1>0, <2>1, ClosedFacts, GuardPut, Zenon DEF Guarded
<1>2. CASE ch' = [ch EXCEPT ![s].tcp = FALSE] /\ UNCHANGED posted
    <2> DEFINE d == [ch[s] EXCEPT !.tcp = FALSE]
    <2>1. ch' = [ch EXCEPT ![s] = d]
        BY <1>2, Zenon DEF TypeOK
    <2>2. Guarded(ch[s]) => Guarded(d)
        BY <1>0, Zenon DEF Guarded, Channel
    <2> HIDE DEF d
    <2> QED
        BY <1>2, <2>1, <2>2, GuardTouch, Zenon
<1> QED
    BY <1>1, <1>2, Zenon DEF TcpReleased, Dead

LEMMA GuardedDelivery ==
    ASSUME TypeOK, AttemptGuarded, ConfirmAck \/ ConfirmOk PROVE AttemptGuarded'
<1>0. "accessor" \in Side /\ "provider" \in Side
    BY Zenon DEF Side
<1>1. UNCHANGED ch
    BY Zenon DEF ConfirmAck, ConfirmOk
<1>2. ASSUME NEW s \in Side, Delivered(s) PROVE AttemptGuarded'
    <2> DEFINE r == [socket |-> engine[s].id, peer |-> engine[s].peer]
    <2>1. posted' = [posted EXCEPT ![s] = Append(@, r)]
        BY <1>2, Zenon DEF Delivered
    <2> HIDE DEF r
    <2>2. posted[s] \in Seq(Result) /\ posted \in [Side -> Seq(Result)]
        BY Zenon DEF TypeOK
    <2>3. Append(posted[s], r) # <<>>
        BY <2>2
    <2>4. posted'["accessor"] # <<>> \/ posted'["accessor"] = posted["accessor"]
        BY <1>0, <2>1, <2>2, <2>3, Zenon
    <2> QED
        BY <1>1, <2>4, GuardFrom, Zenon
<1>3. CASE UNCHANGED posted
    BY <1>1, <1>3, GuardFrom, Zenon
<1> QED
    BY <1>0, <1>2, <1>3, Zenon DEF ConfirmAck, ConfirmOk

LEMMA GuardedUpgrade ==
    ASSUME TypeOK, Once, AttemptGuarded, NEW s \in Side, Echo(s) \/ Success(s) \/ Datagram(s)
    PROVE  AttemptGuarded'
<1>0. ch[s] \in Channel /\ "accessor" \in Side
    BY Zenon DEF TypeOK, Side
<1>1. CASE Success(s)
    <2>1. CASE s = "accessor"
        <3>1. ch'[s].p2p_success
            BY <1>1, SuccessKind, Zenon DEF Accepts
        <3> QED
            BY <2>1, <3>1, GuardFrom, Zenon DEF Guarded
    <2>2. CASE s # "accessor"
        <3>1. Other(s) = "accessor"
            BY <2>2, Zenon DEF Side, Other
        <3>2. ch'["accessor"] = ch["accessor"]
            BY <1>1, <3>1, SuccessKind, Zenon DEF Accepts
        <3>3. posted'["accessor"] = posted["accessor"]
            BY <1>0, <1>1, <2>2, Zenon DEF Success, TypeOK
        <3> QED
            BY <3>2, <3>3, GuardFrom, Zenon
    <2> QED
        BY <2>1, <2>2, Zenon
<1>2. CASE Echo(s)
    <2> DEFINE x == [engine[s] EXCEPT !.probing = FALSE].id
               d == [ch[s] EXCEPT !.my_external_port = x]
    <2>1. UNCHANGED ch \/ ch' = [ch EXCEPT ![s].my_external_port = x]
        BY <1>2, Zenon DEF Echo
    <2> HIDE DEF x
    <2>2. UNCHANGED ch \/ ch' = [ch EXCEPT ![s] = d]
        BY <2>1, Zenon DEF TypeOK
    <2>3. Guarded(ch[s]) => Guarded(d)
        BY <1>0, Zenon DEF Guarded, Channel
    <2> HIDE DEF d
    <2>4. UNCHANGED posted
        BY <1>2, Zenon DEF Echo
    <2> QED
        BY <2>2, <2>3, <2>4, GuardTouch, GuardFrom, Zenon
<1>3. CASE Datagram(s)
    <2> DEFINE x == ch[Other(s)].p2p_socket
               d == [ch[s] EXCEPT !.peer_endpoint = x]
    <2>1. ch' = [ch EXCEPT ![s] = d] /\ UNCHANGED posted
        BY <1>3, Zenon DEF Datagram, TypeOK
    <2> HIDE DEF x
    <2>2. Guarded(ch[s]) => Guarded(d)
        BY <1>0, Zenon DEF Guarded, Channel
    <2> HIDE DEF d
    <2> QED
        BY <2>1, <2>2, GuardTouch, Zenon
<1> QED
    BY <1>1, <1>2, <1>3, Zenon

LEMMA GuardStep == Inv /\ AttemptGuarded /\ [Next]_vars => AttemptGuarded'
<1> SUFFICES ASSUME Inv, AttemptGuarded, [Next]_vars PROVE AttemptGuarded'
    BY Zenon
<1>0. TypeOK /\ Once
    BY Zenon DEF Inv
<1>1. CASE MaybeStartP2p \/ PunchStart
    BY <1>0, <1>1, GuardedStart, Zenon
<1>2. CASE \/ P2pHandshake \/ HandshakeAck
           \/ Confirm("accessor", "probe_match", "punch_confirm") \/ Confirm("provider", "punch_confirm", "confirm_ack")
    <2>1. UNCHANGED <<ch, posted>>
        BY <1>2, Zenon DEF P2pHandshake, HandshakeAck, Confirm
    <2> QED
        BY <2>1, GuardFrom, Zenon
<1>3. CASE ConfirmAck \/ ConfirmOk
    BY <1>0, <1>3, GuardedDelivery, Zenon
<1>4. ASSUME NEW s \in Side, Echo(s) \/ Success(s) \/ Datagram(s) PROVE AttemptGuarded'
    BY <1>0, <1>4, GuardedUpgrade, Zenon
<1>5. ASSUME NEW s \in Side, ProbeGivesUp(s) \/ RoundEnds(s) PROVE AttemptGuarded'
    <2>1. UNCHANGED posted /\ (OnFailed(s) \/ UNCHANGED ch)
        BY <1>5, Zenon DEF ProbeGivesUp, RoundEnds
    <2> QED
        BY <1>0, <2>1, GuardedFailure, GuardFrom, Zenon
<1>6. ASSUME NEW s \in Side, Deadline(s) \/ ProbeArrives(s) \/ Drop(s) PROVE AttemptGuarded'
    <2>1. UNCHANGED <<ch, posted>>
        BY <1>6, Zenon DEF Deadline, ProbeArrives, Drop
    <2> QED
        BY <2>1, GuardFrom, Zenon
<1>7. ASSUME NEW s \in Side, HandshakeExpires(s) \/ HandshakeTimeout(s) PROVE AttemptGuarded'
    BY <1>0, <1>7, GuardedTimers, Zenon
<1>8. ASSUME NEW s \in Side, TcpReleased(s) \/ Close(s) \/ Dead(s) PROVE AttemptGuarded'
    BY <1>0, <1>8, GuardedEnd, Zenon
<1>9. CASE UNCHANGED vars
    BY <1>9, GuardFrom, Zenon DEF vars
<1> QED
    BY <1>1, <1>2, <1>3, <1>4, <1>5, <1>6, <1>7, <1>8, <1>9, Zenon DEF Next

(* An accessor on the relay is never left without a timer, a delivered      *)
(* result or a pending retry before its retries are used up, for any number *)
(* of retries and whatever order failures, the timeout and late successes   *)
(* come in (schedule_punch_retry, maybe_start_p2p).                         *)
THEOREM AttemptsGuarded == Spec => []AttemptGuarded
<1>1. Init => AttemptGuarded
    <2> SUFFICES ASSUME Init PROVE AttemptGuarded
        BY Zenon
    <2>1. "accessor" \in Side
        BY Zenon DEF Side
    <2>2. ch["accessor"].punch_retry_pending
        BY <2>1, Zenon DEF Init
    <2> QED
        BY <2>2, Zenon DEF AttemptGuarded
<1> QED
    BY <1>1, InitInv, NextInv, GuardStep, PTL DEF Spec
=============================================================================
