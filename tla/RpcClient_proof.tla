--------------------------- MODULE RpcClient_proof ---------------------------
(* Proofs about RpcClient, for every set of calls and every bound: one read    *)
(* loop and one write per connection, no request written twice, and a client   *)
(* with automatic reconnection that never gives up by itself.                  *)
(*                                                                             *)
(* The operations in flight decide everything.  The invariant says which of    *)
(* them a status calls for, that each of these is there once, and that every   *)
(* other one belongs to an earlier connection, so that its handler returns at  *)
(* the epoch check.  The handlers are functions on the client's state, and the *)
(* lemmas about them go through a quiet state, in which nothing is in flight   *)
(* for the current connection.                                                 *)
EXTENDS RpcClient, TLAPS

Kind == {"resolve", "connect", "read", "write", "delay"}
Status == {"wait_connecting", "dns_resolving", "tcp_handshaking", "ready", "closed"}
AnOp == [kind : Kind, epoch : Nat, message : Message]
AnItem == [kind : {"connect", "release", "arm", "write"}, message : Message]
OpBag == UNION {[S -> Nat \ {0}] : S \in SUBSET AnOp}
State == [status : Status, epoch : Nat, peer : {"none", "up", "down"}, ops : OpBag, outbox : Seq(Message),
          map : SUBSET Call]

Types ==
    /\ client \in State /\ posted \in Seq(AnItem) /\ attempts \in Nat
    /\ enable_reconnect \in BOOLEAN /\ reference \in BOOLEAN /\ dropped \in BOOLEAN
    /\ stage \in [Call -> {"idle", "begun", "mapped", "asked"}] /\ sent \in [Call -> Nat]
    /\ \A i \in DOMAIN posted : posted[i].kind = "arm" => posted[i].message \in Call

\* What a state s of the client, after n connection attempts, waits for.
Expects(s, n, kind) ==
    \/ kind = "resolve" /\ s.status = "dns_resolving"
    \/ kind = "connect" /\ s.status = "tcp_handshaking"
    \/ kind = "read" /\ s.status = "ready"
    \/ kind = "write" /\ s.status = "ready" /\ s.outbox # <<>>
    \/ kind = "delay" /\ s.status = "wait_connecting" /\ n > 0

OpOf(s, kind) == [kind |-> kind, epoch |-> s.epoch, message |-> IF kind = "write" THEN Head(s.outbox) ELSE beat]

\* An operation whose handler acts; the delay timer does not look at the epoch.
Current(s, op) == op.kind = "delay" \/ op.epoch = s.epoch

InFlight(s, n) ==
    /\ \A op \in DOMAIN s.ops :
          op.epoch <= s.epoch /\ (Current(s, op) => Expects(s, n, op.kind) /\ op = OpOf(s, op.kind) /\ s.ops[op] = 1)
    /\ \A kind \in Kind : Expects(s, n, kind) => OpOf(s, kind) \in DOMAIN s.ops

Quiet(s) == \A op \in DOMAIN s.ops : op.epoch <= s.epoch /\ ~Current(s, op)

Posts ==
    /\ \A i, j \in DOMAIN posted : posted[i].kind = "connect" /\ posted[j].kind = "connect" => i = j
    /\ reference => \A i \in DOMAIN posted :
          /\ posted[i].kind # "release"
          /\ posted[i].kind = "connect" => attempts = 0 /\ client.status = "wait_connecting"

\* Where the request of a call is.
Posted(c, i) == posted[i].kind = "write" /\ posted[i].message = c
Unwritten(c) ==
    \/ \E i \in DOMAIN posted : Posted(c, i)
    \/ \E i \in DOMAIN client.outbox : client.outbox[i] = c

OneRequest(c) ==
    /\ sent[c] <= 1
    /\ Unwritten(c) => sent[c] = 0
    /\ Unwritten(c) \/ sent[c] = 1 => stage[c] = "asked"
    /\ \A i, j \in DOMAIN posted : Posted(c, i) /\ Posted(c, j) => i = j
    /\ \A i, j \in DOMAIN client.outbox : client.outbox[i] = c /\ client.outbox[j] = c => i = j
    /\ \A i \in DOMAIN posted, j \in DOMAIN client.outbox : ~(Posted(c, i) /\ client.outbox[j] = c)

Trying ==
    /\ attempts = 0 => client.status \in {"closed", "wait_connecting"}
    /\ enable_reconnect /\ attempts > 0 /\ client.status = "closed" => dropped

Inv ==
    /\ Types /\ Posts
    /\ reference => InFlight(client, attempts) /\ Trying
    /\ \A c \in Call : OneRequest(c)

-----------------------------------------------------------------------------
(* Bags and the operations in them. *)

LEMMA PlusProperties ==
    ASSUME NEW B \in OpBag, NEW x \in AnOp
    PROVE  /\ Plus(B, x) \in OpBag
           /\ DOMAIN Plus(B, x) = DOMAIN B \cup {x}
           /\ \A e \in DOMAIN B : e # x => Plus(B, x)[e] = B[e]
           /\ x \notin DOMAIN B => Plus(B, x)[x] = 1
  <1>1. PICK S \in SUBSET AnOp : B \in [S -> Nat \ {0}]
    BY DEF OpBag
  <1>2. CASE x \in DOMAIN B
    <2>1. Plus(B, x) \in [S -> Nat \ {0}]
      BY <1>1, <1>2 DEF Plus
    <2> QED
      BY <1>1, <1>2, <2>1 DEF OpBag, Plus
  <1>3. CASE x \notin DOMAIN B
    <2>1. Plus(B, x) = [e \in S \cup {x} |-> IF e = x THEN 1 ELSE B[e]]
      BY <1>1, <1>3 DEF Plus
    <2>2. Plus(B, x) \in [S \cup {x} -> Nat \ {0}]
      BY <1>1, <2>1
    <2> QED
      BY <1>1, <1>3, <2>1, <2>2 DEF OpBag
  <1> QED
    BY <1>2, <1>3

LEMMA MinusProperties ==
    ASSUME NEW B \in OpBag, NEW x \in DOMAIN B
    PROVE  /\ Minus(B, x) \in OpBag
           /\ DOMAIN Minus(B, x) \subseteq DOMAIN B
           /\ \A e \in DOMAIN B : e # x => e \in DOMAIN Minus(B, x) /\ Minus(B, x)[e] = B[e]
           /\ B[x] = 1 => x \notin DOMAIN Minus(B, x)
  <1>1. PICK S \in SUBSET AnOp : B \in [S -> Nat \ {0}]
    BY DEF OpBag
  <1>2. CASE B[x] = 1
    <2>1. Minus(B, x) \in [S \ {x} -> Nat \ {0}]
      BY <1>1, <1>2 DEF Minus
    <2> QED
      BY <1>1, <1>2, <2>1 DEF OpBag, Minus
  <1>3. CASE B[x] # 1
    <2>1. Minus(B, x) \in [S -> Nat \ {0}]
      BY <1>1, <1>3 DEF Minus
    <2> QED
      BY <1>1, <1>3, <2>1 DEF OpBag, Minus
  <1> QED
    BY <1>2, <1>3

LEMMA OpsAreOps ==
    ASSUME NEW s \in State, NEW op \in DOMAIN s.ops
    PROVE  op \in AnOp /\ s.ops[op] \in Nat \ {0}
  <1>1. s.ops \in OpBag
    BY DEF State
  <1> QED
    BY <1>1 DEF OpBag

\* A started operation; it is the only one of its kind where none was in flight.
OpWith(s, kind, message) == [kind |-> kind, epoch |-> s.epoch, message |-> message]

LEMMA StartedProperties ==
    ASSUME NEW s \in State, NEW kind \in Kind, NEW message \in Message, NEW t, t = StartedWith(s, kind, message)
    PROVE  /\ t \in State /\ t = [s EXCEPT !.ops = t.ops]
           /\ DOMAIN t.ops = DOMAIN s.ops \cup {OpWith(s, kind, message)}
           /\ \A e \in DOMAIN s.ops : e # OpWith(s, kind, message) => t.ops[e] = s.ops[e]
           /\ OpWith(s, kind, message) \notin DOMAIN s.ops => t.ops[OpWith(s, kind, message)] = 1
  <1> DEFINE op == OpWith(s, kind, message)
  <1>1. op \in AnOp /\ s.ops \in OpBag
    BY DEF State, AnOp, OpWith
  <1>2. t = [s EXCEPT !.ops = Plus(s.ops, op)]
    BY DEF StartedWith, OpWith
  <1>3. t.ops = Plus(s.ops, op)
    BY <1>2 DEF State
  <1> HIDE DEF op
  <1>4. Plus(s.ops, op) \in OpBag
    BY <1>1, PlusProperties
  <1>5. t \in State /\ t = [s EXCEPT !.ops = t.ops]
    BY <1>2, <1>3, <1>4 DEF State
  <1> QED
    BY <1>1, <1>3, <1>5, PlusProperties DEF op

\* An operation in flight is over.
LEMMA OverProperties ==
    ASSUME client \in State, NEW op \in DOMAIN client.ops
    PROVE  /\ Over(op) \in State /\ Over(op) = [client EXCEPT !.ops = Over(op).ops]
           /\ DOMAIN Over(op).ops \subseteq DOMAIN client.ops
           /\ \A e \in DOMAIN client.ops : e # op => e \in DOMAIN Over(op).ops /\ Over(op).ops[e] = client.ops[e]
           /\ client.ops[op] = 1 => op \notin DOMAIN Over(op).ops
  <1>1. client.ops \in OpBag
    BY DEF State
  <1>2. Over(op).ops = Minus(client.ops, op)
    BY DEF Over, State
  <1>3. Minus(client.ops, op) \in OpBag
    BY <1>1, MinusProperties
  <1>4. Over(op) \in State /\ Over(op) = [client EXCEPT !.ops = Over(op).ops]
    BY <1>2, <1>3 DEF State, Over
  <1> QED
    BY <1>1, <1>2, <1>4, MinusProperties

\* The handler of an operation that the client waits for leaves the connection quiet,
\* unless it is the reader's or the writer's.
LEMMA OverQuiet ==
    ASSUME client \in State, NEW n, InFlight(client, n), NEW op \in DOMAIN client.ops, Current(client, op),
           op.kind \in {"resolve", "connect", "delay"}
    PROVE  Quiet(Over(op)) /\ op.epoch = client.epoch
  <1>1. op \in AnOp /\ client.ops[op] = 1 /\ op = OpOf(client, op.kind) /\ Expects(client, n, op.kind)
    BY OpsAreOps DEF InFlight
  <1>2. ASSUME NEW e \in DOMAIN client.ops, Current(client, e) PROVE e = op
    BY <1>1, <1>2, OpsAreOps DEF InFlight, Expects, OpOf
  <1>3. \A e \in DOMAIN Over(op).ops : e \in DOMAIN client.ops /\ e # op
    BY <1>1, OverProperties
  <1>4. Over(op).epoch = client.epoch
    BY OverProperties DEF State
  <1> QED
    BY <1>1, <1>2, <1>3, <1>4 DEF Quiet, InFlight, Current, OpOf

\* An operation of an earlier connection makes no difference.
LEMMA OverStale ==
    ASSUME client \in State, NEW n, InFlight(client, n), NEW op \in DOMAIN client.ops, ~Current(client, op)
    PROVE  InFlight(Over(op), n)
  <1>1. /\ Over(op).epoch = client.epoch /\ Over(op).status = client.status /\ Over(op).outbox = client.outbox
    BY OverProperties DEF State
  <1>2. \A e \in DOMAIN Over(op).ops : e \in DOMAIN client.ops
    BY OverProperties
  <1>3. \A e \in DOMAIN client.ops : Current(client, e) => e \in DOMAIN Over(op).ops /\ Over(op).ops[e] = client.ops[e]
    BY OverProperties
  <1>4. \A kind \in Kind : Current(client, OpOf(client, kind))
    BY DEF Current, OpOf
  <1> QED
    BY <1>1, <1>2, <1>3, <1>4 DEF InFlight, Current, Expects, OpOf


-----------------------------------------------------------------------------
(* The functions that the handlers are made of. *)

\* A quiet connection that waits for one thing, and starts it.
LEMMA StartedInFlight ==
    ASSUME NEW s \in State, NEW n, Quiet(s), NEW kind \in {"resolve", "connect", "read", "delay"},
           \A k \in Kind : Expects(s, n, k) <=> k = kind
    PROVE  /\ Started(s, kind) \in State /\ InFlight(Started(s, kind), n)
           /\ Started(s, kind) = [s EXCEPT !.ops = Started(s, kind).ops]
  <1> DEFINE t == Started(s, kind)
             op == OpWith(s, kind, beat)
  <1>1. /\ t \in State /\ t = [s EXCEPT !.ops = t.ops] /\ DOMAIN t.ops = DOMAIN s.ops \cup {op}
        /\ op \notin DOMAIN s.ops => t.ops[op] = 1
    BY StartedProperties DEF Started, Kind, Message
  <1>2. op \notin DOMAIN s.ops
    BY DEF Quiet, Current, OpWith
  <1>3. t.epoch = s.epoch /\ t.status = s.status /\ t.outbox = s.outbox
    BY <1>1 DEF State
  <1>4. op = OpOf(s, kind)
    BY DEF OpOf, OpWith
  <1> HIDE DEF t
  <1>5. ASSUME NEW e \in DOMAIN t.ops
        PROVE  e.epoch <= t.epoch /\ (Current(t, e) => Expects(t, n, e.kind) /\ e = OpOf(t, e.kind) /\ t.ops[e] = 1)
    <2>1. CASE e = op
      BY <1>1, <1>2, <1>3, <1>4, <2>1 DEF OpOf, Expects, State, Kind, OpWith
    <2>2. CASE e # op
      BY <1>1, <1>3, <2>2 DEF Quiet, Current
    <2> QED
      BY <2>1, <2>2
  <1>6. \A k \in Kind : Expects(t, n, k) => OpOf(t, k) \in DOMAIN t.ops
    BY <1>1, <1>3, <1>4 DEF Expects, OpOf
  <1> QED
    BY <1>1, <1>5, <1>6 DEF InFlight, t

\* do_write on a connection that has a reader and no writer.
Reads(s) ==
    /\ \A op \in DOMAIN s.ops :
          op.epoch <= s.epoch /\ (Current(s, op) => op = OpOf(s, "read") /\ s.ops[op] = 1)
    /\ OpOf(s, "read") \in DOMAIN s.ops

LEMMA DoWriteInFlight ==
    ASSUME NEW s \in State, NEW n, s.status = "ready", Reads(s)
    PROVE  /\ DoWrite(s) \in State /\ InFlight(DoWrite(s), n)
           /\ DoWrite(s) = [s EXCEPT !.ops = DoWrite(s).ops]
  <1>1. CASE s.outbox = <<>>
    <2>1. DoWrite(s) = s
      BY <1>1 DEF DoWrite
    <2>2. InFlight(s, n)
      BY <1>1 DEF InFlight, Reads, Expects, OpOf, Current, State, Kind
    <2> QED
      BY <2>1, <2>2 DEF State
  <1>2. CASE s.outbox # <<>>
    <2>1. PICK m \in Message : m = Head(s.outbox)
      BY <1>2 DEF State
    <2> DEFINE t == DoWrite(s)
               op == OpWith(s, "write", m)
    <2>2. t = StartedWith(s, "write", m)
      BY <1>2, <2>1 DEF DoWrite, Has_connected
    <2> HIDE DEF t
    <2>3. /\ t \in State /\ t = [s EXCEPT !.ops = t.ops] /\ DOMAIN t.ops = DOMAIN s.ops \cup {op}
          /\ \A e \in DOMAIN s.ops : e # op => t.ops[e] = s.ops[e]
          /\ op \notin DOMAIN s.ops => t.ops[op] = 1
      <3>1. "write" \in Kind
        BY DEF Kind
      <3> QED
        BY <2>2, <3>1, StartedProperties
    <2>4. op \notin DOMAIN s.ops /\ op # OpOf(s, "read")
      BY DEF Reads, Current, OpOf, OpWith
    <2>5. t.epoch = s.epoch /\ t.status = s.status /\ t.outbox = s.outbox
      BY <2>3 DEF State
    <2>6. op = OpOf(s, "write")
      BY <2>1 DEF OpOf, OpWith
    <2>7. ASSUME NEW e \in DOMAIN t.ops
          PROVE  e.epoch <= t.epoch /\ (Current(t, e) => Expects(t, n, e.kind) /\ e = OpOf(t, e.kind) /\ t.ops[e] = 1)
      <3>1. CASE e = op
        BY <1>2, <2>3, <2>4, <2>5, <2>6, <3>1 DEF OpOf, Expects, State, OpWith
      <3>2. CASE e # op
        BY <2>3, <2>5, <3>2 DEF Reads, Current, OpOf, Expects
      <3> QED
        BY <3>1, <3>2
    <2>8. \A k \in Kind : Expects(t, n, k) => OpOf(t, k) \in DOMAIN t.ops
      BY <2>3, <2>5, <2>6 DEF Expects, OpOf, Reads
    <2> QED
      BY <2>3, <2>7, <2>8 DEF InFlight, t
  <1> QED
    BY <1>1, <1>2

LEMMA ReadyInFlight ==
    ASSUME NEW s \in State, NEW n, Quiet(s)
    PROVE  /\ Ready(s) \in State /\ InFlight(Ready(s), n)
           /\ Ready(s).status = "ready" /\ Ready(s).outbox = s.outbox /\ Ready(s).map = s.map
  <1> DEFINE a == [s EXCEPT !.status = "ready", !.peer = "up"]
             t == DoRead(a)
             op == OpWith(a, "read", beat)
  <1>1. a \in State /\ a.ops = s.ops /\ a.epoch = s.epoch /\ a.outbox = s.outbox /\ a.map = s.map /\ a.status = "ready"
    BY DEF State, Status
  <1> HIDE DEF a
  <1>2. /\ t \in State /\ t = [a EXCEPT !.ops = t.ops] /\ DOMAIN t.ops = DOMAIN a.ops \cup {op}
        /\ op \notin DOMAIN a.ops => t.ops[op] = 1
    BY <1>1, StartedProperties DEF DoRead, Started, Kind, Message
  <1>3. op \notin DOMAIN a.ops
    BY <1>1 DEF Quiet, Current, OpWith
  <1>4. t.epoch = a.epoch /\ t.status = "ready" /\ t.outbox = s.outbox /\ t.map = s.map
    BY <1>1, <1>2 DEF State
  <1>5. op = OpOf(t, "read")
    BY <1>4 DEF OpOf, OpWith
  <1> HIDE DEF t
  <1>6. Reads(t)
    <2>1. ASSUME NEW e \in DOMAIN t.ops
          PROVE  e.epoch <= t.epoch /\ (Current(t, e) => e = op /\ t.ops[e] = 1)
      <3>1. CASE e = op
        BY <1>2, <1>3, <1>4, <1>5, <3>1 DEF State, OpWith
      <3>2. CASE e # op
        BY <1>1, <1>2, <1>4, <3>2 DEF Quiet, Current
      <3> QED
        BY <3>1, <3>2
    <2> QED
      BY <1>2, <1>5, <2>1 DEF Reads
  <1>7. /\ DoWrite(t) \in State /\ InFlight(DoWrite(t), n) /\ DoWrite(t) = [t EXCEPT !.ops = DoWrite(t).ops]
    BY <1>2, <1>4, <1>6, DoWriteInFlight
  <1>8. Ready(s) = DoWrite(t)
    BY DEF Ready, t, a
  <1> QED
    BY <1>2, <1>4, <1>7, <1>8 DEF State

LEMMA CloseQuiet ==
    ASSUME NEW s \in State, NEW forced \in BOOLEAN, forced \/ s.status = "ready",
           \A op \in DOMAIN s.ops : op.epoch <= s.epoch /\ op.kind # "delay"
    PROVE  /\ Close(s, forced) \in State /\ Quiet(Close(s, forced)) /\ Close(s, forced).status = "closed"
           /\ Close(s, forced).outbox = <<>>
  <1> DEFINE t == Close(s, forced)
  <1>1. t = [s EXCEPT !.status = "closed", !.epoch = @ + 1, !.peer = "none", !.outbox = <<>>, !.map = {}]
    BY DEF Close, Has_connected
  <1>2. t \in State /\ t.ops = s.ops /\ t.epoch = s.epoch + 1 /\ t.status = "closed" /\ t.outbox = <<>>
    <2>1. s.epoch + 1 \in Nat /\ <<>> \in Seq(Message) /\ {} \in SUBSET Call
      BY DEF State
    <2> QED
      BY <1>1, <2>1 DEF State, Status
  <1>3. \A op \in DOMAIN s.ops : op.epoch \in Nat /\ s.epoch \in Nat
    BY OpsAreOps DEF State, AnOp
  <1> HIDE DEF t
  <1>4. Quiet(t)
    BY <1>2, <1>3 DEF Quiet, Current
  <1> QED
    BY <1>2, <1>4 DEF t

\* error_callback and async_reconnect on a closed connection.
LEMMA ErrorCallbackInFlight ==
    ASSUME NEW s \in State, NEW n \in Nat \ {0}, Quiet(s), s.status = "closed", reference = TRUE,
           enable_reconnect \in BOOLEAN
    PROVE  /\ ErrorCallback(s) \in State /\ InFlight(ErrorCallback(s), n)
           /\ ErrorCallback(s).outbox = s.outbox
           /\ ErrorCallback(s).status = IF enable_reconnect THEN "wait_connecting" ELSE "closed"
  <1>1. CASE enable_reconnect = FALSE
    <2>1. InFlight(s, n)
      BY DEF InFlight, Quiet, Expects, State
    <2> QED
      BY <1>1, <2>1 DEF ErrorCallback
  <1>2. CASE enable_reconnect = TRUE
    <2> DEFINE a == [s EXCEPT !.epoch = @ + 1, !.peer = "none", !.status = "wait_connecting"]
    <2>1. ErrorCallback(s) = Started(a, "delay")
      BY <1>2 DEF ErrorCallback, AsyncReconnect
    <2>2. a \in State /\ a.ops = s.ops /\ a.epoch = s.epoch + 1 /\ a.status = "wait_connecting" /\ a.outbox = s.outbox
      <3>1. s.epoch + 1 \in Nat
        BY DEF State
      <3> QED
        BY <3>1 DEF State, Status
    <2> HIDE DEF a
    <2>3. \A op \in DOMAIN s.ops : op.epoch \in Nat /\ s.epoch \in Nat
      BY OpsAreOps DEF State, AnOp
    <2>4. Quiet(a)
      BY <2>2, <2>3 DEF Quiet, Current
    <2>5. \A k \in Kind : Expects(a, n, k) <=> k = "delay"
      BY <2>2 DEF Expects, Kind
    <2>6. /\ Started(a, "delay") \in State /\ InFlight(Started(a, "delay"), n)
          /\ Started(a, "delay") = [a EXCEPT !.ops = Started(a, "delay").ops]
      BY <2>2, <2>4, <2>5, StartedInFlight
    <2>7. Started(a, "delay").status = a.status /\ Started(a, "delay").outbox = a.outbox
      BY <2>2, <2>6 DEF State
    <2> QED
      BY <1>2, <2>1, <2>2, <2>6, <2>7
  <1> QED
    BY <1>1, <1>2

LEMMA DoAsyncConnectInFlight ==
    ASSUME NEW s \in State, NEW n, Quiet(s)
    PROVE  /\ DoAsyncConnect(s) \in State /\ InFlight(DoAsyncConnect(s), n)
           /\ DoAsyncConnect(s).outbox = s.outbox /\ DoAsyncConnect(s).status = "dns_resolving"
  <1> DEFINE a == [s EXCEPT !.status = "dns_resolving"]
  <1>1. DoAsyncConnect(s) = Started(a, "resolve")
    BY DEF DoAsyncConnect
  <1>2. a \in State /\ a.ops = s.ops /\ a.epoch = s.epoch /\ a.status = "dns_resolving" /\ a.outbox = s.outbox
    BY DEF State, Status
  <1> HIDE DEF a
  <1>3. Quiet(a)
    BY <1>2 DEF Quiet, Current
  <1>4. \A k \in Kind : Expects(a, n, k) <=> k = "resolve"
    BY <1>2 DEF Expects, Kind
  <1>5. /\ Started(a, "resolve") \in State /\ InFlight(Started(a, "resolve"), n)
        /\ Started(a, "resolve") = [a EXCEPT !.ops = Started(a, "resolve").ops]
    BY <1>2, <1>3, <1>4, StartedInFlight
  <1> QED
    BY <1>1, <1>2, <1>5 DEF State

\* A message is queued.
LEMMA QueueInFlight ==
    ASSUME NEW s \in State, NEW n, InFlight(s, n), NEW message \in Message
    PROVE  /\ Queue(s, message) \in State /\ InFlight(Queue(s, message), n)
           /\ Queue(s, message).outbox = Append(s.outbox, message) /\ Queue(s, message).status = s.status
  <1> DEFINE q == [s EXCEPT !.outbox = Append(@, message)]
  <1>1. /\ q \in State /\ q.ops = s.ops /\ q.epoch = s.epoch /\ q.status = s.status
        /\ q.outbox = Append(s.outbox, message) /\ q.outbox # <<>>
    <2>1. Append(s.outbox, message) \in Seq(Message) /\ Append(s.outbox, message) # <<>>
      BY DEF State
    <2> QED
      BY <2>1 DEF State
  <1>2. Queue(s, message) = IF Len(q.outbox) > 1 THEN q ELSE DoWrite(q)
    BY DEF Queue
  <1> HIDE DEF q
  <1>3. CASE s.outbox # <<>>
    <2>1. Len(q.outbox) > 1 /\ Head(q.outbox) = Head(s.outbox)
      BY <1>1, <1>3 DEF State
    <2>2. InFlight(q, n)
      BY <1>1, <1>3, <2>1 DEF InFlight, Expects, Current, OpOf
    <2> QED
      BY <1>1, <1>2, <2>1, <2>2
  <1>4. CASE s.outbox = <<>> /\ s.status # "ready"
    <2>1. DoWrite(q) = q /\ Len(q.outbox) = 1
      BY <1>1, <1>4 DEF DoWrite, Has_connected, State
    <2>2. InFlight(q, n)
      BY <1>1, <1>4 DEF InFlight, Expects, Current, OpOf
    <2> QED
      BY <1>1, <1>2, <2>1, <2>2
  <1>5. CASE s.outbox = <<>> /\ s.status = "ready"
    <2>1. Len(q.outbox) = 1
      BY <1>1, <1>5 DEF State
    <2>2. Reads(q)
      BY <1>1, <1>5 DEF InFlight, Reads, Expects, Current, OpOf, Kind
    <2>3. /\ DoWrite(q) \in State /\ InFlight(DoWrite(q), n) /\ DoWrite(q) = [q EXCEPT !.ops = DoWrite(q).ops]
      BY <1>1, <1>5, <2>2, DoWriteInFlight
    <2> QED
      BY <1>1, <1>2, <2>1, <2>3 DEF State
  <1> QED
    BY <1>3, <1>4, <1>5

-----------------------------------------------------------------------------
(* The requests. *)

\* A step that neither posts nor writes, and at most empties the outbox.
LEMMA RequestsKept ==
    ASSUME Types, \A c \in Call : OneRequest(c), UNCHANGED <<posted, sent, stage>>,
           client'.outbox \in {client.outbox, <<>>}
    PROVE  \A c \in Call : OneRequest(c)'
  <1> SUFFICES ASSUME NEW c \in Call PROVE OneRequest(c)'
    OBVIOUS
  <1>1. OneRequest(c)
    OBVIOUS
  <1>2. CASE client'.outbox = client.outbox
    BY <1>1, <1>2 DEF OneRequest, Unwritten, Posted
  <1>3. CASE client'.outbox = <<>>
    BY <1>1, <1>3 DEF OneRequest, Unwritten, Posted
  <1> QED
    BY <1>2, <1>3

\* A post of something other than a request.
LEMMA RequestsPosted ==
    ASSUME Types, \A c \in Call : OneRequest(c), UNCHANGED sent, client'.outbox = client.outbox,
           NEW item \in AnItem, posted' = Append(posted, item), item.kind # "write" \/ item.message = beat,
           \A c \in Call : stage[c] = "asked" => stage'[c] = "asked"
    PROVE  \A c \in Call : OneRequest(c)'
  <1> SUFFICES ASSUME NEW c \in Call PROVE OneRequest(c)'
    OBVIOUS
  <1>1. OneRequest(c) /\ posted \in Seq(AnItem)
    BY DEF Types
  <1>2. beat # c
    BY RpcClientAssumption
  <1>3. \A i \in DOMAIN posted' : Posted(c, i)' => i \in DOMAIN posted /\ Posted(c, i)
    BY <1>1, <1>2 DEF Posted
  <1>4. Unwritten(c)' => Unwritten(c)
    BY <1>3 DEF Unwritten
  <1> QED
    BY <1>1, <1>3, <1>4 DEF OneRequest

\* What is posted runs, and is not a request or is not written.
LEMMA RequestsRun ==
    ASSUME Types, \A c \in Call : OneRequest(c), UNCHANGED <<sent, stage>>, posted # <<>>, posted' = Tail(posted),
           client'.outbox \in {client.outbox, <<>>}
    PROVE  \A c \in Call : OneRequest(c)'
  <1> SUFFICES ASSUME NEW c \in Call PROVE OneRequest(c)'
    OBVIOUS
  <1>1. OneRequest(c) /\ posted \in Seq(AnItem)
    BY DEF Types
  <1>2. \A i \in DOMAIN posted' : i + 1 \in DOMAIN posted /\ posted'[i] = posted[i + 1]
    BY <1>1
  <1>3. \A i \in DOMAIN posted' : Posted(c, i)' => Posted(c, i + 1)
    BY <1>2 DEF Posted
  <1>4. \A i \in DOMAIN client'.outbox : i \in DOMAIN client.outbox /\ client'.outbox[i] = client.outbox[i]
    OBVIOUS
  <1>5. Unwritten(c)' => Unwritten(c)
    BY <1>2, <1>3, <1>4 DEF Unwritten
  <1>6. \A i \in DOMAIN posted' : i \in Nat
    BY <1>1
  <1> QED
    BY <1>1, <1>2, <1>3, <1>4, <1>5, <1>6 DEF OneRequest

\* A request is taken from the posts into the outbox.
LEMMA RequestQueued ==
    ASSUME Types, \A c \in Call : OneRequest(c), UNCHANGED <<sent, stage>>, posted # <<>>, posted' = Tail(posted),
           Head(posted).kind = "write", client'.outbox = Append(client.outbox, Head(posted).message)
    PROVE  \A c \in Call : OneRequest(c)'
  <1> SUFFICES ASSUME NEW c \in Call PROVE OneRequest(c)'
    OBVIOUS
  <1> DEFINE out == client.outbox
             m == Head(posted).message
  <1>1. OneRequest(c) /\ posted \in Seq(AnItem) /\ out \in Seq(Message)
    BY DEF Types, State
  <1>2. \A i \in DOMAIN posted' : i \in Nat /\ i + 1 \in DOMAIN posted /\ i + 1 # 1 /\ posted'[i] = posted[i + 1]
    BY <1>1
  <1>3. \A i \in DOMAIN posted' : Posted(c, i)' => Posted(c, i + 1)
    BY <1>2 DEF Posted
  <1>4. 1 \in DOMAIN posted /\ (m = c => Posted(c, 1))
    BY <1>1 DEF Posted
  <1>5. \A i \in DOMAIN client'.outbox : client'.outbox[i] = c =>
            (i = Len(out) + 1 /\ m = c) \/ (i \in DOMAIN out /\ out[i] = c)
    BY <1>1
  <1>6. Unwritten(c)' => Unwritten(c)
    BY <1>2, <1>3, <1>4, <1>5 DEF Unwritten
  <1>7. CASE m = c
    <2>1. \A i \in DOMAIN posted' : ~Posted(c, i)'
      BY <1>1, <1>2, <1>3, <1>4, <1>7 DEF OneRequest
    <2>2. \A i \in DOMAIN out : out[i] # c
      BY <1>1, <1>4, <1>7 DEF OneRequest
    <2> QED
      BY <1>1, <1>5, <1>6, <2>1, <2>2 DEF OneRequest
  <1>8. CASE m # c
    BY <1>1, <1>2, <1>3, <1>5, <1>6, <1>8 DEF OneRequest
  <1> QED
    BY <1>7, <1>8

\* The first message of the outbox is written.
LEMMA RequestWritten ==
    ASSUME Types, \A c \in Call : OneRequest(c), UNCHANGED <<posted, stage>>, client.outbox # <<>>,
           client'.outbox = Tail(client.outbox),
           sent' = [c \in Call |-> IF c = Head(client.outbox) THEN sent[c] + 1 ELSE sent[c]]
    PROVE  \A c \in Call : OneRequest(c)'
  <1> SUFFICES ASSUME NEW c \in Call PROVE OneRequest(c)'
    OBVIOUS
  <1> DEFINE out == client.outbox
  <1>1. OneRequest(c) /\ out \in Seq(Message) /\ sent[c] \in Nat
    BY DEF Types, State
  <1>2. \A i \in DOMAIN client'.outbox : i \in Nat /\ i + 1 \in DOMAIN out /\ i + 1 # 1 /\ client'.outbox[i] = out[i + 1]
    BY <1>1
  <1>3. 1 \in DOMAIN out /\ out[1] = Head(out)
    BY <1>1
  <1>4. \A i \in DOMAIN posted : Posted(c, i)' <=> Posted(c, i)
    BY DEF Posted
  <1>5. Unwritten(c)' => Unwritten(c)
    BY <1>2, <1>4 DEF Unwritten
  <1>6. CASE Head(out) = c
    <2>1. Unwritten(c)
      BY <1>3, <1>6 DEF Unwritten
    <2>2. sent[c] = 0 /\ sent'[c] = 1
      BY <1>1, <1>6, <2>1 DEF OneRequest
    <2>3. ~Unwritten(c)'
      BY <1>1, <1>2, <1>3, <1>4, <1>6 DEF OneRequest, Unwritten
    <2>4. stage'[c] = "asked"
      BY <1>1, <2>1 DEF OneRequest
    <2> QED
      BY <2>2, <2>3, <2>4 DEF OneRequest, Unwritten
  <1>7. CASE Head(out) # c
    <2>1. sent'[c] = sent[c]
      BY <1>7
    <2> QED
      BY <1>1, <1>2, <1>4, <1>5, <2>1 DEF OneRequest
  <1> QED
    BY <1>6, <1>7

-----------------------------------------------------------------------------
(* The steps. *)

\* A handler that runs on the io thread and posts nothing.
LEMMA HandlerStep ==
    ASSUME Inv, UNCHANGED <<reference, posted, sent, stage, enable_reconnect>>,
           client' \in State, attempts' \in Nat, dropped' \in BOOLEAN, client'.outbox \in {client.outbox, <<>>},
           reference => InFlight(client', attempts') /\ Trying',
           reference => attempts > 0 \/ (attempts' = attempts /\ client'.status = client.status)
    PROVE  Inv'
  <1>1. Types'
    BY DEF Inv, Types
  <1>2. Posts'
    BY DEF Inv, Posts, Types
  <1>3. \A c \in Call : OneRequest(c)'
    BY RequestsKept DEF Inv
  <1>4. reference' => InFlight(client, attempts)' /\ Trying'
    BY DEF InFlight, Expects, OpOf, Current
  <1> QED
    BY <1>1, <1>2, <1>3, <1>4 DEF Inv

LEMMA SameInFlight ==
    ASSUME NEW s \in State, NEW t \in State, NEW n, InFlight(s, n),
           t.ops = s.ops, t.status = s.status, t.epoch = s.epoch, t.outbox = s.outbox
    PROVE  InFlight(t, n)
  BY DEF InFlight, Expects, OpOf, Current

\* A handler that acts: there has been an attempt, and its operation is what the client
\* waits for.
LEMMA Acts ==
    ASSUME Inv, reference, NEW op \in DOMAIN client.ops, ~Stale(op) \/ op.kind = "delay"
    PROVE  /\ InFlight(client, attempts) /\ Current(client, op) /\ Expects(client, attempts, op.kind)
           /\ op = OpOf(client, op.kind) /\ client.ops[op] = 1 /\ op \in AnOp
           /\ attempts \in Nat \ {0}
  <1>1. InFlight(client, attempts) /\ Current(client, op)
    BY DEF Inv, Stale, Current
  <1>2. Expects(client, attempts, op.kind) /\ op = OpOf(client, op.kind) /\ client.ops[op] = 1
    BY <1>1 DEF InFlight
  <1>3. op \in AnOp
    BY OpsAreOps DEF Inv, Types
  <1>4. attempts # 0
    BY <1>2 DEF Expects, Inv, Trying, Types
  <1> QED
    BY <1>1, <1>2, <1>3, <1>4 DEF Inv, Types

LEMMA ConnectStep ==
    ASSUME Inv, Connect PROVE Inv'
  <1> DEFINE item == [kind |-> "connect", message |-> beat]
  <1>1. item \in AnItem /\ posted = <<>> /\ posted' = Append(posted, item) /\ posted' \in Seq(AnItem) /\ posted' = <<item>>
    BY DEF Connect, Post, AnItem, Message, Inv, Types
  <1> HIDE DEF item
  <1>2. client \in State /\ client' \in State /\ client'.ops = client.ops /\ client'.epoch = client.epoch
        /\ client'.outbox = client.outbox /\ client'.status = "wait_connecting"
    BY DEF Connect, Inv, Types, State, Status
  <1>3. item.kind = "connect"
    BY DEF item
  <1>4. Types'
    BY <1>1, <1>2, <1>3 DEF Connect, Inv, Types, user, idle
  <1>5. Posts'
    BY <1>1, <1>2, <1>3 DEF Connect, Posts
  <1>6. \A c \in Call : OneRequest(c)'
    <2>1. sent' = sent /\ stage' = stage
      BY DEF Connect, user
    <2> QED
      BY <1>1, <1>2, <1>3, <2>1, RequestsPosted DEF Inv
  <1>7. InFlight(client, attempts)' /\ Trying'
    <2>1. InFlight(client, attempts) /\ attempts = 0 /\ client.status = "closed" /\ attempts' = 0
      BY DEF Inv, Connect
    <2>2. \A k : ~Expects(client, attempts, k) /\ ~Expects(client', attempts', k)
      BY <1>2, <2>1 DEF Expects
    <2>3. InFlight(client', attempts')
      BY <1>2, <2>1, <2>2 DEF InFlight, Current
    <2>4. Trying'
      BY <1>2, <2>1 DEF Trying
    <2> QED
      BY <2>3, <2>4 DEF InFlight, Expects, Current, OpOf
  <1> QED
    BY <1>4, <1>5, <1>6, <1>7 DEF Inv

\* Posts by the users, which change nothing but the posts and how far a call has come.
LEMMA PostStep ==
    ASSUME Inv, UNCHANGED <<client, attempts, sent, enable_reconnect, dropped>>, reference' \in BOOLEAN,
           reference' => reference, NEW item \in AnItem, posted' = Append(posted, item),
           item.kind # "connect", item.kind = "release" => ~reference', item.kind = "arm" => item.message \in Call,
           stage' \in [Call -> {"idle", "begun", "mapped", "asked"}],
           \A c \in Call : OneRequest(c)'
    PROVE  Inv'
  <1>1. posted \in Seq(AnItem) /\ posted' \in Seq(AnItem) /\ DOMAIN posted' = DOMAIN posted \cup {Len(posted) + 1}
    BY DEF Inv, Types
  <1>2. \A i \in DOMAIN posted' : posted'[i] = item \/ (i \in DOMAIN posted /\ posted'[i] = posted[i])
    BY <1>1
  <1>3. Types'
    BY <1>1, <1>2 DEF Inv, Types
  <1>4. Posts'
    BY <1>2 DEF Inv, Posts
  <1>5. reference' => InFlight(client, attempts)' /\ Trying'
    BY DEF Inv, InFlight, Trying, Expects, Current, OpOf
  <1> QED
    BY <1>3, <1>4, <1>5 DEF Inv

LEMMA BeginStep ==
    ASSUME Inv, NEW c \in Call, Begin(c) PROVE Inv'
  <1> DEFINE item == [kind |-> "arm", message |-> c]
  <1>1. item \in AnItem /\ posted' = Append(posted, item) /\ item.kind = "arm" /\ item.message \in Call
    BY DEF Begin, Post, AnItem, Message
  <1> HIDE DEF item
  <1>2. stage' \in [Call -> {"idle", "begun", "mapped", "asked"}] /\ \A d \in Call : stage[d] = "asked" => stage'[d] = "asked"
    BY DEF Begin, Inv, Types
  <1>3. UNCHANGED <<client, attempts, sent, enable_reconnect, dropped, reference>> /\ client'.outbox = client.outbox
    BY DEF Begin, idle
  <1>4. \A d \in Call : OneRequest(d)'
    BY <1>1, <1>2, <1>3, RequestsPosted DEF Inv
  <1>5. reference' \in BOOLEAN /\ (reference' => reference)
    BY <1>3 DEF Inv, Types
  <1> QED
    BY <1>1, <1>2, <1>3, <1>4, <1>5, PostStep

LEMMA AskStep ==
    ASSUME Inv, NEW c \in Call, Ask(c) PROVE Inv'
  <1> DEFINE item == [kind |-> "write", message |-> c]
  <1>1. item \in AnItem /\ posted' = Append(posted, item) /\ item.kind = "write" /\ item.message = c
    BY DEF Ask, Post, AnItem, Message
  <1> HIDE DEF item
  <1>2. stage' \in [Call -> {"idle", "begun", "mapped", "asked"}] /\ stage[c] = "mapped" /\ stage'[c] = "asked"
        /\ \A d \in Call : d # c => stage'[d] = stage[d]
    BY DEF Ask, Inv, Types
  <1>3. UNCHANGED <<client, attempts, sent, enable_reconnect, dropped, reference>>
    BY DEF Ask, idle
  <1>4. posted \in Seq(AnItem) /\ Len(posted) \in Nat /\ DOMAIN posted' = DOMAIN posted \cup {Len(posted) + 1}
        /\ Len(posted) + 1 \notin DOMAIN posted
        /\ posted'[Len(posted) + 1] = item /\ \A i \in DOMAIN posted : posted'[i] = posted[i]
    BY <1>1 DEF Inv, Types
  <1>5. ASSUME NEW d \in Call PROVE OneRequest(d)'
    <2>1. OneRequest(d) /\ sent[d] \in Nat
      BY DEF Inv, Types
    <2>2. CASE d = c
      <3>1. ~Unwritten(c) /\ sent[c] = 0
        BY <1>2, <2>1, <2>2 DEF OneRequest
      <3>2. \A i \in DOMAIN posted' : Posted(c, i)' => i = Len(posted) + 1
        BY <1>4, <3>1 DEF Unwritten, Posted
      <3>3. \A i \in DOMAIN client'.outbox : client'.outbox[i] # c
        BY <1>3, <3>1 DEF Unwritten
      <3> QED
        BY <1>2, <1>3, <2>2, <3>1, <3>2, <3>3 DEF OneRequest
    <2>3. CASE d # c
      <3>1. \A i \in DOMAIN posted' : Posted(d, i)' => i \in DOMAIN posted /\ Posted(d, i)
        BY <1>1, <1>4, <2>3 DEF Posted
      <3>2. Unwritten(d)' => Unwritten(d)
        BY <1>3, <3>1 DEF Unwritten
      <3> QED
        BY <1>2, <1>3, <2>1, <2>3, <3>1, <3>2 DEF OneRequest
    <2> QED
      BY <2>2, <2>3
  <1>6. reference' \in BOOLEAN /\ (reference' => reference)
    BY <1>3 DEF Inv, Types
  <1> QED
    BY <1>1, <1>2, <1>3, <1>5, <1>6, PostStep

LEMMA ReleaseStep ==
    ASSUME Inv, ReleaseObj PROVE Inv'
  <1> DEFINE item == [kind |-> "release", message |-> beat]
  <1>1. item \in AnItem /\ posted' = Append(posted, item) /\ item.kind = "release"
    BY DEF ReleaseObj, Post, AnItem, Message
  <1> HIDE DEF item
  <1>2. UNCHANGED <<client, attempts, sent, enable_reconnect, dropped, stage>> /\ reference' = FALSE
    BY DEF ReleaseObj, idle, user
  <1>3. client'.outbox = client.outbox /\ \A d \in Call : stage[d] = "asked" => stage'[d] = "asked"
    BY <1>2
  <1>4. \A d \in Call : OneRequest(d)'
    BY <1>1, <1>2, <1>3, RequestsPosted DEF Inv
  <1>5. stage' \in [Call -> {"idle", "begun", "mapped", "asked"}]
    BY <1>2 DEF Inv, Types
  <1> QED
    BY <1>1, <1>2, <1>4, <1>5, PostStep

LEMMA EmplaceStep ==
    ASSUME Inv, NEW c \in Call, Emplace(c) PROVE Inv'
  <1>1. client \in State /\ client' \in State /\ client'.ops = client.ops /\ client'.epoch = client.epoch
        /\ client'.outbox = client.outbox /\ client'.status = client.status
    BY DEF Emplace, Inv, Types, State
  <1>2. UNCHANGED <<reference, posted, attempts, sent, enable_reconnect, dropped>>
    BY DEF Emplace, idle
  <1>3. stage' \in [Call -> {"idle", "begun", "mapped", "asked"}] /\ \A d \in Call : stage[d] = "asked" => stage'[d] = "asked"
    BY DEF Emplace, Inv, Types
  <1>4. Types'
    BY <1>1, <1>2, <1>3 DEF Inv, Types
  <1>5. Posts'
    BY <1>1, <1>2 DEF Inv, Posts
  <1>6. reference' => InFlight(client, attempts)' /\ Trying'
    BY <1>1, <1>2 DEF Inv, InFlight, Trying, Expects, Current, OpOf
  <1>7. \A d \in Call : OneRequest(d)'
    <2> SUFFICES ASSUME NEW d \in Call PROVE OneRequest(d)'
      OBVIOUS
    <2>1. OneRequest(d)
      BY DEF Inv
    <2> QED
      BY <1>1, <1>2, <1>3, <2>1 DEF OneRequest, Unwritten, Posted
  <1> QED
    BY <1>4, <1>5, <1>6, <1>7 DEF Inv

\* The client changes in nothing that matters to the connection.
LEMMA SameStep ==
    ASSUME Inv, UNCHANGED <<reference, posted, sent, stage, enable_reconnect, attempts, dropped>>,
           client' \in State, client'.ops = client.ops, client'.status = client.status,
           client'.epoch = client.epoch, client'.outbox = client.outbox
    PROVE  Inv'
  <1>1. client \in State /\ attempts' \in Nat /\ dropped' \in BOOLEAN
    BY DEF Inv, Types
  <1>2. reference => InFlight(client', attempts')
    BY <1>1, SameInFlight DEF Inv
  <1>3. reference => Trying'
    BY DEF Inv, Trying
  <1> QED
    BY <1>1, <1>2, <1>3, HandlerStep

LEMMA TimeoutStep ==
    ASSUME Inv, NEW c \in Call, CallTimeout(c) PROVE Inv'
  <1>1. client' \in State /\ client'.ops = client.ops /\ client'.epoch = client.epoch
        /\ client'.outbox = client.outbox /\ client'.status = client.status
    BY DEF CallTimeout, Inv, Types, State
  <1>2. UNCHANGED <<reference, posted, sent, stage, enable_reconnect, attempts, dropped>>
    BY DEF CallTimeout, user, idle
  <1> QED
    BY <1>1, <1>2, SameStep

LEMMA ServerStep ==
    ASSUME Inv, Serve \/ ServerGone PROVE Inv'
  <1>1. client' \in State /\ client'.ops = client.ops /\ client'.epoch = client.epoch
        /\ client'.outbox = client.outbox /\ client'.status = client.status
    BY DEF Serve, ServerGone, Inv, Types, State
  <1>2. UNCHANGED <<reference, posted, sent, stage, enable_reconnect, attempts, dropped>>
    BY DEF Serve, ServerGone, user, idle
  <1> QED
    BY <1>1, <1>2, SameStep

\* Every operation but the timers' belongs to a client that is not waiting.
LEMMA NoDelay ==
    ASSUME Inv, reference, client.status = "ready"
    PROVE  /\ \A op \in DOMAIN client.ops : op.epoch <= client.epoch /\ op.kind # "delay"
           /\ attempts \in Nat \ {0}
  <1>1. InFlight(client, attempts) /\ Trying /\ attempts \in Nat
    BY DEF Inv, Types
  <1> QED
    BY <1>1 DEF InFlight, Current, Expects, Trying

LEMMA DeadlineStep ==
    ASSUME Inv, Deadline PROVE Inv'
  <1>1. UNCHANGED <<reference, sent, stage, enable_reconnect, attempts>> /\ reference = TRUE
    BY DEF Deadline, user, Inv, Types
  <1>2. CASE UNCHANGED <<client, posted, dropped>>
    <2>1. client' \in State /\ UNCHANGED <<reference, posted, sent, stage, enable_reconnect, attempts, dropped>>
      BY <1>1, <1>2 DEF Inv, Types
    <2> QED
      BY <1>2, <2>1, SameStep
  <1>3. CASE Has_connected(client) /\ client' = Close(client, FALSE) /\ dropped' = TRUE /\ posted' = posted
    <2>1. client \in State /\ client.status = "ready"
      BY <1>3 DEF Inv, Types, Has_connected
    <2>2. (\A op \in DOMAIN client.ops : op.epoch <= client.epoch /\ op.kind # "delay") /\ attempts \in Nat \ {0}
      BY <1>1, <2>1, NoDelay
    <2>3. client' \in State /\ Quiet(client') /\ client'.status = "closed" /\ client'.outbox = <<>>
      BY <1>3, <2>1, <2>2, CloseQuiet
    <2>4. InFlight(client', attempts')
      BY <2>3 DEF InFlight, Quiet, Expects
    <2>5. Trying'
      BY <1>1, <1>3, <2>2 DEF Trying
    <2>6. attempts' \in Nat /\ dropped' \in BOOLEAN /\ UNCHANGED <<reference, posted, sent, stage, enable_reconnect>>
      BY <1>1, <1>3, <2>2
    <2> QED
      BY <2>2, <2>3, <2>4, <2>5, <2>6, HandlerStep
  <1>4. CASE Post("write", beat) /\ UNCHANGED <<client, dropped>>
    <2> DEFINE item == [kind |-> "write", message |-> beat]
    <2>1. item \in AnItem /\ posted' = Append(posted, item) /\ item.kind = "write" /\ item.message = beat
      BY <1>4 DEF Post, AnItem, Message
    <2> HIDE DEF item
    <2>2. client'.outbox = client.outbox /\ stage' = stage
      BY <1>1, <1>4
    <2>3. \A d \in Call : OneRequest(d)'
      BY <1>1, <2>1, <2>2, RequestsPosted DEF Inv
    <2>4. stage' \in [Call -> {"idle", "begun", "mapped", "asked"}]
      BY <1>1 DEF Inv, Types
    <2>5. reference' \in BOOLEAN /\ (reference' => reference) /\ UNCHANGED <<client, attempts, sent, enable_reconnect, dropped>>
      BY <1>1, <1>4
    <2> QED
      BY <2>1, <2>3, <2>4, <2>5, PostStep
  <1> QED
    BY <1>2, <1>3, <1>4 DEF Deadline, Becomes

LEMMA DiscardedStep ==
    ASSUME Inv, Discarded PROVE Inv'
  <1>1. PICK op \in DOMAIN client.ops : Stale(op) /\ op.kind # "delay" /\ client' = Over(op)
    BY DEF Discarded, Pending
  <1>2. UNCHANGED <<reference, posted, sent, stage, enable_reconnect, attempts, dropped>>
    BY DEF Discarded, user, idle
  <1>3. client \in State /\ attempts' \in Nat /\ dropped' \in BOOLEAN
    BY <1>2 DEF Inv, Types
  <1>4. client' \in State /\ client'.outbox = client.outbox /\ client'.status = client.status
    BY <1>1, <1>3, OverProperties DEF State
  <1>5. reference => InFlight(client', attempts')
    <2>1. reference => InFlight(client, attempts) /\ ~Current(client, op)
      BY <1>1 DEF Inv, Stale, Current
    <2> QED
      BY <1>1, <1>2, <1>3, <2>1, OverStale
  <1>6. reference => Trying'
    BY <1>2, <1>4 DEF Inv, Trying
  <1> QED
    BY <1>2, <1>3, <1>4, <1>5, <1>6, HandlerStep

\* The state of the client after its handler is over, with another status.
LEMMA OverWith ==
    ASSUME client \in State, NEW op \in DOMAIN client.ops, NEW status \in Status, Quiet(Over(op)),
           NEW t, t = [Over(op) EXCEPT !.status = status]
    PROVE  t \in State /\ Quiet(t) /\ t.status = status /\ t.outbox = client.outbox
  <1>1. Over(op) \in State /\ Over(op) = [client EXCEPT !.ops = Over(op).ops]
    BY OverProperties
  <1>2. Over(op).outbox = client.outbox
    BY <1>1 DEF State
  <1>3. t \in State /\ t.status = status /\ t.outbox = Over(op).outbox /\ t.ops = Over(op).ops /\ t.epoch = Over(op).epoch
    BY <1>1 DEF State
  <1> QED
    BY <1>2, <1>3 DEF Quiet, Current

LEMMA ResolvedStep ==
    ASSUME Inv, Resolved PROVE Inv'
  <1>1. PICK op \in DOMAIN client.ops : op.kind = "resolve" /\ ~Stale(op)
            /\ client' = IF Has_connected(client) THEN Over(op)
                         ELSE Started([Over(op) EXCEPT !.status = "tcp_handshaking"], "connect")
    BY DEF Resolved, Pending, Becomes
  <1>2. UNCHANGED <<reference, posted, sent, stage, enable_reconnect, attempts, dropped>> /\ reference = TRUE
    BY <1>1 DEF Resolved, user, idle, Stale, Inv, Types
  <1>3. client \in State /\ attempts' \in Nat /\ dropped' \in BOOLEAN
    BY <1>2 DEF Inv, Types
  <1>4. InFlight(client, attempts) /\ Current(client, op) /\ Expects(client, attempts, op.kind) /\ attempts \in Nat \ {0}
    BY <1>1, <1>2, Acts
  <1>5. Quiet(Over(op))
    BY <1>1, <1>3, <1>4, OverQuiet
  <1>6. ~Has_connected(client)
    BY <1>1, <1>4 DEF Expects, Has_connected
  <1>7. PICK a : a = [Over(op) EXCEPT !.status = "tcp_handshaking"]
    OBVIOUS
  <1>8. a \in State /\ Quiet(a) /\ a.status = "tcp_handshaking" /\ a.outbox = client.outbox
    BY <1>3, <1>5, <1>7, OverWith DEF Status
  <1>9. \A k \in Kind : Expects(a, attempts, k) <=> k = "connect"
    BY <1>8 DEF Expects
  <1>10. client' \in State /\ InFlight(client', attempts) /\ client' = [a EXCEPT !.ops = client'.ops]
    <2>1. client' = Started(a, "connect")
      BY <1>1, <1>6, <1>7
    <2> QED
      BY <1>8, <1>9, <2>1, StartedInFlight
  <1>11. client'.outbox = client.outbox /\ client'.status = "tcp_handshaking"
    BY <1>8, <1>10 DEF State
  <1>12. Trying'
    BY <1>2, <1>4, <1>11 DEF Trying
  <1> QED
    BY <1>2, <1>3, <1>4, <1>10, <1>11, <1>12, HandlerStep

LEMMA ConnectedStep ==
    ASSUME Inv, Connected PROVE Inv'
  <1>1. PICK op \in DOMAIN client.ops : op.kind = "connect" /\ ~Stale(op)
            /\ client' = IF Has_connected(client) THEN Over(op) ELSE Ready(Over(op))
    BY DEF Connected, Pending, Becomes
  <1>2. UNCHANGED <<reference, posted, sent, stage, enable_reconnect, attempts, dropped>> /\ reference = TRUE
    BY <1>1 DEF Connected, user, idle, Stale, Inv, Types
  <1>3. client \in State /\ attempts' \in Nat /\ dropped' \in BOOLEAN
    BY <1>2 DEF Inv, Types
  <1>4. InFlight(client, attempts) /\ Current(client, op) /\ Expects(client, attempts, op.kind) /\ attempts \in Nat \ {0}
    BY <1>1, <1>2, Acts
  <1>5. Quiet(Over(op)) /\ Over(op) \in State
    BY <1>1, <1>3, <1>4, OverQuiet, OverProperties
  <1>6. ~Has_connected(client)
    BY <1>1, <1>4 DEF Expects, Has_connected
  <1>7. client' \in State /\ InFlight(client', attempts) /\ client'.outbox = Over(op).outbox /\ client'.status = "ready"
    BY <1>1, <1>5, <1>6, ReadyInFlight
  <1>8. client'.outbox = client.outbox
    BY <1>3, <1>7, OverProperties DEF State
  <1>9. Trying'
    BY <1>2, <1>4, <1>7 DEF Trying
  <1> QED
    BY <1>2, <1>3, <1>4, <1>7, <1>8, <1>9, HandlerStep

LEMMA RefusedStep ==
    ASSUME Inv, Refused PROVE Inv'
  <1>1. PICK op \in DOMAIN client.ops : op.kind \in {"resolve", "connect"} /\ ~Stale(op)
            /\ client' = IF Has_connected(client) THEN Over(op) ELSE ConnectFails(Over(op))
    BY DEF Refused, Pending, Becomes
  <1>2. UNCHANGED <<reference, posted, sent, stage, enable_reconnect, attempts, dropped>> /\ reference = TRUE
        /\ enable_reconnect \in BOOLEAN
    BY <1>1 DEF Refused, user, idle, Stale, Inv, Types
  <1>3. client \in State /\ attempts' \in Nat /\ dropped' \in BOOLEAN
    BY <1>2 DEF Inv, Types
  <1>4. InFlight(client, attempts) /\ Current(client, op) /\ Expects(client, attempts, op.kind) /\ attempts \in Nat \ {0}
    BY <1>1, <1>2, Acts
  <1>5. Quiet(Over(op))
    BY <1>1, <1>3, <1>4, OverQuiet
  <1>6. ~Has_connected(client)
    BY <1>1, <1>4 DEF Expects, Has_connected
  <1>7. PICK a : a = [Over(op) EXCEPT !.status = "closed"]
    OBVIOUS
  <1>8. a \in State /\ Quiet(a) /\ a.status = "closed" /\ a.outbox = client.outbox
    BY <1>3, <1>5, <1>7, OverWith DEF Status
  <1>9. client' = ErrorCallback(a)
    BY <1>1, <1>6, <1>7 DEF ConnectFails, ErrorCallback
  <1>10. /\ client' \in State /\ InFlight(client', attempts) /\ client'.outbox = client.outbox
         /\ client'.status = IF enable_reconnect THEN "wait_connecting" ELSE "closed"
    BY <1>2, <1>4, <1>8, <1>9, ErrorCallbackInFlight
  <1>11. Trying'
    BY <1>2, <1>4, <1>10 DEF Trying
  <1> QED
    BY <1>2, <1>3, <1>4, <1>10, <1>11, HandlerStep

LEMMA DelayOverStep ==
    ASSUME Inv, DelayOver PROVE Inv'
  <1>1. PICK op \in DOMAIN client.ops : op.kind = "delay"
            /\ IF reference THEN client' = DoAsyncConnect(Over(op)) /\ attempts' = attempts + 1
               ELSE client' = Over(op) /\ attempts' = attempts
    BY DEF DelayOver, Pending, Becomes
  <1>2. UNCHANGED <<reference, posted, sent, stage, enable_reconnect, dropped>> /\ reference \in BOOLEAN
    BY DEF DelayOver, user, idle, Inv, Types
  <1>3. client \in State /\ attempts \in Nat /\ attempts' \in Nat /\ dropped' \in BOOLEAN
    BY <1>1, <1>2 DEF Inv, Types
  <1>4. Over(op) \in State /\ Over(op).outbox = client.outbox
    BY <1>3, OverProperties DEF State
  <1>5. CASE reference = FALSE
    BY <1>1, <1>2, <1>3, <1>4, <1>5, HandlerStep
  <1>6. CASE reference = TRUE
    <2>1. InFlight(client, attempts) /\ Current(client, op) /\ attempts \in Nat \ {0}
      BY <1>1, <1>6, Acts
    <2>2. Quiet(Over(op))
      BY <1>1, <1>3, <2>1, OverQuiet
    <2>3. /\ client' \in State /\ InFlight(client', attempts') /\ client'.outbox = client.outbox
          /\ client'.status = "dns_resolving"
      BY <1>1, <1>4, <1>6, <2>2, DoAsyncConnectInFlight
    <2>4. Trying'
      BY <1>1, <1>6, <2>1, <2>3 DEF Trying
    <2> QED
      BY <1>2, <1>3, <2>1, <2>3, <2>4, HandlerStep
  <1> QED
    BY <1>2, <1>5, <1>6

LEMMA WriteDoneStep ==
    ASSUME Inv, WriteDone PROVE Inv'
  <1>1. PICK op \in DOMAIN client.ops : op.kind = "write" /\ ~Stale(op) /\ client.outbox # <<>>
            /\ client' = DoWrite([Over(op) EXCEPT !.outbox = Tail(@)]) /\ Delivers(op.message)
    BY DEF WriteDone, Pending
  <1>2. UNCHANGED <<reference, posted, stage, enable_reconnect, attempts, dropped>> /\ reference = TRUE
    BY <1>1 DEF WriteDone, user, Stale, Inv, Types
  <1>3. client \in State /\ Types
    BY DEF Inv, Types
  <1>4. /\ InFlight(client, attempts) /\ Expects(client, attempts, op.kind) /\ attempts \in Nat \ {0}
        /\ op = OpOf(client, op.kind) /\ client.ops[op] = 1
    BY <1>1, <1>2, Acts
  <1>5. client.status = "ready" /\ op = OpOf(client, "write") /\ op.message = Head(client.outbox)
    BY <1>1, <1>4 DEF Expects, OpOf
  <1>6. /\ Over(op) \in State /\ Over(op) = [client EXCEPT !.ops = Over(op).ops]
        /\ DOMAIN Over(op).ops \subseteq DOMAIN client.ops /\ op \notin DOMAIN Over(op).ops
        /\ \A e \in DOMAIN client.ops : e # op => e \in DOMAIN Over(op).ops /\ Over(op).ops[e] = client.ops[e]
    BY <1>3, <1>4, OverProperties
  <1>7. PICK a : a = [Over(op) EXCEPT !.outbox = Tail(@)]
    OBVIOUS
  <1>8. /\ a \in State /\ a.ops = Over(op).ops /\ a.status = "ready" /\ a.epoch = client.epoch
        /\ a.outbox = Tail(client.outbox)
    <2>1. Over(op).outbox = client.outbox /\ Over(op).status = client.status /\ Over(op).epoch = client.epoch
      BY <1>3, <1>6 DEF State
    <2>2. Tail(client.outbox) \in Seq(Message)
      BY <1>1, <1>3 DEF State
    <2> QED
      BY <1>5, <1>6, <1>7, <2>1, <2>2 DEF State
  <1>9. Reads(a)
    <2>1. \A e \in DOMAIN a.ops : Current(a, e) => e.kind = "read"
      BY <1>4, <1>5, <1>6, <1>8 DEF InFlight, Current, Expects
    <2>2. \A e \in DOMAIN a.ops : e.epoch <= a.epoch /\ (Current(a, e) => e = OpOf(a, "read") /\ a.ops[e] = 1)
      BY <1>4, <1>6, <1>8, <2>1 DEF InFlight, Current, OpOf
    <2>3. OpOf(client, "read") \in DOMAIN client.ops /\ OpOf(client, "read") # op /\ OpOf(client, "read") = OpOf(a, "read")
      BY <1>1, <1>4, <1>5, <1>8 DEF InFlight, Expects, Kind, OpOf
    <2> QED
      BY <1>6, <1>8, <2>2, <2>3 DEF Reads
  <1>10. client' \in State /\ InFlight(client', attempts) /\ client' = [a EXCEPT !.ops = client'.ops]
    BY <1>1, <1>7, <1>8, <1>9, DoWriteInFlight
  <1>11. client'.status = "ready" /\ client'.outbox = Tail(client.outbox)
    BY <1>8, <1>10 DEF State
  <1>12. sent' = [c \in Call |-> IF c = Head(client.outbox) THEN sent[c] + 1 ELSE sent[c]]
    BY <1>1, <1>5 DEF Delivers
  <1>13. \A c \in Call : OneRequest(c)'
    BY <1>1, <1>2, <1>3, <1>11, <1>12, RequestWritten DEF Inv
  <1>14. Types'
    <2>1. sent' \in [Call -> Nat]
      BY <1>3, <1>12 DEF Types
    <2> QED
      BY <1>2, <1>3, <1>10, <2>1 DEF Types
  <1>15. Posts'
    BY <1>2, <1>5, <1>11 DEF Posts, Inv
  <1>16. InFlight(client, attempts)' /\ Trying'
    BY <1>2, <1>4, <1>10, <1>11 DEF Trying, InFlight, Expects, OpOf, Current
  <1> QED
    BY <1>13, <1>14, <1>15, <1>16 DEF Inv

LEMMA ReadDoneStep ==
    ASSUME Inv, ReadDone PROVE Inv'
  <1>1. PICK op \in DOMAIN client.ops, message \in responses : op.kind = "read" /\ ~Stale(op)
            /\ client' = DoRead([Over(op) EXCEPT !.map = @ \ {message}])
    BY DEF ReadDone, Pending
  <1>2. UNCHANGED <<reference, posted, sent, stage, enable_reconnect, attempts, dropped>> /\ reference = TRUE
    BY <1>1 DEF ReadDone, user, Stale, Inv, Types
  <1>3. client \in State /\ attempts' \in Nat /\ dropped' \in BOOLEAN
    BY <1>2 DEF Inv, Types
  <1>4. /\ InFlight(client, attempts) /\ attempts \in Nat \ {0}
        /\ op = OpOf(client, op.kind) /\ client.ops[op] = 1
    BY <1>1, <1>2, Acts
  <1>5. /\ Over(op) \in State /\ Over(op) = [client EXCEPT !.ops = Over(op).ops]
        /\ DOMAIN Over(op).ops \subseteq DOMAIN client.ops /\ op \notin DOMAIN Over(op).ops
        /\ \A e \in DOMAIN client.ops : e # op => e \in DOMAIN Over(op).ops /\ Over(op).ops[e] = client.ops[e]
    BY <1>3, <1>4, OverProperties
  <1>6. PICK a : a = [Over(op) EXCEPT !.map = @ \ {message}]
    OBVIOUS
  <1>7. /\ a \in State /\ a.ops = Over(op).ops /\ a.status = client.status /\ a.epoch = client.epoch
        /\ a.outbox = client.outbox
    <2>1. Over(op).outbox = client.outbox /\ Over(op).status = client.status /\ Over(op).epoch = client.epoch
      BY <1>3, <1>5 DEF State
    <2> QED
      BY <1>5, <1>6, <2>1 DEF State
  <1>8. OpWith(a, "read", beat) = op
    BY <1>1, <1>4, <1>7 DEF OpWith, OpOf
  <1>9. /\ client' \in State /\ client' = [a EXCEPT !.ops = client'.ops]
        /\ DOMAIN client'.ops = DOMAIN a.ops \cup {op} /\ \A e \in DOMAIN a.ops : e # op => client'.ops[e] = a.ops[e]
        /\ client'.ops[op] = 1
    <2>1. client' = StartedWith(a, "read", beat) /\ "read" \in Kind /\ beat \in Message
      BY <1>1, <1>6 DEF DoRead, Started, Kind, Message
    <2> QED
      BY <1>5, <1>7, <1>8, <2>1, StartedProperties
  <1>10. client'.status = client.status /\ client'.epoch = client.epoch /\ client'.outbox = client.outbox
    BY <1>7, <1>9 DEF State
  <1>11. DOMAIN client'.ops = DOMAIN client.ops /\ \A e \in DOMAIN client.ops : client'.ops[e] = client.ops[e]
    BY <1>4, <1>5, <1>7, <1>9
  <1>12. InFlight(client', attempts')
    BY <1>2, <1>4, <1>10, <1>11 DEF InFlight, Current, Expects, OpOf
  <1>13. Trying'
    BY <1>2, <1>10 DEF Inv, Trying
  <1> QED
    BY <1>2, <1>3, <1>4, <1>9, <1>10, <1>12, <1>13, HandlerStep

LEMMA TransferFailsStep ==
    ASSUME Inv, TransferFails PROVE Inv'
  <1>1. PICK op \in DOMAIN client.ops : op.kind \in {"read", "write"} /\ ~Stale(op)
            /\ client' = ErrorCallback(Close(Over(op), FALSE))
    BY DEF TransferFails, Pending, Becomes
  <1>2. UNCHANGED <<reference, posted, sent, stage, enable_reconnect, attempts, dropped>> /\ reference = TRUE
        /\ enable_reconnect \in BOOLEAN
    BY <1>1 DEF TransferFails, user, idle, Stale, Inv, Types
  <1>3. client \in State /\ attempts' \in Nat /\ dropped' \in BOOLEAN
    BY <1>2 DEF Inv, Types
  <1>4. Expects(client, attempts, op.kind) /\ attempts \in Nat \ {0}
    BY <1>1, <1>2, Acts
  <1>5. client.status = "ready"
    BY <1>1, <1>4 DEF Expects
  <1>6. \A e \in DOMAIN client.ops : e.epoch <= client.epoch /\ e.kind # "delay"
    BY <1>2, <1>5, NoDelay
  <1>7. Over(op) \in State /\ Over(op).status = "ready" /\ \A e \in DOMAIN Over(op).ops : e.epoch <= Over(op).epoch /\ e.kind # "delay"
    BY <1>3, <1>5, <1>6, OverProperties DEF State
  <1>8. PICK a : a = Close(Over(op), FALSE)
    OBVIOUS
  <1>9. a \in State /\ Quiet(a) /\ a.status = "closed" /\ a.outbox = <<>>
    BY <1>7, <1>8, CloseQuiet
  <1>10. /\ client' \in State /\ InFlight(client', attempts) /\ client'.outbox = <<>>
         /\ client'.status = IF enable_reconnect THEN "wait_connecting" ELSE "closed"
    BY <1>1, <1>2, <1>4, <1>8, <1>9, ErrorCallbackInFlight
  <1>11. Trying'
    BY <1>2, <1>4, <1>10 DEF Trying
  <1> QED
    BY <1>2, <1>3, <1>4, <1>10, <1>11, HandlerStep

\* What is posted runs: what remains of the posts.
LEMMA RestOfPosts ==
    ASSUME Inv, posted # <<>>, posted' = Tail(posted)
    PROVE  /\ posted' \in Seq(AnItem) /\ Head(posted) \in AnItem
           /\ 1 \in DOMAIN posted /\ Head(posted) = posted[1]
           /\ \A i \in DOMAIN posted' : i \in Nat /\ i + 1 \in DOMAIN posted /\ posted'[i] = posted[i + 1] /\ i + 1 # 1
  <1>1. posted \in Seq(AnItem)
    BY DEF Inv, Types
  <1> QED
    BY <1>1

LEMMA RunPostedStep ==
    ASSUME Inv, RunPosted PROVE Inv'
  <1>1. posted # <<>> /\ posted' = Tail(posted)
        /\ UNCHANGED <<reference, sent, stage, enable_reconnect, dropped>> /\ reference \in BOOLEAN
    BY DEF RunPosted, user, idle, Inv, Types
  <1>2. /\ posted' \in Seq(AnItem) /\ Head(posted) \in AnItem
        /\ 1 \in DOMAIN posted /\ Head(posted) = posted[1]
        /\ \A i \in DOMAIN posted' : i \in Nat /\ i + 1 \in DOMAIN posted /\ posted'[i] = posted[i + 1] /\ i + 1 # 1
    BY <1>1, RestOfPosts
  <1>3. client \in State /\ attempts \in Nat /\ Types
    BY DEF Inv, Types
  <1>4. ASSUME client' \in State, attempts' \in Nat PROVE Types'
    BY <1>1, <1>2, <1>3, <1>4 DEF Types
  <1>5. CASE Head(posted).kind = "connect" /\ client' = DoAsyncConnect(client) /\ attempts' = attempts + 1
    <2>1. PICK a : a = [client EXCEPT !.status = "dns_resolving"]
      OBVIOUS
    <2>2. a \in State /\ a.outbox = client.outbox /\ a.ops = client.ops
      BY <1>3, <2>1 DEF State, Status
    <2>3. client' \in State /\ client' = [a EXCEPT !.ops = client'.ops]
      <3>1. client' = StartedWith(a, "resolve", beat) /\ "resolve" \in Kind /\ beat \in Message
        BY <1>5, <2>1 DEF DoAsyncConnect, Started, Kind, Message
      <3> QED
        BY <2>2, <3>1, StartedProperties
    <2>4. client'.outbox = client.outbox /\ attempts' \in Nat
      BY <1>3, <1>5, <2>2, <2>3 DEF State
    <2>5. Types' /\ \A c \in Call : OneRequest(c)'
      BY <1>1, <1>3, <1>4, <2>3, <2>4, RequestsRun DEF Inv
    <2>6. \A i \in DOMAIN posted' : posted'[i].kind # "connect"
      BY <1>2, <1>5 DEF Inv, Posts
    <2>7. Posts'
      BY <1>1, <1>2, <2>6 DEF Inv, Posts
    <2>8. ASSUME reference PROVE InFlight(client', attempts') /\ Trying'
      <3>1. attempts = 0 /\ client.status = "wait_connecting" /\ InFlight(client, attempts)
        BY <1>2, <1>5, <2>8 DEF Inv, Posts
      <3>2. Quiet(client)
        BY <3>1 DEF InFlight, Quiet, Expects
      <3>3. InFlight(client', attempts') /\ client'.status = "dns_resolving"
        BY <1>3, <1>5, <3>2, DoAsyncConnectInFlight
      <3> QED
        BY <1>5, <3>1, <3>3 DEF Trying
    <2> QED
      BY <1>1, <2>5, <2>7, <2>8 DEF Inv, InFlight, Expects, Current, OpOf
  <1>6. CASE Head(posted).kind = "release" /\ client' = Close(client, TRUE) /\ attempts' = attempts
    <2>1. ~reference
      BY <1>2, <1>6 DEF Inv, Posts
    <2>2. client' \in State /\ client'.outbox = <<>>
      <3>1. client.epoch + 1 \in Nat /\ <<>> \in Seq(Message) /\ {} \in SUBSET Call
        BY <1>3 DEF State
      <3> QED
        BY <1>3, <1>6, <3>1 DEF Close, State, Status
    <2>3. Types' /\ \A c \in Call : OneRequest(c)'
      BY <1>1, <1>3, <1>4, <1>6, <2>2, RequestsRun DEF Inv
    <2>4. Posts'
      BY <1>1, <1>2, <2>1 DEF Inv, Posts
    <2> QED
      BY <1>1, <2>1, <2>3, <2>4 DEF Inv
  <1>7. CASE UNCHANGED <<client, attempts>>
    <2>1. Types' /\ \A c \in Call : OneRequest(c)'
      BY <1>1, <1>3, <1>4, <1>7, RequestsRun DEF Inv
    <2>2. Posts'
      BY <1>1, <1>2, <1>7 DEF Inv, Posts
    <2>3. reference' => InFlight(client, attempts)' /\ Trying'
      BY <1>1, <1>7 DEF Inv, InFlight, Trying, Expects, Current, OpOf
    <2> QED
      BY <2>1, <2>2, <2>3 DEF Inv
  <1>8. CASE Head(posted).kind = "write" /\ reference /\ client' = Queue(client, Head(posted).message) /\ attempts' = attempts
    <2>1. PICK m \in Message : m = Head(posted).message
      BY <1>2 DEF AnItem
    <2>2. /\ client' \in State /\ InFlight(client', attempts') /\ client'.status = client.status
          /\ client'.outbox = Append(client.outbox, Head(posted).message)
      BY <1>3, <1>8, <2>1, QueueInFlight DEF Inv
    <2>3. Types' /\ \A c \in Call : OneRequest(c)'
      BY <1>1, <1>3, <1>4, <1>8, <2>2, RequestQueued DEF Inv
    <2>4. Posts'
      <3>1. Posts /\ reference' = reference /\ attempts' = attempts /\ client'.status = client.status
        BY <1>1, <1>8, <2>2 DEF Inv
      <3>2. \A i \in DOMAIN posted' : i \in Nat /\ i + 1 \in DOMAIN posted /\ posted'[i] = posted[i + 1]
        BY <1>2
      <3> QED
        BY <3>1, <3>2 DEF Posts
    <2>5. InFlight(client, attempts)' /\ Trying'
      BY <1>1, <1>8, <2>2 DEF Inv, InFlight, Trying, Expects, Current, OpOf
    <2> QED
      BY <2>3, <2>4, <2>5 DEF Inv
  <1> QED
    BY <1>5, <1>6, <1>7, <1>8 DEF RunPosted, Becomes

-----------------------------------------------------------------------------
(* The invariant, and what it implies. *)

LEMMA InitInv == Init => Inv
  <1> SUFFICES ASSUME Init PROVE Inv
    OBVIOUS
  <1>1. client \in State /\ DOMAIN client.ops = {} /\ client.status = "closed" /\ client.outbox = <<>>
    <2>1. <<>> \in [{} -> Nat \ {0}] /\ <<>> \in Seq(Message) /\ DOMAIN <<>> = {}
      OBVIOUS
    <2>2. {} \in SUBSET AnOp
      OBVIOUS
    <2>3. <<>> \in OpBag
      BY <2>1, <2>2 DEF OpBag
    <2> QED
      BY <2>1, <2>3 DEF Init, State, Status
  <1>2. Types
    <2>1. posted \in Seq(AnItem) /\ DOMAIN posted = {}
      BY DEF Init
    <2>2. stage \in [Call -> {"idle", "begun", "mapped", "asked"}] /\ sent \in [Call -> Nat]
      BY DEF Init
    <2> QED
      BY <1>1, <2>1, <2>2 DEF Init, Types
  <1>3. Posts /\ Trying
    BY DEF Init, Posts, Trying
  <1>4. InFlight(client, attempts)
    BY <1>1 DEF InFlight, Expects
  <1>5. \A c \in Call : OneRequest(c)
    <2> SUFFICES ASSUME NEW c \in Call PROVE OneRequest(c)
      OBVIOUS
    <2>1. DOMAIN posted = {} /\ DOMAIN client.outbox = {} /\ sent[c] = 0
      BY <1>1 DEF Init
    <2>2. ~Unwritten(c)
      BY <2>1 DEF Unwritten
    <2> QED
      BY <2>1, <2>2 DEF OneRequest
  <1> QED
    BY <1>2, <1>3, <1>4, <1>5 DEF Inv

LEMMA NextInv == Inv /\ [Next]_vars => Inv'
  <1> SUFFICES ASSUME Inv, [Next]_vars PROVE Inv'
    OBVIOUS
  <1>1. CASE Io
    BY <1>1, RunPostedStep, DiscardedStep, ResolvedStep, ConnectedStep, RefusedStep, DelayOverStep, WriteDoneStep,
       ReadDoneStep, TransferFailsStep DEF Io
  <1>2. CASE Deadline \/ \E c \in Call : CallTimeout(c)
    BY <1>2, DeadlineStep, TimeoutStep
  <1>3. CASE Connect \/ ReleaseObj \/ \E c \in Call : Begin(c) \/ Emplace(c) \/ Ask(c)
    BY <1>3, ConnectStep, ReleaseStep, BeginStep, EmplaceStep, AskStep
  <1>4. CASE Serve \/ ServerGone
    BY <1>4, ServerStep
  <1>5. CASE UNCHANGED vars
    <2>1. UNCHANGED <<reference, posted, sent, stage, enable_reconnect, attempts, dropped, client>>
      BY <1>5 DEF vars, user, idle
    <2>2. client' \in State
      BY <2>1 DEF Inv, Types
    <2> QED
      BY <2>1, <2>2, SameStep
  <1> QED
    BY <1>1, <1>2, <1>3, <1>4, <1>5 DEF Next

\* An operation that the client waits for is live, and a live one is waited for.
LEMMA LiveOps ==
    ASSUME Inv, reference, NEW kind \in Kind \ {"delay"}
    PROVE  IF Expects(client, attempts, kind) THEN Single(kind) ELSE Live(kind) = {}
  <1>1. InFlight(client, attempts)
    BY DEF Inv
  <1>2. Live(kind) = {op \in DOMAIN client.ops : op.kind = kind /\ op.epoch = client.epoch}
    BY DEF Live, Pending, Stale
  <1>3. \A op \in Live(kind) : Expects(client, attempts, kind) /\ op = OpOf(client, kind) /\ client.ops[op] = 1
    BY <1>1, <1>2 DEF InFlight, Current
  <1>4. Expects(client, attempts, kind) => OpOf(client, kind) \in Live(kind)
    BY <1>1, <1>2 DEF InFlight, OpOf
  <1>5. CASE Expects(client, attempts, kind)
    <2>1. PICK op \in Live(kind) : op = OpOf(client, kind)
      BY <1>4, <1>5
    <2>2. Live(kind) = {op} /\ client.ops[op] = 1
      BY <1>3, <2>1
    <2> QED
      BY <1>5, <2>1, <2>2 DEF Single
  <1>6. CASE ~Expects(client, attempts, kind)
    BY <1>3, <1>6
  <1> QED
    BY <1>5, <1>6

\* A connection that is ready has exactly one read in flight, and exactly one write when
\* there is something to write; the handlers that earlier connections left behind do not
\* start a second loop.
THEOREM OneReadLoop == Spec => []OneLoop
  <1>1. Inv => OneLoop
    <2> SUFFICES ASSUME Inv, reference
                 PROVE  /\ IF Has_connected(client) THEN Single("read") ELSE Live("read") = {}
                        /\ IF Has_connected(client) /\ client.outbox # <<>> THEN Single("write") ELSE Live("write") = {}
      BY DEF OneLoop
    <2>1. Expects(client, attempts, "read") <=> Has_connected(client)
      BY DEF Expects, Has_connected
    <2>2. Expects(client, attempts, "write") <=> Has_connected(client) /\ client.outbox # <<>>
      BY DEF Expects, Has_connected
    <2>3. IF Expects(client, attempts, "read") THEN Single("read") ELSE Live("read") = {}
      BY LiveOps DEF Kind
    <2>4. IF Expects(client, attempts, "write") THEN Single("write") ELSE Live("write") = {}
      BY LiveOps DEF Kind
    <2> QED
      BY <2>1, <2>2, <2>3, <2>4
  <1> QED
    BY <1>1, InitInv, NextInv, PTL DEF Spec

\* No request is written to a socket twice, whatever connections the client goes through:
\* close empties the outbox, and a write that is done removes its message from it.
THEOREM RequestsWrittenOnce == Spec => []SentOnce
  <1>1. Inv => SentOnce
    BY DEF Inv, OneRequest, SentOnce
  <1> QED
    BY <1>1, InitInv, NextInv, PTL DEF Spec

\* A client with automatic reconnection is connected or on its way to the next attempt,
\* until it is released or the deadline timer closes the connection.
THEOREM NeverGivesUp == Spec => []KeepsTrying
  <1>1. Inv => KeepsTrying
    <2> SUFFICES ASSUME Inv, enable_reconnect, reference, attempts > 0, ~dropped, ~Has_connected(client)
                 PROVE  Live("resolve") # {} \/ Live("connect") # {} \/ Pending("delay") # {}
      BY DEF KeepsTrying
    <2>1. client.status \in {"wait_connecting", "dns_resolving", "tcp_handshaking"} /\ InFlight(client, attempts)
      BY DEF Inv, Trying, Types, State, Status, Has_connected
    <2>2. CASE client.status = "dns_resolving"
      <3>1. Expects(client, attempts, "resolve")
        BY <2>2 DEF Expects
      <3>2. Single("resolve")
        BY <3>1, LiveOps DEF Kind
      <3> QED
        BY <3>2 DEF Single
    <2>3. CASE client.status = "tcp_handshaking"
      <3>1. Expects(client, attempts, "connect")
        BY <2>3 DEF Expects
      <3>2. Single("connect")
        BY <3>1, LiveOps DEF Kind
      <3> QED
        BY <3>2 DEF Single
    <2>4. CASE client.status = "wait_connecting"
      <3>1. OpOf(client, "delay") \in DOMAIN client.ops
        BY <2>1, <2>4 DEF Expects, InFlight, Kind
      <3>2. OpOf(client, "delay").kind = "delay"
        BY DEF OpOf
      <3> QED
        BY <3>1, <3>2 DEF Pending
    <2> QED
      BY <2>1, <2>2, <2>3, <2>4
  <1> QED
    BY <1>1, InitInv, NextInv, PTL DEF Spec

=============================================================================
