--------------------------- MODULE FrpServer_proof ---------------------------
(* Proofs about FrpServer, for every set of services and every number of       *)
(* session objects and breaks: the table of names agrees with the              *)
(* registrations, and a session that lives is found.                           *)
(*                                                                             *)
(* The invariant is about the three tables that the mutex guards, and so a     *)
(* predicate on them: remove_session, which other operations call in the       *)
(* middle of what they do, keeps it whatever it is given.                      *)
EXTENDS FrpServer, TLAPS

Id == Client \cup {Conn, NoId}
Task == {"close", "upgrade"}
Object ==
    [phase : Phase, by : Client \cup {NoId}, uuid : Client \cup {NoId}, connection_uuid : Id,
     valid : BOOLEAN, posted : Seq(Task), groups : SUBSET Service, ok : BOOLEAN, reading : BOOLEAN,
     release_cb : Client \cup {NoId}, forward : Nat, bad : Nat]
Group == UNION {[K -> Session] : K \in SUBSET Id}

Types(ss, m, names, o) ==
    /\ ss \in [Session -> Object] /\ m \in [Client -> Group]
    /\ names \in SUBSET Service /\ o \in [Client -> SUBSET Service]

\* What an entry of sessions_by_uuid_ is, the signalling session or a data session.
Signalling(s, u, services) ==
    s.by = u /\ s.uuid = u /\ s.connection_uuid = u /\ s.phase = "authenticated" /\ s.groups = services
DataHalf(s, u) == s.by = u /\ s.uuid = u /\ s.connection_uuid = Conn /\ s.phase = "data"

Entries(ss, m, o, u) ==
    /\ DOMAIN m[u] \subseteq {u, Conn}
    /\ Conn \in DOMAIN m[u] => u \in DOMAIN m[u] /\ DataHalf(ss[m[u][Conn]], u)
    /\ u \in DOMAIN m[u] => Signalling(ss[m[u][u]], u, o[u])

\* The names are those of the listed clients, which share none.
Names(m, names, o) ==
    /\ \A n \in Service : n \in names <=> \E u \in Client : u \in DOMAIN m[u] /\ n \in o[u]
    /\ \A u, v \in Client : u /= v /\ u \in DOMAIN m[u] /\ v \in DOMAIN m[v] => o[u] \cap o[v] = {}

\* What a session is told, in each of its phases, and where it is listed.
Consistent(s) ==
    /\ s.phase \notin {"free", "closed"} => s.by \in Client
    /\ s.uuid \in {NoId, s.by} /\ (s.connection_uuid = NoId <=> s.uuid = NoId)
    /\ s.phase \in {"free", "initial", "hello"} => s.connection_uuid = NoId /\ ~s.ok
    /\ s.phase \in {"authenticated", "registering"} => s.connection_uuid \in {NoId, s.by}
    /\ s.phase = "data" => s.connection_uuid \in {NoId, Conn} /\ ~s.ok
    /\ s.phase \in {"closed", "free"} => ~s.valid
    /\ (\E k \in DOMAIN s.posted : s.posted[k] = "close") => ~s.valid

Found(ss, m, i) ==
    LET s == ss[i]
    IN  /\ s.valid /\ s.ok => s.by \in DOMAIN m[s.by] /\ m[s.by][s.by] = i
        /\ s.valid /\ s.connection_uuid = Conn => Conn \in DOMAIN m[s.by] /\ m[s.by][Conn] = i
        /\ s.phase = "registering" => DOMAIN m[s.by] = {}

Good(ss, m, names, o) ==
    /\ Types(ss, m, names, o) /\ Names(m, names, o)
    /\ \A u \in Client : Entries(ss, m, o, u)
    /\ \A i \in Session : Consistent(ss[i]) /\ Found(ss, m, i)
    /\ \A i, k \in Session : ss[i].phase = "registering" /\ ss[k].phase = "registering" /\ ss[i].by = ss[k].by => i = k

Inv == Good(session, sessions_by_uuid, names_cache, offers)

-----------------------------------------------------------------------------
(* Sessions that change. *)

\* What leaves everything but the validity, the relay and the tasks of a session alone.
Kept(s, r) ==
    /\ r \in Object /\ r.phase = s.phase /\ r.by = s.by /\ r.uuid = s.uuid /\ r.connection_uuid = s.connection_uuid
    /\ r.groups = s.groups /\ r.ok = s.ok /\ (r.valid => s.valid)
    /\ (\E k \in DOMAIN r.posted : r.posted[k] = "close") => ~r.valid

LEMMA KeptGood ==
    ASSUME NEW ss, NEW m, NEW names, NEW o, Good(ss, m, names, o),
           NEW tt \in [Session -> Object], \A i \in Session : Kept(ss[i], tt[i])
    PROVE  Good(tt, m, names, o)
  <1>1. Types(tt, m, names, o) /\ Names(m, names, o)
    BY DEF Good, Types
  <1>2. ASSUME NEW u \in Client PROVE Entries(tt, m, o, u)
    <2>1. Entries(ss, m, o, u) /\ m[u] \in Group
      BY DEF Good, Types
    <2>2. \A k \in DOMAIN m[u] : m[u][k] \in Session
      BY <2>1 DEF Group
    <2> QED
      BY <2>1, <2>2 DEF Entries, Kept, Signalling, DataHalf
  <1>3. ASSUME NEW i \in Session PROVE Consistent(tt[i]) /\ Found(tt, m, i)
    <2>1. Consistent(ss[i]) /\ Found(ss, m, i) /\ Kept(ss[i], tt[i])
      BY DEF Good
    <2>2. Consistent(tt[i])
      BY <2>1 DEF Consistent, Kept
    <2>3. Found(tt, m, i)
      BY <2>1 DEF Found, Kept
    <2> QED
      BY <2>2, <2>3
  <1>4. \A i, k \in Session : tt[i].phase = "registering" /\ tt[k].phase = "registering" /\ tt[i].by = tt[k].by => i = k
    BY DEF Good, Kept
  <1> QED
    BY <1>1, <1>2, <1>3, <1>4 DEF Good

\* Who is listed is a registered session or a recorded half.
Unlisted(m, i) == \A u \in Client : \A k \in DOMAIN m[u] : m[u][k] /= i

LEMMA PhaseUnlisted ==
    ASSUME NEW ss, NEW m, NEW names, NEW o, Good(ss, m, names, o), NEW i,
           ss[i].phase \notin {"authenticated", "data"} \/ ss[i].uuid = NoId
    PROVE  Unlisted(m, i)
  <1> SUFFICES ASSUME NEW u \in Client, NEW k \in DOMAIN m[u] PROVE m[u][k] /= i
    BY DEF Unlisted
  <1>1. Entries(ss, m, o, u) /\ u /= NoId
    BY ServerAssumption DEF Good
  <1> QED
    BY <1>1 DEF Entries, Signalling, DataHalf

\* A session that is not listed changes.
LEMMA OneGood ==
    ASSUME NEW ss, NEW m, NEW names, NEW o, Good(ss, m, names, o), NEW i \in Session, Unlisted(m, i),
           NEW r \in Object, Consistent(r), ~(r.valid /\ r.ok), ~(r.valid /\ r.connection_uuid = Conn),
           r.phase /= "registering", NEW tt, tt = [ss EXCEPT ![i] = r]
    PROVE  Good(tt, m, names, o)
  <1>1. Types(tt, m, names, o) /\ Names(m, names, o) /\ ss \in [Session -> Object]
    BY DEF Good, Types
  <1>2. tt[i] = r /\ \A k \in Session : k /= i => tt[k] = ss[k]
    BY <1>1
  <1>3. ASSUME NEW u \in Client PROVE Entries(tt, m, o, u)
    <2>1. Entries(ss, m, o, u) /\ m[u] \in Group
      BY DEF Good, Types
    <2>2. \A k \in DOMAIN m[u] : m[u][k] \in Session /\ m[u][k] /= i
      BY <2>1 DEF Group, Unlisted
    <2>3. \A k \in DOMAIN m[u] : tt[m[u][k]] = ss[m[u][k]]
      BY <1>2, <2>2
    <2> QED
      BY <2>1, <2>3 DEF Entries
  <1>4. ASSUME NEW k \in Session PROVE Consistent(tt[k]) /\ Found(tt, m, k)
    BY <1>2 DEF Good, Found
  <1>5. \A k, l \in Session : tt[k].phase = "registering" /\ tt[l].phase = "registering" /\ tt[k].by = tt[l].by => k = l
    BY <1>2 DEF Good
  <1> QED
    BY <1>1, <1>3, <1>4, <1>5 DEF Good

-----------------------------------------------------------------------------
(* release_obj and remove_session. *)

LEMMA ReleasedKept ==
    ASSUME NEW ss \in [Session -> Object], NEW i \in Session, Consistent(ss[i])
    PROVE  /\ Kept(ss[i], ReleaseObj(ss, i)[i]) /\ ~ReleaseObj(ss, i)[i].valid
           /\ ReleaseObj(ss, i) \in [Session -> Object]
           /\ \A k \in Session \ {i} : ReleaseObj(ss, i)[k] = ss[k]
  <1>1. CASE ~ss[i].valid
    BY <1>1 DEF ReleaseObj, Kept, Consistent
  <1>2. CASE ss[i].valid
    <2>1. Append(ss[i].posted, "close") \in Seq(Task)
      BY DEF Object, Task
    <2>2. ReleaseObj(ss, i) = [ss EXCEPT ![i] = [ss[i] EXCEPT !.valid = FALSE, !.posted = Append(@, "close")]]
      BY <1>2 DEF ReleaseObj
    <2>3. [ss[i] EXCEPT !.valid = FALSE, !.posted = Append(@, "close")] \in Object
      BY <2>1 DEF Object
    <2>4. Kept(ss[i], [ss[i] EXCEPT !.valid = FALSE, !.posted = Append(@, "close")])
      BY <2>3 DEF Kept, Object
    <2> QED
      BY <2>2, <2>3, <2>4 DEF Object
  <1> QED
    BY <1>1, <1>2

LEMMA ReleaseAllKept ==
    ASSUME NEW ss \in [Session -> Object], \A i \in Session : Consistent(ss[i]), NEW removed, NEW tt, tt = ReleaseAll(ss, removed)
    PROVE  /\ tt \in [Session -> Object] /\ \A i \in Session : Kept(ss[i], tt[i])
           /\ \A i \in Session : (i \in removed => ~tt[i].valid) /\ (~ss[i].valid => tt[i] = ss[i])
  <1>1. \A i \in Session : Kept(ss[i], ss[i])
    BY DEF Kept, Consistent
  <1>2. \A i \in Session : tt[i] = IF i \in removed THEN ReleaseObj(ss, i)[i] ELSE ss[i]
    BY DEF ReleaseAll
  <1>3. \A i \in Session : Kept(ss[i], tt[i]) /\ (i \in removed => ~tt[i].valid)
    BY <1>1, <1>2, ReleasedKept
  <1>4. \A i \in Session : ~ss[i].valid => tt[i] = ss[i]
    BY <1>2 DEF ReleaseObj
  <1>5. tt \in [Session -> Object]
    BY <1>3 DEF ReleaseAll, Kept
  <1> QED
    BY <1>3, <1>4, <1>5

\* The tables as one record, as the operations hand it on.
Sound(t, o) == t = [session |-> t.session, map |-> t.map, names |-> t.names] /\ Good(t.session, t.map, t.names, o)

\* Some of the entries are removed, and the sessions of these released.
Shrunk(t, r) ==
    /\ \A i \in Session : Kept(t.session[i], r.session[i])
    /\ \A i \in Session : ~t.session[i].valid => r.session[i] = t.session[i]
    /\ \A u \in Client : /\ DOMAIN r.map[u] \subseteq DOMAIN t.map[u]
                         /\ \A k \in DOMAIN r.map[u] : r.map[u][k] = t.map[u][k]

LEMMA SoundFacts ==
    ASSUME NEW t, NEW o, Sound(t, o)
    PROVE  /\ t.session \in [Session -> Object] /\ t.map \in [Client -> Group]
           /\ \A i \in Session : Consistent(t.session[i]) /\ Kept(t.session[i], t.session[i])
           /\ \A u \in Client : Entries(t.session, t.map, o, u) /\ \A k \in DOMAIN t.map[u] : t.map[u][k] \in Session
  <1>1. t.session \in [Session -> Object] /\ t.map \in [Client -> Group] /\ \A i \in Session : Consistent(t.session[i])
    BY DEF Sound, Good, Types
  <1>2. \A i \in Session : Kept(t.session[i], t.session[i])
    BY <1>1 DEF Kept, Consistent
  <1>3. \A u \in Client : \A k \in DOMAIN t.map[u] : t.map[u][k] \in Session
    BY <1>1 DEF Group
  <1>4. \A u \in Client : Entries(t.session, t.map, o, u)
    BY DEF Sound, Good
  <1> QED
    BY <1>1, <1>2, <1>3, <1>4

\* Fewer entries, with the sessions of those that are gone released and the names with them.
LEMMA ShrunkSound ==
    ASSUME NEW t, NEW o, Sound(t, o), NEW r, Shrunk(t, r),
           r = [session |-> r.session, map |-> r.map, names |-> r.names],
           r.session \in [Session -> Object], r.map \in [Client -> Group], r.names \in SUBSET Service,
           Names(r.map, r.names, o),
           \A u \in Client : Conn \in DOMAIN r.map[u] => u \in DOMAIN r.map[u],
           \A u \in Client : \A k \in DOMAIN t.map[u] : k \notin DOMAIN r.map[u] => ~r.session[t.map[u][k]].valid
    PROVE  Sound(r, o)
  <1>1. Types(r.session, r.map, r.names, o)
    BY DEF Types, Sound, Good
  <1>2. ASSUME NEW u \in Client PROVE Entries(r.session, r.map, o, u)
    <2>1. Entries(t.session, t.map, o, u) /\ \A k \in DOMAIN t.map[u] : t.map[u][k] \in Session
      BY SoundFacts
    <2>2. \A k \in DOMAIN r.map[u] : k \in DOMAIN t.map[u] /\ r.map[u][k] = t.map[u][k]
                                     /\ Kept(t.session[t.map[u][k]], r.session[t.map[u][k]])
      BY <2>1 DEF Shrunk
    <2>3. DOMAIN r.map[u] \subseteq {u, Conn}
      BY <2>1, <2>2 DEF Entries
    <2>4. Conn \in DOMAIN r.map[u] => DataHalf(r.session[r.map[u][Conn]], u)
      <3> SUFFICES ASSUME Conn \in DOMAIN r.map[u] PROVE DataHalf(r.session[r.map[u][Conn]], u)
        OBVIOUS
      <3>1. PICK i : i = t.map[u][Conn] /\ r.map[u][Conn] = i /\ Kept(t.session[i], r.session[i])
        BY <2>2
      <3>2. DataHalf(t.session[i], u)
        BY <2>1, <2>2, <3>1 DEF Entries
      <3> QED
        BY <3>1, <3>2 DEF DataHalf, Kept
    <2>5. u \in DOMAIN r.map[u] => Signalling(r.session[r.map[u][u]], u, o[u])
      <3> SUFFICES ASSUME u \in DOMAIN r.map[u] PROVE Signalling(r.session[r.map[u][u]], u, o[u])
        OBVIOUS
      <3>1. PICK i : i = t.map[u][u] /\ r.map[u][u] = i /\ Kept(t.session[i], r.session[i])
        BY <2>2
      <3>2. Signalling(t.session[i], u, o[u])
        BY <2>1, <2>2, <3>1 DEF Entries
      <3> QED
        BY <3>1, <3>2 DEF Signalling, Kept
    <2> QED
      BY <2>3, <2>4, <2>5 DEF Entries
  <1>3. ASSUME NEW i \in Session PROVE Consistent(r.session[i]) /\ Found(r.session, r.map, i)
    <2> DEFINE s == t.session[i]
               q == r.session[i]
    <2>1. Consistent(s) /\ Found(t.session, t.map, i) /\ Kept(s, q)
      BY DEF Sound, Good, Shrunk
    <2>2. Consistent(q)
      BY <2>1 DEF Consistent, Kept
    <2>3. CASE q.phase \in {"free", "closed"}
      BY <2>2, <2>3 DEF Found, Consistent
    <2>4. CASE q.phase \notin {"free", "closed"}
      <3>1. q.by \in Client
        BY <2>2, <2>4 DEF Consistent
      <3>2. q.by = s.by /\ q.ok = s.ok /\ q.connection_uuid = s.connection_uuid /\ q.phase = s.phase /\ (q.valid => s.valid)
        BY <2>1 DEF Kept
      <3> HIDE DEF s, q
      <3>3. DOMAIN r.map[q.by] \subseteq DOMAIN t.map[q.by] /\ \A k \in DOMAIN r.map[q.by] : r.map[q.by][k] = t.map[q.by][k]
        BY <3>1 DEF Shrunk
      <3>4. \A k \in DOMAIN t.map[q.by] : t.map[q.by][k] = i /\ q.valid => k \in DOMAIN r.map[q.by]
        BY <3>1 DEF q
      <3>5. q.valid /\ q.ok => q.by \in DOMAIN r.map[q.by] /\ r.map[q.by][q.by] = i
        BY <2>1, <3>2, <3>3, <3>4 DEF Found, s
      <3>6. q.valid /\ q.connection_uuid = Conn => Conn \in DOMAIN r.map[q.by] /\ r.map[q.by][Conn] = i
        BY <2>1, <3>2, <3>3, <3>4 DEF Found, s
      <3>7. q.phase = "registering" => DOMAIN r.map[q.by] = {}
        BY <2>1, <3>2, <3>3 DEF Found, s
      <3> QED
        BY <2>2, <3>5, <3>6, <3>7 DEF Found, q
    <2> QED
      BY <2>3, <2>4
  <1>4. \A i, k \in Session : r.session[i].phase = "registering" /\ r.session[k].phase = "registering"
                              /\ r.session[i].by = r.session[k].by => i = k
    BY DEF Sound, Good, Shrunk, Kept
  <1> QED
    BY <1>1, <1>2, <1>3, <1>4 DEF Good, Sound

LEMMA RemoveGroupSound ==
    ASSUME NEW t, NEW o, Sound(t, o), NEW u \in Client, DOMAIN t.map[u] /= {}, NEW r, r = RemoveGroup(t, u)
    PROVE  Sound(r, o) /\ Shrunk(t, r) /\ DOMAIN r.map[u] = {}
  <1> DEFINE removed == {t.map[u][k] : k \in DOMAIN t.map[u]}
             first == t.session[t.map[u][u]]
  <1>1. /\ r.session = ReleaseAll(t.session, removed) /\ r.map = [t.map EXCEPT ![u] = <<>>]
        /\ r.names = t.names \ first.groups /\ r = [session |-> r.session, map |-> r.map, names |-> r.names]
    BY DEF RemoveGroup
  <1>2. /\ t.session \in [Session -> Object] /\ t.map \in [Client -> Group] /\ \A i \in Session : Consistent(t.session[i])
        /\ Entries(t.session, t.map, o, u) /\ \A v \in Client : \A k \in DOMAIN t.map[v] : t.map[v][k] \in Session
    BY SoundFacts
  <1>3. u \in DOMAIN t.map[u] /\ first.groups = o[u]
    BY <1>2 DEF Entries, Signalling
  <1> HIDE DEF removed, first
  <1>4. /\ r.session \in [Session -> Object] /\ \A i \in Session : Kept(t.session[i], r.session[i])
        /\ \A i \in Session : (i \in removed => ~r.session[i].valid) /\ (~t.session[i].valid => r.session[i] = t.session[i])
    BY <1>1, <1>2, ReleaseAllKept
  <1>5. <<>> \in [{} -> Session] /\ DOMAIN <<>> = {}
    OBVIOUS
  <1>6. <<>> \in Group
    <2>1. {} \in SUBSET Id
      OBVIOUS
    <2> QED
      BY <1>5, <2>1 DEF Group
  <1>7. r.map \in [Client -> Group] /\ DOMAIN r.map[u] = {} /\ \A v \in Client : v /= u => r.map[v] = t.map[v]
    BY <1>1, <1>2, <1>5, <1>6
  <1>8. Shrunk(t, r)
    BY <1>4, <1>7 DEF Shrunk
  <1>9. Names(r.map, r.names, o) /\ r.names \in SUBSET Service
    <2>1. Names(t.map, t.names, o) /\ t.names \in SUBSET Service
      BY DEF Sound, Good, Types
    <2>2. \A n \in Service : n \in r.names <=> \E v \in Client : v \in DOMAIN r.map[v] /\ n \in o[v]
      BY <1>1, <1>3, <1>7, <2>1 DEF Names
    <2>3. \A v, w \in Client : v /= w /\ v \in DOMAIN r.map[v] /\ w \in DOMAIN r.map[w] => o[v] \cap o[w] = {}
      BY <1>7, <2>1 DEF Names
    <2> QED
      BY <1>1, <2>1, <2>2, <2>3 DEF Names
  <1>10. \A v \in Client : Conn \in DOMAIN r.map[v] => v \in DOMAIN r.map[v]
    <2>1. \A v \in Client : Entries(t.session, t.map, o, v)
      BY SoundFacts
    <2> QED
      BY <1>7, <2>1 DEF Entries
  <1>11. \A v \in Client : \A k \in DOMAIN t.map[v] : k \notin DOMAIN r.map[v] => ~r.session[t.map[v][k]].valid
    <2>1. \A k \in DOMAIN t.map[u] : t.map[u][k] \in removed
      BY DEF removed
    <2> QED
      BY <1>2, <1>4, <1>7, <2>1
  <1> QED
    BY <1>1, <1>4, <1>7, <1>8, <1>9, <1>10, <1>11, ShrunkSound

LEMMA RemoveOneSound ==
    ASSUME NEW t, NEW o, Sound(t, o), NEW u \in Client, Conn \in DOMAIN t.map[u], NEW r, r = RemoveOne(t, u, Conn)
    PROVE  Sound(r, o) /\ Shrunk(t, r) /\ Conn \notin DOMAIN r.map[u]
  <1>1. /\ t.session \in [Session -> Object] /\ t.map \in [Client -> Group] /\ \A i \in Session : Consistent(t.session[i])
        /\ \A v \in Client : Entries(t.session, t.map, o, v) /\ \A k \in DOMAIN t.map[v] : t.map[v][k] \in Session
    BY SoundFacts
  <1>2. t = [session |-> t.session, map |-> t.map, names |-> t.names]
    BY DEF Sound
  <1>3. /\ r.session = ReleaseAll(t.session, {t.map[u][Conn]}) /\ r.map = [t.map EXCEPT ![u] = Without(@, Conn)]
        /\ r.names = t.names /\ r = [session |-> r.session, map |-> r.map, names |-> r.names]
    BY <1>2 DEF RemoveOne
  <1>4. /\ r.session \in [Session -> Object] /\ \A i \in Session : Kept(t.session[i], r.session[i])
        /\ \A i \in Session : (i \in {t.map[u][Conn]} => ~r.session[i].valid) /\ (~t.session[i].valid => r.session[i] = t.session[i])
    BY <1>1, <1>3, ReleaseAllKept
  <1>5. Without(t.map[u], Conn) \in Group
    <2> DEFINE g == t.map[u]
    <2>0. g \in Group
      BY <1>1
    <2>1. PICK K \in SUBSET Id : g \in [K -> Session]
      BY <2>0 DEF Group
    <2>2. Without(t.map[u], Conn) \in [K \ {Conn} -> Session] /\ K \ {Conn} \in SUBSET Id
      BY <2>1 DEF Without
    <2> QED
      BY <2>2 DEF Group
  <1>6. /\ r.map \in [Client -> Group] /\ DOMAIN r.map[u] = DOMAIN t.map[u] \ {Conn}
        /\ \A k \in DOMAIN r.map[u] : r.map[u][k] = t.map[u][k]
        /\ \A v \in Client : v /= u => r.map[v] = t.map[v]
    BY <1>1, <1>3, <1>5 DEF Without
  <1>7. Shrunk(t, r)
    BY <1>4, <1>6 DEF Shrunk
  <1>8. \A v \in Client : v /= Conn /\ (v \in DOMAIN r.map[v] <=> v \in DOMAIN t.map[v])
    BY <1>6, ServerAssumption
  <1>9. Names(r.map, r.names, o) /\ r.names \in SUBSET Service
    BY <1>3, <1>8 DEF Names, Sound, Good, Types
  <1>10. \A v \in Client : Conn \in DOMAIN r.map[v] => v \in DOMAIN r.map[v]
    BY <1>1, <1>6, <1>8 DEF Entries
  <1>11. \A v \in Client : \A k \in DOMAIN t.map[v] : k \notin DOMAIN r.map[v] => ~r.session[t.map[v][k]].valid
    BY <1>1, <1>4, <1>6
  <1> QED
    BY <1>3, <1>4, <1>6, <1>7, <1>9, <1>10, <1>11, ShrunkSound

\* remove_session, whatever it is asked to remove.
LEMMA RemoveSessionSound ==
    ASSUME NEW t, NEW o, Sound(t, o), NEW uuid, NEW conn, NEW r, r = RemoveSession(t, uuid, conn)
    PROVE  /\ Sound(r, o) /\ Shrunk(t, r)
           /\ uuid \in Client => conn \notin DOMAIN r.map[uuid]
           /\ uuid \in Client /\ conn = uuid => DOMAIN r.map[uuid] = {}
  <1>1. CASE uuid \in Client /\ conn = uuid /\ DOMAIN t.map[uuid] /= {}
    <2>1. r = RemoveGroup(t, uuid)
      BY <1>1 DEF RemoveSession
    <2>2. Sound(r, o) /\ Shrunk(t, r) /\ DOMAIN r.map[uuid] = {}
      BY <1>1, <2>1, RemoveGroupSound
    <2> QED
      BY <2>2
  <1>2. CASE uuid \in Client /\ conn /= uuid /\ conn \in DOMAIN t.map[uuid]
    <2>1. Entries(t.session, t.map, o, uuid)
      BY <1>2, SoundFacts
    <2>2. conn = Conn
      BY <1>2, <2>1 DEF Entries
    <2>3. r = RemoveOne(t, uuid, Conn)
      BY <1>2, <2>2 DEF RemoveSession
    <2>4. Sound(r, o) /\ Shrunk(t, r) /\ Conn \notin DOMAIN r.map[uuid]
      BY <1>2, <2>2, <2>3, RemoveOneSound
    <2> QED
      BY <1>2, <2>2, <2>4
  <1>3. CASE ~(uuid \in Client /\ conn = uuid /\ DOMAIN t.map[uuid] /= {})
             /\ ~(uuid \in Client /\ conn /= uuid /\ conn \in DOMAIN t.map[uuid])
    <2>1. r = t
      BY <1>3 DEF RemoveSession
    <2>2. \A i \in Session : Kept(t.session[i], t.session[i])
      BY SoundFacts
    <2> QED
      BY <1>3, <2>1, <2>2 DEF Shrunk
  <1> QED
    BY <1>1, <1>2, <1>3

-----------------------------------------------------------------------------
(* The steps. *)

LEMMA TablesSound ==
    ASSUME Inv PROVE Sound(Tables, offers) /\ Tables.session = session /\ Tables.map = sessions_by_uuid /\ Tables.names = names_cache
  BY DEF Inv, Sound, Tables

\* The tables that a step leaves.
LEMMA TablesStep ==
    ASSUME NEW t, Sound(t, offers), SetTables(t), UNCHANGED offers PROVE Inv'
  BY DEF Inv, Sound, SetTables

LEMMA KeptStep ==
    ASSUME Inv, UNCHANGED <<tables, offers>>, session' \in [Session -> Object], \A i \in Session : Kept(session[i], session'[i])
    PROVE  Inv'
  <1>1. Good(session', sessions_by_uuid, names_cache, offers)
    BY KeptGood DEF Inv
  <1> QED
    BY <1>1 DEF Inv, tables

LEMMA OneStep ==
    ASSUME Inv, UNCHANGED <<tables, offers>>, NEW i \in Session, Unlisted(sessions_by_uuid, i), NEW r \in Object, Consistent(r),
           ~(r.valid /\ r.ok), ~(r.valid /\ r.connection_uuid = Conn), r.phase /= "registering",
           session' = [session EXCEPT ![i] = r]
    PROVE  Inv'
  <1>1. Good(session', sessions_by_uuid, names_cache, offers)
    BY OneGood DEF Inv
  <1> QED
    BY <1>1 DEF Inv, tables

LEMMA Facts ==
    ASSUME Inv
    PROVE  /\ session \in [Session -> Object] /\ offers \in [Client -> SUBSET Service]
           /\ \A i \in Session : Consistent(session[i]) /\ Kept(session[i], session[i]) /\ Found(session, sessions_by_uuid, i)
  <1>1. /\ session \in [Session -> Object] /\ offers \in [Client -> SUBSET Service]
        /\ \A i \in Session : Consistent(session[i]) /\ Found(session, sessions_by_uuid, i)
    BY DEF Inv, Good, Types
  <1>2. \A i \in Session : Kept(session[i], session[i])
    BY <1>1 DEF Consistent, Kept
  <1> QED
    BY <1>1, <1>2

LEMMA AcceptedObject ==
    ASSUME NEW u \in Client
    PROVE  /\ Accepted(u, "initial") \in Object /\ Consistent(Accepted(u, "initial"))
           /\ ~Accepted(u, "initial").ok /\ Accepted(u, "initial").connection_uuid = NoId
           /\ Accepted(u, "initial").phase = "initial"
           /\ Free \in Object /\ Consistent(Free) /\ ~Free.valid /\ Free.phase = "free"
  <1>1. <<>> \in Seq(Task) /\ DOMAIN <<>> = {} /\ {} \in SUBSET Service
    OBVIOUS
  <1>2. Free \in Object
    BY <1>1 DEF Free, Object, Phase, Id
  <1>3. Accepted(u, "initial") \in Object
    BY <1>2 DEF Free, Accepted, Object, Phase
  <1>4. Consistent(Free)
    BY <1>1 DEF Free, Consistent
  <1>5. Consistent(Accepted(u, "initial"))
    BY <1>1 DEF Free, Accepted, Consistent
  <1> QED
    BY <1>2, <1>3, <1>4, <1>5 DEF Free, Accepted

LEMMA ConnectStep ==
    ASSUME Inv, NEW u \in Client, Connect(u) \/ ConnectData(u) PROVE Inv'
  <1>1. PICK i \in Session : session[i].phase = "free" /\ session' = [session EXCEPT ![i] = Accepted(u, "initial")]
    BY DEF Connect, ConnectData, FirstFree
  <1>2. UNCHANGED <<tables, offers>>
    BY DEF Connect, ConnectData
  <1>3. Unlisted(sessions_by_uuid, i)
    BY <1>1, PhaseUnlisted DEF Inv
  <1>4. PICK r \in Object : r = Accepted(u, "initial")
    BY AcceptedObject
  <1>5. Consistent(r) /\ ~(r.valid /\ r.ok) /\ ~(r.valid /\ r.connection_uuid = Conn) /\ r.phase /= "registering"
    BY <1>4, AcceptedObject, ServerAssumption
  <1> QED
    BY <1>1, <1>2, <1>3, <1>4, <1>5, OneStep

LEMMA ClientStep ==
    ASSUME Inv, UNCHANGED <<session, tables, offers>> PROVE Inv'
  BY DEF Inv, tables

\* release_obj by a timer, an error or a refused command.
LEMMA ReleaseStep ==
    ASSUME Inv, UNCHANGED <<tables, offers>>, NEW i \in Session, session' = ReleaseObj(session, i) PROVE Inv'
  <1>1. session \in [Session -> Object] /\ \A k \in Session : Consistent(session[k]) /\ Kept(session[k], session[k])
    BY Facts
  <1>2. /\ session' \in [Session -> Object] /\ Kept(session[i], session'[i])
        /\ \A k \in Session \ {i} : session'[k] = session[k]
    BY <1>1, ReleasedKept
  <1>3. \A k \in Session : Kept(session[k], session'[k])
    BY <1>1, <1>2
  <1> QED
    BY <1>2, <1>3, KeptStep

\* A session goes on to its next phase.
LEMMA PhaseStep ==
    ASSUME Inv, UNCHANGED <<tables, offers>>, NEW i \in Session, session[i].phase \in {"initial", "hello"},
           NEW phase \in {"hello", "authenticated"}, session' = [session EXCEPT ![i].phase = phase]
    PROVE  Inv'
  <1> DEFINE s == session[i]
  <1>1. s \in Object /\ Consistent(s)
    BY Facts
  <1> HIDE DEF s
  <1>2. PICK r : r = [s EXCEPT !.phase = phase]
    OBVIOUS
  <1>3. r \in Object
    BY <1>1, <1>2 DEF Object, Phase
  <1>4. /\ r.phase = phase /\ r.by = s.by /\ r.uuid = s.uuid /\ r.connection_uuid = s.connection_uuid
        /\ r.ok = s.ok /\ r.valid = s.valid /\ r.posted = s.posted
    BY <1>1, <1>2 DEF Object
  <1>5. Consistent(r) /\ ~(r.valid /\ r.ok) /\ ~(r.valid /\ r.connection_uuid = Conn) /\ r.phase /= "registering"
    BY <1>1, <1>4, ServerAssumption DEF Consistent, s
  <1>6. Unlisted(sessions_by_uuid, i)
    BY PhaseUnlisted DEF Inv
  <1>7. session' = [session EXCEPT ![i] = r]
    BY <1>2 DEF s
  <1> QED
    BY <1>3, <1>5, <1>6, <1>7, OneStep

LEMMA UnknownCommandStep ==
    ASSUME Inv, NEW i \in Session, UnknownCommand(i) PROVE Inv'
  <1> DEFINE ss == IF session[i].bad + 1 >= MaxBad THEN ReleaseObj(session, i) ELSE session
  <1>1. UNCHANGED <<tables, offers>> /\ session' = [ss EXCEPT ![i].bad = @ + 1]
    BY DEF UnknownCommand
  <1>2. session \in [Session -> Object] /\ \A k \in Session : Consistent(session[k]) /\ Kept(session[k], session[k])
    BY Facts
  <1>3. ss \in [Session -> Object] /\ \A k \in Session : Kept(session[k], ss[k])
    BY <1>2, ReleasedKept
  <1> HIDE DEF ss
  <1>4. ss[i] \in Object /\ ss[i].bad + 1 \in Nat
    BY <1>3 DEF Object
  <1>5. PICK r : r = [ss[i] EXCEPT !.bad = @ + 1]
    OBVIOUS
  <1>6. r \in Object /\ Kept(session[i], r)
    <2>1. r \in Object
      BY <1>4, <1>5 DEF Object
    <2>2. /\ r.phase = ss[i].phase /\ r.by = ss[i].by /\ r.uuid = ss[i].uuid /\ r.connection_uuid = ss[i].connection_uuid
          /\ r.ok = ss[i].ok /\ r.valid = ss[i].valid /\ r.posted = ss[i].posted /\ r.groups = ss[i].groups
      BY <1>4, <1>5 DEF Object
    <2>3. Kept(session[i], ss[i])
      BY <1>3
    <2> QED
      BY <2>1, <2>2, <2>3 DEF Kept
  <1>7. session' = [ss EXCEPT ![i] = r]
    BY <1>1, <1>5
  <1>8. session' \in [Session -> Object] /\ \A k \in Session : Kept(session[k], session'[k])
    BY <1>3, <1>6, <1>7
  <1> QED
    BY <1>1, <1>8, KeptStep

LEMMA RunUpgradeStep ==
    ASSUME Inv, NEW i \in Session, RunUpgrade(i) PROVE Inv'
  <1> DEFINE s == session[i]
  <1>1. UNCHANGED <<tables, offers>> /\ session' = [session EXCEPT ![i] = Upgraded(s)] /\ s.posted /= <<>>
    BY DEF RunUpgrade, client
  <1>2. session \in [Session -> Object] /\ s \in Object /\ Consistent(s) /\ \A k \in Session : Kept(session[k], session[k])
    BY Facts
  <1> HIDE DEF s
  <1>3. s.posted \in Seq(Task)
    BY <1>2 DEF Object
  <1>4. Tail(s.posted) \in Seq(Task) /\ \A k \in DOMAIN Tail(s.posted) : k + 1 \in DOMAIN s.posted /\ Tail(s.posted)[k] = s.posted[k + 1]
    BY <1>1, <1>3
  <1>5. OtherClient(s.by) \in Client
    BY DEF OtherClient, Client
  <1>6. PICK r : r = Upgraded(s)
    OBVIOUS
  <1>7. r \in Object
    BY <1>2, <1>4, <1>5, <1>6 DEF Object, Upgraded
  <1>8. /\ r.phase = s.phase /\ r.by = s.by /\ r.uuid = s.uuid /\ r.connection_uuid = s.connection_uuid
        /\ r.ok = s.ok /\ r.valid = s.valid /\ r.posted = Tail(s.posted) /\ r.groups = s.groups
    BY <1>2, <1>6 DEF Object, Upgraded
  <1>9. Kept(s, r)
    BY <1>2, <1>4, <1>7, <1>8 DEF Kept, Consistent
  <1>10. session' \in [Session -> Object] /\ \A k \in Session : Kept(session[k], session'[k])
    BY <1>1, <1>2, <1>6, <1>7, <1>9 DEF s
  <1> QED
    BY <1>1, <1>10, KeptStep

LEMMA DestroyStep ==
    ASSUME Inv, NEW i \in Session, Destroy(i) PROVE Inv'
  <1>1. UNCHANGED <<tables, offers>> /\ session[i].phase = "closed"
    BY DEF Destroy
  <1>2. session \in [Session -> Object] /\ \A k \in Session : Consistent(session[k]) /\ Kept(session[k], session[k])
    BY Facts
  <1>3. PICK r : r = Free
    OBVIOUS
  <1>4. r \in Object /\ Consistent(r) /\ ~r.valid /\ r.phase = "free"
    BY <1>3, AcceptedObject DEF Client
  <1>5. PICK ss : ss = [session EXCEPT ![i] = r]
    OBVIOUS
  <1>6. ss \in [Session -> Object] /\ Good(ss, sessions_by_uuid, names_cache, offers)
    <2>1. Unlisted(sessions_by_uuid, i)
      BY <1>1, PhaseUnlisted DEF Inv
    <2> QED
      BY <1>2, <1>4, <1>5, <2>1, OneGood DEF Inv
  <1>7. \A k \in Session : session'[k] = ss[k] \/ session'[k] = [ss[k] EXCEPT !.forward = 0]
    BY <1>2, <1>3, <1>5 DEF Destroy
  <1>8. \A k \in Session : Kept(ss[k], ss[k]) /\ Kept(ss[k], [ss[k] EXCEPT !.forward = 0])
    <2> SUFFICES ASSUME NEW s \in Object, Consistent(s) PROVE Kept(s, s) /\ Kept(s, [s EXCEPT !.forward = 0])
      BY <1>6 DEF Good
    <2>1. PICK q : q = [s EXCEPT !.forward = 0]
      OBVIOUS
    <2>2. q \in Object
      BY <2>1 DEF Object
    <2>3. /\ q.phase = s.phase /\ q.by = s.by /\ q.uuid = s.uuid /\ q.connection_uuid = s.connection_uuid
          /\ q.ok = s.ok /\ q.valid = s.valid /\ q.posted = s.posted /\ q.groups = s.groups
      BY <2>1 DEF Object
    <2> QED
      BY <2>1, <2>2, <2>3 DEF Kept, Consistent
  <1>9. \A k \in Session : Kept(ss[k], session'[k])
    BY <1>7, <1>8
  <1>10. session' \in [Session -> Object]
    BY <1>9 DEF Destroy, Kept
  <1>11. Good(session', sessions_by_uuid, names_cache, offers)
    BY <1>6, <1>9, <1>10, KeptGood
  <1> QED
    BY <1>1, <1>11 DEF Inv, tables

LEMMA RegisterBeginStep ==
    ASSUME Inv, NEW i \in Session, RegisterBegin(i) PROVE Inv'
  <1> DEFINE u == session[i].by
  <1>1. /\ session[i].phase = "authenticated" /\ UNCHANGED offers
        /\ \A k \in Session : ~(session[k].phase = "registering" /\ session[k].by = u)
        /\ SetTables([RemoveSession(Tables, u, u) EXCEPT !.session[i].phase = "registering"])
    BY DEF RegisterBegin, Handles
  <1>2. Consistent(session[i]) /\ u \in Client
    BY <1>1, Facts DEF Consistent
  <1> HIDE DEF u
  <1>3. PICK t : t = RemoveSession(Tables, u, u)
    OBVIOUS
  <1>4. Sound(t, offers) /\ Shrunk(Tables, t) /\ DOMAIN t.map[u] = {}
    BY <1>2, <1>3, TablesSound, RemoveSessionSound
  <1>5. /\ t.session \in [Session -> Object] /\ t.map \in [Client -> Group]
        /\ \A k \in Session : Consistent(t.session[k]) /\ Kept(session[k], t.session[k])
        /\ \A v \in Client : Entries(t.session, t.map, offers, v) /\ \A k \in DOMAIN t.map[v] : t.map[v][k] \in Session
    BY <1>4, SoundFacts, TablesSound DEF Shrunk
  <1> DEFINE s == t.session[i]
  <1>6. s \in Object /\ Consistent(s) /\ s.by = u /\ s.phase = "authenticated"
    BY <1>1, <1>5 DEF Kept, u
  <1> HIDE DEF s
  <1>7. PICK r : r = [s EXCEPT !.phase = "registering"]
    OBVIOUS
  <1>8. /\ session' = [t.session EXCEPT ![i] = r] /\ sessions_by_uuid' = t.map /\ names_cache' = t.names
    <2>1. t = [session |-> t.session, map |-> t.map, names |-> t.names]
      BY <1>4 DEF Sound
    <2> QED
      BY <1>1, <1>3, <1>7, <2>1 DEF SetTables, s
  <1>9. r \in Object
    BY <1>6, <1>7 DEF Object, Phase
  <1>10. /\ r.phase = "registering" /\ r.by = u /\ r.uuid = s.uuid /\ r.connection_uuid = s.connection_uuid
         /\ r.ok = s.ok /\ r.valid = s.valid /\ r.posted = s.posted
    BY <1>6, <1>7 DEF Object
  <1>11. session' \in [Session -> Object] /\ session'[i] = r /\ \A k \in Session : k /= i => session'[k] = t.session[k]
    BY <1>5, <1>8, <1>9
  <1>12. Good(t.session, t.map, t.names, offers)
    BY <1>4 DEF Sound
  <1>13. Types(session', t.map, t.names, offers) /\ Names(t.map, t.names, offers)
    BY <1>11, <1>12 DEF Good, Types
  <1>14. ASSUME NEW v \in Client PROVE Entries(session', t.map, offers, v)
    <2>1. \A k \in DOMAIN t.map[v] : t.map[v][k] /= i
      <3>1. CASE v = u
        BY <1>4, <3>1
      <3>2. CASE v /= u
        <4>1. Entries(t.session, t.map, offers, v) /\ t.session[i].by = u
          BY <1>5, <1>6 DEF s
        <4> QED
          BY <3>2, <4>1 DEF Entries, Signalling, DataHalf
      <3> QED
        BY <3>1, <3>2
    <2>2. \A k \in DOMAIN t.map[v] : session'[t.map[v][k]] = t.session[t.map[v][k]]
      BY <1>5, <1>11, <2>1
    <2> QED
      BY <1>5, <2>2 DEF Entries
  <1>15. ASSUME NEW k \in Session PROVE Consistent(session'[k]) /\ Found(session', t.map, k)
    <2>1. CASE k /= i
      <3>1. Consistent(t.session[k]) /\ Found(t.session, t.map, k)
        BY <1>12 DEF Good
      <3> QED
        BY <1>11, <2>1, <3>1 DEF Found
    <2>2. CASE k = i
      <3>1. Found(t.session, t.map, i) /\ u /= Conn /\ u /= NoId /\ NoId /= Conn
        BY <1>2, <1>12, ServerAssumption DEF Good
      <3>2. ~(s.valid /\ s.ok) /\ s.connection_uuid \in {NoId, u}
        BY <1>4, <1>6, <3>1 DEF Found, s, Consistent
      <3>3. Consistent(r)
        BY <1>2, <1>6, <1>10, <3>1 DEF Consistent
      <3>4. Found(session', t.map, i)
        BY <1>4, <1>10, <1>11, <3>1, <3>2 DEF Found
      <3> QED
        BY <1>11, <2>2, <3>3, <3>4
    <2> QED
      BY <2>1, <2>2
  <1>16. \A k, l \in Session : session'[k].phase = "registering" /\ session'[l].phase = "registering"
                               /\ session'[k].by = session'[l].by => k = l
    <2>1. \A k \in Session : t.session[k].phase = "registering" => t.session[k].by /= u
      BY <1>1, <1>5 DEF Kept
    <2> QED
      BY <1>10, <1>11, <1>12, <2>1 DEF Good
  <1>17. Good(session', t.map, t.names, offers)
    BY <1>13, <1>14, <1>15, <1>16 DEF Good
  <1> QED
    BY <1>1, <1>8, <1>17 DEF Inv

\* An entry more: emplace where there is none.
LEMMA EmplacedGroup ==
    ASSUME NEW g \in Group, NEW k \in Id, NEW i \in Session, k \notin DOMAIN g, NEW h, h = Emplaced(g, k, i)
    PROVE  h \in Group /\ DOMAIN h = DOMAIN g \cup {k} /\ h[k] = i /\ \A x \in DOMAIN g : h[x] = g[x]
  <1>1. PICK K \in SUBSET Id : g \in [K -> Session]
    BY DEF Group
  <1>2. h \in [K \cup {k} -> Session] /\ K \cup {k} \in SUBSET Id
    BY <1>1 DEF Emplaced
  <1> QED
    BY <1>1, <1>2 DEF Group, Emplaced

LEMMA RegisterEndStep ==
    ASSUME Inv, NEW i \in Session, RegisterEnd(i) PROVE Inv'
  <1> DEFINE s == session[i]
             u == session[i].by
             ok == offers[u] \cap names_cache = {}
             m == sessions_by_uuid
  <1>1. /\ s.phase = "registering" /\ UNCHANGED offers
        /\ session' = [session EXCEPT ![i].phase = "authenticated", ![i].uuid = u, ![i].connection_uuid = u,
                                      ![i].groups = offers[u], ![i].ok = ok]
        /\ IF ok THEN names_cache' = names_cache \cup offers[u] /\ m' = [m EXCEPT ![u] = Emplaced(@, u, i)]
           ELSE names_cache' = names_cache /\ m' = m
    BY DEF RegisterEnd, Listed, client, tables
  <1>2. /\ session \in [Session -> Object] /\ s \in Object /\ Consistent(s) /\ u \in Client /\ u \in Id
        /\ offers \in [Client -> SUBSET Service] /\ DOMAIN m[u] = {} /\ u /= Conn /\ u /= NoId
    BY <1>1, Facts, ServerAssumption DEF Consistent, Found, Id
  <1>3. /\ m \in [Client -> Group] /\ names_cache \in SUBSET Service /\ Names(m, names_cache, offers)
        /\ \A v \in Client : Entries(session, m, offers, v) /\ \A k \in DOMAIN m[v] : m[v][k] \in Session
    BY TablesSound, SoundFacts DEF Inv, Good, Types
  <1>4. PICK r : r = [s EXCEPT !.phase = "authenticated", !.uuid = u, !.connection_uuid = u, !.groups = offers[u], !.ok = ok]
    OBVIOUS
  <1>5. session' = [session EXCEPT ![i] = r] /\ ok \in BOOLEAN
    BY <1>1, <1>4
  <1> HIDE DEF s, ok
  <1>6. r \in Object
    BY <1>2, <1>4, <1>5 DEF Object, Phase
  <1>7. /\ r.phase = "authenticated" /\ r.by = s.by /\ r.uuid = u /\ r.connection_uuid = u /\ r.groups = offers[u]
        /\ r.ok = ok /\ r.valid = s.valid /\ r.posted = s.posted
    BY <1>2, <1>4 DEF Object
  <1>8. session' \in [Session -> Object] /\ session'[i] = r /\ \A k \in Session : k /= i => session'[k] = session[k]
    BY <1>2, <1>5, <1>6
  <1>9. Consistent(r)
    BY <1>2, <1>7 DEF Consistent, s
  <1>10. /\ m' \in [Client -> Group] /\ \A v \in Client : v /= u => m'[v] = m[v]
         /\ DOMAIN m'[u] = IF ok THEN {u} ELSE {}
         /\ ok => m'[u][u] = i
    <2>1. CASE ok
      <3>1. PICK h : h = Emplaced(m[u], u, i)
        OBVIOUS
      <3>2. PICK g \in Group, k \in Id : g = m[u] /\ k = u
        BY <1>2, <1>3
      <3>3. h = Emplaced(g, k, i) /\ k \notin DOMAIN g
        BY <1>2, <3>1, <3>2
      <3>4. h \in Group /\ DOMAIN h = DOMAIN g \cup {k} /\ h[k] = i /\ \A x \in DOMAIN g : h[x] = g[x]
        BY <3>3, EmplacedGroup
      <3> QED
        BY <1>1, <1>2, <1>3, <2>1, <3>1, <3>2, <3>4
    <2>2. CASE ~ok
      BY <1>1, <1>2, <1>3, <2>2
    <2> QED
      BY <2>1, <2>2
  <1>11. names_cache' \in SUBSET Service /\ names_cache' = names_cache \cup (IF ok THEN offers[u] ELSE {})
    BY <1>1, <1>2, <1>3
  <1>12. Types(session', m', names_cache', offers)
    BY <1>2, <1>8, <1>10, <1>11 DEF Types
  <1>13. Names(m', names_cache', offers)
    <2>1. CASE ok
      <3>1. \A v \in Client : v \in DOMAIN m'[v] <=> v = u \/ v \in DOMAIN m[v]
        BY <1>2, <1>10, <2>1
      <3>2. \A v \in Client : v \in DOMAIN m[v] => offers[v] \cap offers[u] = {}
        BY <1>2, <1>3, <2>1 DEF Names, ok
      <3> QED
        BY <1>2, <1>3, <1>11, <2>1, <3>1, <3>2 DEF Names
    <2>2. CASE ~ok
      <3>1. \A v \in Client : v \in DOMAIN m'[v] <=> v \in DOMAIN m[v]
        BY <1>2, <1>10, <2>2
      <3> QED
        BY <1>3, <1>11, <2>2, <3>1 DEF Names
    <2> QED
      BY <2>1, <2>2
  <1>14. ASSUME NEW v \in Client PROVE Entries(session', m', offers, v)
    <2>1. CASE v = u
      BY <1>2, <1>7, <1>8, <1>10, <2>1 DEF Entries, Signalling, s
    <2>2. CASE v /= u
      <3>1. \A k \in DOMAIN m[v] : m[v][k] /= i
        BY <1>1, <1>3, PhaseUnlisted DEF Inv, Unlisted, s
      <3>2. \A k \in DOMAIN m[v] : session'[m[v][k]] = session[m[v][k]]
        BY <1>3, <1>8, <3>1
      <3> QED
        BY <1>3, <1>10, <2>2, <3>2 DEF Entries
    <2> QED
      BY <2>1, <2>2
  <1>15. ASSUME NEW k \in Session PROVE Consistent(session'[k]) /\ Found(session', m', k)
    <2>1. CASE k /= i
      <3>1. Consistent(session[k]) /\ Found(session, m, k) /\ session'[k] = session[k]
        BY <1>8, <2>1, Facts
      <3>2. CASE session[k].by = u
        <4>1. ~(session[k].valid /\ session[k].ok) /\ ~(session[k].valid /\ session[k].connection_uuid = Conn)
          BY <1>2, <3>1, <3>2 DEF Found
        <4>2. session[k].phase /= "registering"
          BY <1>1, <2>1, <3>2 DEF Inv, Good, s
        <4> QED
          BY <3>1, <4>1, <4>2 DEF Found
      <3>3. CASE session[k].by /= u /\ session[k].by \in Client
        BY <1>10, <3>1, <3>3 DEF Found
      <3>4. CASE session[k].by \notin Client
        BY <3>1, <3>4 DEF Found, Consistent
      <3> QED
        BY <3>2, <3>3, <3>4
    <2>2. CASE k = i
      BY <1>2, <1>7, <1>8, <1>9, <1>10, <2>2 DEF Found, s
    <2> QED
      BY <2>1, <2>2
  <1>16. \A k, l \in Session : session'[k].phase = "registering" /\ session'[l].phase = "registering"
                               /\ session'[k].by = session'[l].by => k = l
    BY <1>7, <1>8 DEF Inv, Good
  <1>17. Good(session', m', names_cache', offers)
    BY <1>12, <1>13, <1>14, <1>15, <1>16 DEF Good
  <1> QED
    BY <1>1, <1>17 DEF Inv

LEMMA RecordedSound ==
    ASSUME NEW t, NEW o, Sound(t, o), NEW i \in Session, NEW u \in Client,
           t.session[i].by = u, t.session[i].phase = "data", t.session[i].uuid = NoId,
           DOMAIN t.map[u] /= {}, Conn \notin DOMAIN t.map[u], NEW r, r = Recorded(t, i, u)
    PROVE  Sound(r, o)
  <1>1. t.session \in [Session -> Object] /\ t.map \in [Client -> Group]
    BY SoundFacts
  <1>2. \A v \in Client : Entries(t.session, t.map, o, v)
    BY SoundFacts
  <1>3. \A v \in Client : \A k \in DOMAIN t.map[v] : t.map[v][k] \in Session
    BY SoundFacts
  <1>4. Good(t.session, t.map, t.names, o)
    BY DEF Sound
  <1>5. u /= Conn /\ u /= NoId /\ NoId /= Conn /\ Conn \in Id
    BY ServerAssumption DEF Id
  <1> DEFINE s == t.session[i]
  <1>6. PICK q : q = [s EXCEPT !.uuid = u, !.connection_uuid = Conn]
    OBVIOUS
  <1>7. PICK h : h = Emplaced(t.map[u], Conn, i)
    OBVIOUS
  <1>8. /\ r.session = [t.session EXCEPT ![i] = q] /\ r.map = [t.map EXCEPT ![u] = h]
        /\ r.names = t.names /\ r = [session |-> r.session, map |-> r.map, names |-> r.names]
    <2>1. t = [session |-> t.session, map |-> t.map, names |-> t.names]
      BY DEF Sound
    <2> QED
      BY <1>1, <1>6, <1>7, <2>1 DEF Recorded
  <1>9. /\ h \in Group /\ DOMAIN h = DOMAIN t.map[u] \cup {Conn}
        /\ h[Conn] = i /\ \A x \in DOMAIN t.map[u] : h[x] = t.map[u][x]
    <2>1. PICK g \in Group : g = t.map[u]
      BY <1>1
    <2>2. h = Emplaced(g, Conn, i) /\ Conn \in Id /\ Conn \notin DOMAIN g
      BY <1>5, <1>7, <2>1
    <2>3. h \in Group /\ DOMAIN h = DOMAIN g \cup {Conn} /\ h[Conn] = i /\ \A x \in DOMAIN g : h[x] = g[x]
      BY <2>2, EmplacedGroup
    <2> QED
      BY <2>1, <2>3
  <1>10. /\ r.map \in [Client -> Group] /\ \A v \in Client : v /= u => r.map[v] = t.map[v]
        /\ DOMAIN r.map[u] = DOMAIN t.map[u] \cup {Conn} /\ r.map[u][Conn] = i
        /\ \A k \in DOMAIN t.map[u] : r.map[u][k] = t.map[u][k]
    BY <1>1, <1>7, <1>8, <1>9
  <1>11. s \in Object /\ Consistent(s) /\ s.by = u /\ s.phase = "data" /\ s.uuid = NoId
    BY <1>1, <1>4 DEF Good
  <1> HIDE DEF s
  <1>12. q \in Object
    BY <1>5, <1>6, <1>11 DEF Object
  <1>13. /\ q.phase = "data" /\ q.by = u /\ q.uuid = u /\ q.connection_uuid = Conn
        /\ q.ok = s.ok /\ q.valid = s.valid /\ q.posted = s.posted
    BY <1>6, <1>11 DEF Object
  <1>14. r.session \in [Session -> Object] /\ r.session[i] = q /\ \A k \in Session : k /= i => r.session[k] = t.session[k]
    BY <1>1, <1>8, <1>12
  <1>15. Unlisted(t.map, i)
    BY <1>4, PhaseUnlisted
  <1>16. Types(r.session, r.map, r.names, o)
    BY <1>4, <1>8, <1>10, <1>14 DEF Good, Types
  <1>17. Names(r.map, r.names, o)
    <2>1. \A v \in Client : v /= Conn /\ (v \in DOMAIN r.map[v] <=> v \in DOMAIN t.map[v])
      BY <1>10, ServerAssumption
    <2> QED
      BY <1>4, <1>8, <2>1 DEF Names, Good
  <1>18. ASSUME NEW v \in Client PROVE Entries(r.session, r.map, o, v)
    <2>1. \A k \in DOMAIN t.map[v] : r.session[t.map[v][k]] = t.session[t.map[v][k]]
      BY <1>3, <1>14, <1>15 DEF Unlisted
    <2>2. Entries(t.session, t.map, o, v)
      BY <1>2
    <2>3. CASE v /= u
      <3>1. r.map[v] = t.map[v]
        BY <1>10, <2>3
      <3> QED
        BY <2>1, <2>2, <3>1 DEF Entries
    <2>4. CASE v = u
      <3>1. u \in DOMAIN t.map[u] /\ DOMAIN t.map[u] \subseteq {u, Conn} /\ Signalling(t.session[t.map[u][u]], u, o[u])
        BY <2>2, <2>4 DEF Entries
      <3>2. DataHalf(r.session[r.map[u][Conn]], u)
        BY <1>10, <1>13, <1>14 DEF DataHalf
      <3>3. Signalling(r.session[r.map[u][u]], u, o[u])
        BY <1>10, <2>1, <2>4, <3>1
      <3>4. u \in DOMAIN r.map[u] /\ DOMAIN r.map[u] \subseteq {u, Conn}
        BY <1>10, <3>1
      <3> QED
        BY <2>4, <3>2, <3>3, <3>4 DEF Entries
    <2> QED
      BY <2>3, <2>4
  <1>19. ASSUME NEW k \in Session PROVE Consistent(r.session[k]) /\ Found(r.session, r.map, k)
    <2>1. CASE k = i
      <3>1. Consistent(q) /\ ~q.ok
        BY <1>5, <1>11, <1>13 DEF Consistent
      <3> QED
        BY <1>10, <1>13, <1>14, <2>1, <3>1 DEF Found
    <2>2. CASE k /= i
      <3> DEFINE w == t.session[k]
      <3>1. Consistent(w) /\ Found(t.session, t.map, k) /\ r.session[k] = w
        BY <1>4, <1>14, <2>2 DEF Good
      <3>2. /\ w.valid /\ w.ok => w.by \in DOMAIN t.map[w.by] /\ t.map[w.by][w.by] = k
            /\ w.valid /\ w.connection_uuid = Conn => Conn \in DOMAIN t.map[w.by] /\ t.map[w.by][Conn] = k
            /\ w.phase = "registering" => DOMAIN t.map[w.by] = {}
        BY <3>1 DEF Found
      <3> HIDE DEF w
      <3>3. CASE w.by = u
        <4>1. ~(w.valid /\ w.connection_uuid = Conn) /\ w.phase /= "registering"
          BY <3>2, <3>3
        <4>2. w.valid /\ w.ok => u \in DOMAIN r.map[u] /\ r.map[u][u] = k
          BY <1>10, <3>2, <3>3
        <4> QED
          BY <3>1, <3>3, <4>1, <4>2 DEF Found
      <3>4. CASE w.by /= u /\ w.by \in Client
        <4>1. r.map[w.by] = t.map[w.by]
          BY <1>10, <3>4
        <4> QED
          BY <3>1, <3>2, <4>1 DEF Found
      <3>5. CASE w.by \notin Client
        <4>1. ~w.valid /\ w.phase /= "registering"
          BY <3>1, <3>5 DEF Consistent
        <4> QED
          BY <3>1, <4>1 DEF Found
      <3> QED
        BY <3>3, <3>4, <3>5
    <2> QED
      BY <2>1, <2>2
  <1>20. \A k, l \in Session : r.session[k].phase = "registering" /\ r.session[l].phase = "registering"
                               /\ r.session[k].by = r.session[l].by => k = l
    <2>1. \A k, l \in Session : t.session[k].phase = "registering" /\ t.session[l].phase = "registering"
                                /\ t.session[k].by = t.session[l].by => k = l
      BY <1>4 DEF Good
    <2>2. \A k \in Session : r.session[k].phase = "registering" => r.session[k] = t.session[k]
      BY <1>13, <1>14
    <2> QED
      BY <2>1, <2>2
  <1> QED
    BY <1>8, <1>16, <1>17, <1>18, <1>19, <1>20 DEF Sound, Good

LEMMA JoinSound ==
    ASSUME NEW t, NEW o, Sound(t, o), NEW i \in Session, NEW j \in Session, NEW dst \in Client, i /= j,
           NEW r, r = Join(t, i, j, dst)
    PROVE  Sound(r, o)
  <1>1. /\ t.session \in [Session -> Object] /\ \A k \in Session : Consistent(t.session[k]) /\ Kept(t.session[k], t.session[k])
        /\ Good(t.session, t.map, t.names, o) /\ t = [session |-> t.session, map |-> t.map, names |-> t.names]
    BY SoundFacts DEF Sound
  <1> DEFINE s == t.session[i]
             w == t.session[j]
  <1>2. PICK q : q = [s EXCEPT !.release_cb = dst, !.forward = j, !.reading = TRUE]
    OBVIOUS
  <1>3. PICK x : x = [w EXCEPT !.forward = i, !.posted = Append(@, "upgrade")]
    OBVIOUS
  <1>4. /\ r.session = [t.session EXCEPT ![i] = q, ![j] = x] /\ r.map = t.map
        /\ r.names = t.names /\ r = [session |-> r.session, map |-> r.map, names |-> r.names]
    BY <1>1, <1>2, <1>3 DEF Join
  <1>5. s \in Object /\ Consistent(s) /\ w \in Object /\ Consistent(w) /\ i \in Nat /\ j \in Nat
    <2>1. s \in Object /\ Consistent(s) /\ w \in Object /\ Consistent(w)
      BY <1>1
    <2>2. i \in Nat /\ j \in Nat
      BY ServerAssumption DEF Session
    <2> QED
      BY <2>1, <2>2
  <1> HIDE DEF s, w
  <1>6. q \in Object
    BY <1>2, <1>5 DEF Object
  <1>7. /\ q.phase = s.phase /\ q.by = s.by /\ q.uuid = s.uuid /\ q.connection_uuid = s.connection_uuid
        /\ q.ok = s.ok /\ q.valid = s.valid /\ q.posted = s.posted /\ q.groups = s.groups
    BY <1>2, <1>5 DEF Object
  <1>8. Kept(s, q)
    BY <1>5, <1>6, <1>7 DEF Kept, Consistent
  <1>9. w.posted \in Seq(Task) /\ "upgrade" \in Task
    BY <1>5 DEF Object, Task
  <1>10. Append(w.posted, "upgrade") \in Seq(Task)
         /\ \A k \in DOMAIN Append(w.posted, "upgrade") : Append(w.posted, "upgrade")[k] = "close" =>
                k \in DOMAIN w.posted /\ w.posted[k] = "close"
    BY <1>9
  <1>11. x \in Object
    BY <1>3, <1>5, <1>10 DEF Object
  <1>12. /\ x.phase = w.phase /\ x.by = w.by /\ x.uuid = w.uuid /\ x.connection_uuid = w.connection_uuid
         /\ x.ok = w.ok /\ x.valid = w.valid /\ x.posted = Append(w.posted, "upgrade") /\ x.groups = w.groups
    BY <1>3, <1>5 DEF Object
  <1>13. Kept(w, x)
    BY <1>5, <1>10, <1>11, <1>12 DEF Kept, Consistent
  <1>14. r.session \in [Session -> Object] /\ \A k \in Session : Kept(t.session[k], r.session[k])
    BY <1>1, <1>4, <1>6, <1>8, <1>11, <1>13 DEF s, w
  <1>15. Good(r.session, t.map, t.names, o)
    BY <1>1, <1>14, KeptGood
  <1> QED
    BY <1>4, <1>15 DEF Sound

LEMMA RegisterDataChannelSound ==
    ASSUME NEW t, NEW o, Sound(t, o), NEW i \in Session, NEW u \in Client, NEW dst \in Client, u /= dst,
           t.session[i].by = u, t.session[i].phase = "data", t.session[i].uuid = NoId,
           NEW r, r = RegisterDataChannel(t, i, u, dst)
    PROVE  Sound(r, o)
  <1>1. CASE DOMAIN t.map[u] = {} \/ DOMAIN t.map[dst] = {}
    <2>1. PICK q : q = RemoveSession(t, dst, Conn)
      OBVIOUS
    <2>2. r = RemoveSession(q, u, Conn)
      BY <1>1, <2>1 DEF RegisterDataChannel
    <2>3. Sound(q, o)
      BY <2>1, RemoveSessionSound
    <2> QED
      BY <2>2, <2>3, RemoveSessionSound
  <1>2. CASE r = t
    BY <1>2
  <1>3. CASE DOMAIN t.map[u] /= {} /\ Conn \notin DOMAIN t.map[u] /\ r = Recorded(t, i, u)
    BY <1>3, RecordedSound
  <1>4. CASE DOMAIN t.map[u] /= {} /\ Conn \notin DOMAIN t.map[u] /\ Conn \in DOMAIN t.map[dst]
             /\ r = Join(Recorded(t, i, u), i, t.map[dst][Conn], dst)
    <2>1. PICK q : q = Recorded(t, i, u)
      OBVIOUS
    <2>2. Sound(q, o)
      <3>1. DOMAIN t.map[u] /= {} /\ Conn \notin DOMAIN t.map[u]
        BY <1>4
      <3> QED
        BY <2>1, <3>1, RecordedSound
    <2>3. PICK j \in Session : j = t.map[dst][Conn]
      BY <1>4, SoundFacts
    <2>4. Unlisted(t.map, i)
      BY PhaseUnlisted DEF Sound
    <2>5. i /= j
      BY <1>4, <2>3, <2>4 DEF Unlisted
    <2>6. r = Join(q, i, j, dst)
      BY <1>4, <2>1, <2>3
    <2> QED
      BY <2>2, <2>5, <2>6, JoinSound
  <1> QED
    BY <1>1, <1>2, <1>3, <1>4 DEF RegisterDataChannel

LEMMA ChannelOpenStep ==
    ASSUME Inv, NEW i \in Session, ChannelOpen(i) PROVE Inv'
  <1> DEFINE s == session[i]
             u == session[i].by
             opening == [Tables EXCEPT !.session[i].phase = "data", !.session[i].reading = FALSE]
  <1>1. s.phase = "initial" /\ UNCHANGED offers /\ SetTables(RegisterDataChannel(opening, i, u, OtherClient(u)))
    BY DEF ChannelOpen
  <1>2. s \in Object /\ Consistent(s) /\ u \in Client /\ session \in [Session -> Object] /\ NoId /= Conn
    BY <1>1, Facts, ServerAssumption DEF Consistent
  <1>3. OtherClient(u) \in Client /\ u /= OtherClient(u)
    BY <1>2, ServerAssumption DEF OtherClient, Client
  <1>4. PICK t : t = opening
    OBVIOUS
  <1>5. PICK r : r = [s EXCEPT !.phase = "data", !.reading = FALSE]
    OBVIOUS
  <1>6. t = [session |-> [session EXCEPT ![i] = r], map |-> sessions_by_uuid, names |-> names_cache]
    BY <1>4, <1>5 DEF Tables
  <1> HIDE DEF s, u, opening
  <1>7. r \in Object
    BY <1>2, <1>5 DEF Object, Phase
  <1>8. /\ r.phase = "data" /\ r.by = s.by /\ r.uuid = s.uuid /\ r.connection_uuid = s.connection_uuid
        /\ r.ok = s.ok /\ r.valid = s.valid /\ r.posted = s.posted
    BY <1>2, <1>5 DEF Object
  <1>9. s.uuid = NoId /\ s.connection_uuid = NoId /\ ~s.ok /\ s.by = u
    BY <1>1, <1>2 DEF Consistent, s, u
  <1>10. Consistent(r) /\ ~(r.valid /\ r.ok) /\ ~(r.valid /\ r.connection_uuid = Conn) /\ r.phase /= "registering"
    BY <1>2, <1>8, <1>9 DEF Consistent
  <1>11. Unlisted(sessions_by_uuid, i)
    BY <1>9, PhaseUnlisted DEF Inv, s
  <1>12. Good(t.session, t.map, t.names, offers)
    <2>1. PICK ss : ss = [session EXCEPT ![i] = r]
      OBVIOUS
    <2>2. Good(ss, sessions_by_uuid, names_cache, offers)
      BY <1>7, <1>10, <1>11, <2>1, OneGood DEF Inv
    <2> QED
      BY <1>6, <2>1, <2>2
  <1>13. Sound(t, offers) /\ t.session[i] = r
    BY <1>2, <1>6, <1>12 DEF Sound
  <1>14. PICK after : after = RegisterDataChannel(t, i, u, OtherClient(u))
    OBVIOUS
  <1>15. Sound(after, offers)
    BY <1>2, <1>3, <1>8, <1>9, <1>13, <1>14, RegisterDataChannelSound
  <1>16. SetTables(after)
    BY <1>1, <1>4, <1>14
  <1> QED
    BY <1>1, <1>15, <1>16, TablesStep

LEMMA RunCloseStep ==
    ASSUME Inv, NEW i \in Session, RunClose(i) PROVE Inv'
  <1> DEFINE s == session[i]
  <1>1. PICK removed : removed = RemoveSession(Tables, s.uuid, s.connection_uuid)
    OBVIOUS
  <1>2. PICK after : after = IF s.release_cb = NoId THEN removed ELSE RemoveSession(removed, s.release_cb, s.connection_uuid)
    OBVIOUS
  <1>3. /\ s.posted /= <<>> /\ Head(s.posted) = "close" /\ UNCHANGED offers
        /\ SetTables([after EXCEPT !.session[i] = CloseSocket(@)])
    BY <1>1, <1>2 DEF RunClose, client
  <1>4. s \in Object /\ Consistent(s)
    BY Facts
  <1>5. s.posted \in Seq(Task)
    BY <1>4 DEF Object
  <1>6. Tail(s.posted) \in Seq(Task) /\ ~s.valid
    <2>1. 1 \in DOMAIN s.posted /\ s.posted[1] = "close"
      BY <1>3, <1>5
    <2>2. ~s.valid
      BY <1>4, <2>1 DEF Consistent
    <2> QED
      BY <1>3, <1>5, <2>2
  <1>7. /\ Sound(removed, offers) /\ Shrunk(Tables, removed)
        /\ s.uuid \in Client => s.connection_uuid \notin DOMAIN removed.map[s.uuid]
        /\ s.uuid \in Client /\ s.connection_uuid = s.uuid => DOMAIN removed.map[s.uuid] = {}
    BY <1>1, TablesSound, RemoveSessionSound
  <1>8. Sound(after, offers) /\ Shrunk(removed, after)
    <2>1. CASE s.release_cb = NoId
      <3>1. after = removed
        BY <1>2, <2>1
      <3>2. \A k \in Session : Kept(removed.session[k], removed.session[k])
        BY <1>7, SoundFacts
      <3> QED
        BY <1>7, <3>1, <3>2 DEF Shrunk
    <2>2. CASE s.release_cb /= NoId
      <3>1. after = RemoveSession(removed, s.release_cb, s.connection_uuid)
        BY <1>2, <2>2
      <3> QED
        BY <1>7, <3>1, RemoveSessionSound
    <2> QED
      BY <2>1, <2>2
  <1>9. after.session[i] = s /\ after.session \in [Session -> Object]
    <2>1. removed.session[i] = s
      BY <1>6, <1>7, TablesSound DEF Shrunk
    <2> QED
      BY <1>6, <1>8, <2>1, SoundFacts DEF Shrunk
  <1>10. Unlisted(after.map, i)
    <2> SUFFICES ASSUME NEW u \in Client, NEW k \in DOMAIN after.map[u], after.map[u][k] = i PROVE FALSE
      BY DEF Unlisted
    <2>1. Entries(after.session, after.map, offers, u)
      BY <1>8, SoundFacts
    <2>2. s.uuid = u /\ s.connection_uuid = k
      BY <1>9, <2>1 DEF Entries, Signalling, DataHalf
    <2>3. k \in DOMAIN removed.map[u]
      BY <1>8 DEF Shrunk
    <2> QED
      BY <1>7, <2>2, <2>3
  <1>11. PICK r : r = CloseSocket(s)
    OBVIOUS
  <1> HIDE DEF s
  <1>12. r \in Object
    BY <1>4, <1>6, <1>11 DEF Object, CloseSocket, Phase
  <1>13. /\ r.phase = "closed" /\ r.by = s.by /\ r.uuid = s.uuid /\ r.connection_uuid = s.connection_uuid /\ r.valid = s.valid
    BY <1>4, <1>11 DEF Object, CloseSocket
  <1>14. Consistent(r) /\ ~r.valid
    BY <1>4, <1>6, <1>13 DEF Consistent
  <1>15. /\ session' = [after.session EXCEPT ![i] = r] /\ sessions_by_uuid' = after.map /\ names_cache' = after.names
    <2>1. after = [session |-> after.session, map |-> after.map, names |-> after.names]
      BY <1>8 DEF Sound
    <2> QED
      BY <1>3, <1>9, <1>11, <2>1 DEF SetTables
  <1>16. Good(session', after.map, after.names, offers)
    BY <1>8, <1>10, <1>12, <1>13, <1>14, <1>15, OneGood DEF Sound
  <1> QED
    BY <1>3, <1>15, <1>16 DEF Inv

-----------------------------------------------------------------------------
(* The invariant, and what it implies. *)

LEMMA InitInv == Init => Inv
  <1> SUFFICES ASSUME Init PROVE Inv
    OBVIOUS
  <1>1. Free \in Object /\ Consistent(Free) /\ ~Free.valid /\ Free.phase = "free"
    BY AcceptedObject DEF Client
  <1>2. session = [i \in Session |-> Free] /\ session \in [Session -> Object] /\ \A i \in Session : session[i] = Free
    BY <1>1 DEF Init
  <1> HIDE DEF Free
  <1>3. <<>> \in [{} -> Session] /\ DOMAIN <<>> = {} /\ {} \in SUBSET Id
    OBVIOUS
  <1>4. <<>> \in Group
    BY <1>3 DEF Group
  <1>5. sessions_by_uuid \in [Client -> Group] /\ \A u \in Client : DOMAIN sessions_by_uuid[u] = {}
    BY <1>3, <1>4 DEF Init
  <1>6. names_cache = {} /\ offers \in [Client -> SUBSET Service]
    BY DEF Init
  <1>7. Types(session, sessions_by_uuid, names_cache, offers) /\ Names(sessions_by_uuid, names_cache, offers)
    BY <1>2, <1>5, <1>6 DEF Types, Names
  <1>8. \A u \in Client : Entries(session, sessions_by_uuid, offers, u)
    BY <1>5 DEF Entries
  <1>9. \A i \in Session : Consistent(session[i]) /\ Found(session, sessions_by_uuid, i)
    BY <1>1, <1>2 DEF Found
  <1> QED
    BY <1>1, <1>2, <1>7, <1>8, <1>9 DEF Inv, Good

LEMMA NextInv == Inv /\ [Next]_vars => Inv'
  <1> SUFFICES ASSUME Inv, [Next]_vars PROVE Inv'
    OBVIOUS
  <1>1. ASSUME NEW u \in Client, Connect(u) \/ ConnectData(u) PROVE Inv'
    BY <1>1, ConnectStep
  <1>2. ASSUME NEW u \in Client, SeesClose(u) \/ Breaks(u) \/ LeavesChannel(u) PROVE Inv'
    <2>1. UNCHANGED <<session, tables, offers>>
      BY <1>2 DEF SeesClose, Breaks, LeavesChannel
    <2> QED
      BY <2>1, ClientStep
  <1>3. ASSUME NEW i \in Session, SignalOpen(i) PROVE Inv'
    <2>1. UNCHANGED <<tables, offers>> /\ session[i].phase = "initial" /\ session' = [session EXCEPT ![i].phase = "hello"]
      BY <1>3 DEF SignalOpen, Handles, client
    <2> QED
      BY <2>1, PhaseStep
  <1>4. ASSUME NEW i \in Session, AuthRequest(i) PROVE Inv'
    <2>1. UNCHANGED <<tables, offers>> /\ session[i].phase = "hello"
      BY <1>4 DEF AuthRequest, Handles
    <2>2. CASE session' = [session EXCEPT ![i].phase = "authenticated"]
      BY <2>1, <2>2, PhaseStep
    <2>3. CASE session' = ReleaseObj(session, i)
      BY <2>1, <2>3, ReleaseStep
    <2> QED
      BY <1>4, <2>2, <2>3 DEF AuthRequest
  <1>5. ASSUME NEW i \in Session, ReadFails(i) \/ ForwardFails(i) \/ TimesOut(i) PROVE Inv'
    <2>1. UNCHANGED <<tables, offers>> /\ session' = ReleaseObj(session, i)
      BY <1>5 DEF ReadFails, ForwardFails, TimesOut, client
    <2> QED
      BY <2>1, ReleaseStep
  <1>6. ASSUME NEW i \in Session, RunUpgrade(i) \/ RunClose(i) \/ Destroy(i) \/ UnknownCommand(i) PROVE Inv'
    BY <1>6, RunUpgradeStep, RunCloseStep, DestroyStep, UnknownCommandStep
  <1>7. ASSUME NEW i \in Session, RegisterBegin(i) \/ RegisterEnd(i) \/ ChannelOpen(i) PROVE Inv'
    BY <1>7, RegisterBeginStep, RegisterEndStep, ChannelOpenStep
  <1>8. CASE UNCHANGED vars
    BY <1>8, ClientStep DEF vars, client
  <1> QED
    BY <1>1, <1>2, <1>3, <1>4, <1>5, <1>6, <1>7, <1>8 DEF Next

\* allowed_register_keys_cache holds the service names of the registered sessions and no
\* others, whatever remove_session takes out and in whichever order the handlers run.
THEOREM NamesFollowRegistrations == Spec => []NamesAgree
  <1>1. Inv => NamesAgree
    <2> SUFFICES ASSUME Inv PROVE NamesAgree
      OBVIOUS
    <2> DEFINE listed == {v \in Client : v \in DOMAIN sessions_by_uuid[v]}
               taken == UNION {session[sessions_by_uuid[u][u]].groups : u \in listed}
    <2>1. names_cache \in SUBSET Service /\ Names(sessions_by_uuid, names_cache, offers) /\ offers \in [Client -> SUBSET Service]
      BY DEF Inv, Good, Types
    <2>2. \A u \in listed : session[sessions_by_uuid[u][u]].groups = offers[u]
      BY DEF Inv, Good, Entries, Signalling
    <2>3. taken = UNION {offers[u] : u \in listed}
      BY <2>2
    <2>4. \A n : n \in taken <=> n \in names_cache
      BY <2>1, <2>3 DEF Names
    <2> QED
      BY <2>4 DEF NamesAgree
  <1> QED
    BY <1>1, InitInv, NextInv, PTL DEF Spec

\* A session that lives and has been accepted as a registration, or recorded as half of a
\* channel, is the entry of sessions_by_uuid_: nothing takes an entry out without
\* releasing its session.
THEOREM LivingSessionsAreFound == Spec => []ListedWhileAlive
  <1>1. Inv => ListedWhileAlive
    BY DEF Inv, Good, Found, ListedWhileAlive
  <1> QED
    BY <1>1, InitInv, NextInv, PTL DEF Spec

=============================================================================
