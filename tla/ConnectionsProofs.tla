-------------------------- MODULE ConnectionsProofs -------------------------
(***************************************************************************)
(* Proofs about Connections for every set of peers, every list of          *)
(* addresses and every bound.  The registry tcp_ctx, the map conns, the    *)
(* state of the contexts and the worker's copy refer to one another: the   *)
(* inductive invariant says how.                                           *)
(***************************************************************************)
EXTENDS Connections, SequenceTheorems, TLAPS

\* The parts of the state that the sessions are kept in have their types; a
\* connection that was made has a peer.
SessionTypes ==
    /\ conns \in [Peer -> Conn \cup {Absent, Null}]
    /\ ctx \in [Conn -> {"none", "active", "inactive", "freed"}]
    /\ peerOf \in [Conn -> Peer \cup {Absent}]
    /\ tcp_ctx \in Seq(Conn)
    /\ held = NoTask \/ held \in [Peer -> Conn \cup {Null}]
    /\ breaks \in Nat /\ refusals \in Nat
    /\ accepted \subseteq Conn /\ breaking \in Conn \cup {Absent}
    /\ \A c \in Conn : ctx[c] # "none" => peerOf[c] \in Peer
    /\ \A c \in accepted : ctx[c] # "none"

\* Every element is in s at one place only.
Once(s) == \A i, j \in 1 .. Len(s) : s[i] = s[j] => i = j

\* x is an element of s.
In(x, s) == \E i \in 1 .. Len(s) : s[i] = x

\* c belongs into the registry: it is open, or event_cb has marked it and not yet
\* come to it.
Registered(c) == ctx[c] = "active" \/ (c = breaking /\ ctx[c] = "inactive")

\* tcp_ctx holds these sessions, each once; the one event_cb is about is not open.
RegistryExact ==
    /\ Once(tcp_ctx)
    /\ \A c \in Conn : Registered(c) <=> In(c, tcp_ctx)
    /\ \A c \in Conn : c = breaking => ctx[c] # "active"

\* A pointer in conns or in the worker's copy was set by a connection that was
\* made, and a null pointer in conns by a connect that was refused.
PointersMade ==
    /\ \A p \in Peer : conns[p] \in Conn => ctx[conns[p]] # "none"
    /\ \A p \in Peer : conns[p] = Null => refusals > 0
    /\ held # NoTask =>
          \A p \in Peer : held[p] \in Conn => ctx[held[p]] # "none"

\* Contexts become inactive, and then freed, by breaks only.
BreaksCounted == \A c \in Conn : ctx[c] \in {"inactive", "freed"} => breaks > 0

\* The inductive invariant.
SessionInv ==
    /\ SessionTypes /\ RegistryExact
    /\ PointersMade /\ BreaksCounted /\ ActiveIsTriggered
-----------------------------------------------------------------------------
\* A part of a sequence, element by element.
LEMMA PartOfSeq ==
    ASSUME NEW S, NEW s \in Seq(S), NEW m \in Nat, NEW n \in Nat,
           1 <= m, n <= Len(s), m <= n + 1
    PROVE  /\ SubSeq(s, m, n) \in Seq(S)
           /\ Len(SubSeq(s, m, n)) = n - m + 1
           /\ \A i \in 1 .. n - m + 1 : SubSeq(s, m, n)[i] = s[m + i - 1]
<1>1. \A i \in m .. n : s[i] \in S
  BY ElementOfSeq, LenProperties
<1>2. /\ SubSeq(s, m, n) \in Seq(S)
      /\ Len(SubSeq(s, m, n)) = IF m <= n THEN n - m + 1 ELSE 0
      /\ \A i \in 1 .. n - m + 1 : SubSeq(s, m, n)[i] = s[m + i - 1]
  BY <1>1, SubSeqProperties
<1>3. (IF m <= n THEN n - m + 1 ELSE 0) = n - m + 1
  OBVIOUS
<1> QED
  BY <1>2, <1>3

\* Erasing the k-th element: those behind it move up by one.
LEMMA RemoveAtElements ==
    ASSUME NEW S, NEW s \in Seq(S), NEW k \in 1 .. Len(s)
    PROVE  /\ RemoveAt(s, k) \in Seq(S)
           /\ Len(RemoveAt(s, k)) = Len(s) - 1
           /\ \A i \in 1 .. Len(s) - 1 :
                 RemoveAt(s, k)[i] = IF i < k THEN s[i] ELSE s[i + 1]
<1>0. Len(s) \in Nat /\ k \in Nat /\ 1 <= k /\ k <= Len(s)
  BY LenProperties
<1>1. PICK a : a = SubSeq(s, 1, k - 1)
  OBVIOUS
<1>2. PICK b : b = SubSeq(s, k + 1, Len(s))
  OBVIOUS
<1>3. PICK t : t = a \o b
  OBVIOUS
<1>4. a \in Seq(S) /\ Len(a) = k - 1 - 1 + 1 /\ \A i \in 1 .. k - 1 - 1 + 1 : a[i] = s[1 + i - 1]
  BY <1>0, <1>1, PartOfSeq
<1>5. /\ b \in Seq(S) /\ Len(b) = Len(s) - (k + 1) + 1
      /\ \A i \in 1 .. Len(s) - (k + 1) + 1 : b[i] = s[k + 1 + i - 1]
  BY <1>0, <1>2, PartOfSeq
<1>6. /\ t \in Seq(S) /\ Len(t) = Len(a) + Len(b)
      /\ \A i \in 1 .. Len(a) + Len(b) : t[i] = IF i <= Len(a) THEN a[i] ELSE b[i - Len(a)]
  BY <1>3, <1>4, <1>5, ConcatProperties
<1>7. Len(t) = Len(s) - 1
  BY <1>0, <1>4, <1>5, <1>6
<1>8. ASSUME NEW i \in 1 .. Len(s) - 1
      PROVE  t[i] = IF i < k THEN s[i] ELSE s[i + 1]
  <2>1. i \in Int /\ i \in 1 .. Len(a) + Len(b)
    BY <1>0, <1>4, <1>5
  <2>2. CASE i < k
    <3>1. i \in 1 .. k - 1 - 1 + 1 /\ 1 + i - 1 = i /\ i <= Len(a)
      BY <1>0, <1>4, <2>1, <2>2
    <3> QED
      BY <1>4, <1>6, <2>1, <2>2, <3>1
  <2>3. CASE ~(i < k)
    <3>1. /\ i - Len(a) \in 1 .. Len(s) - (k + 1) + 1
          /\ k + 1 + (i - Len(a)) - 1 = i + 1 /\ ~(i <= Len(a))
      BY <1>0, <1>4, <2>1, <2>3
    <3> QED
      BY <1>5, <1>6, <2>1, <2>3, <3>1
  <2> QED
    BY <2>2, <2>3
<1>9. RemoveAt(s, k) = t
  BY <1>1, <1>2, <1>3 DEF RemoveAt
<1> QED
  BY <1>6, <1>7, <1>8, <1>9

\* Erasing an element that a sequence holds once leaves the others, each once.
LEMMA RemoveAtProperties ==
    ASSUME NEW S, NEW s \in Seq(S), NEW k \in 1 .. Len(s), Once(s)
    PROVE  /\ Once(RemoveAt(s, k))
           /\ \A x \in S : In(x, RemoveAt(s, k)) <=> (x # s[k] /\ In(x, s))
<1>0. Len(s) \in Nat /\ k \in Nat /\ 1 <= k /\ k <= Len(s)
  BY LenProperties
<1>1. PICK t : t = RemoveAt(s, k)
  OBVIOUS
<1>2. /\ Len(t) = Len(s) - 1
      /\ \A i \in 1 .. Len(s) - 1 : t[i] = IF i < k THEN s[i] ELSE s[i + 1]
  BY <1>1, RemoveAtElements
<1>3. ASSUME NEW i \in 1 .. Len(t)
      PROVE  \E n \in 1 .. Len(s) : n # k /\ t[i] = s[n] /\ n = IF i < k THEN i ELSE i + 1
  <2>1. i \in 1 .. Len(s) - 1 /\ i \in Int
    BY <1>0, <1>2
  <2>2. CASE i < k
    BY <1>0, <1>2, <2>1, <2>2
  <2>3. CASE ~(i < k)
    <3>1. i + 1 \in 1 .. Len(s) /\ i + 1 # k /\ s[i + 1] = t[i]
      BY <1>0, <1>2, <2>1, <2>3
    <3> QED
      BY <2>3, <3>1
  <2> QED
    BY <2>2, <2>3
<1>4. Once(t)
  <2> SUFFICES ASSUME NEW i \in 1 .. Len(t), NEW j \in 1 .. Len(t), t[i] = t[j]
               PROVE  i = j
    BY DEF Once
  <2>1. PICK n \in 1 .. Len(s) : t[i] = s[n] /\ n = IF i < k THEN i ELSE i + 1
    BY <1>3
  <2>2. PICK m \in 1 .. Len(s) : t[j] = s[m] /\ m = IF j < k THEN j ELSE j + 1
    BY <1>3
  <2>3. n = m
    BY <2>1, <2>2 DEF Once
  <2>4. i \in Int /\ j \in Int
    BY <1>0, <1>2
  <2> QED
    BY <1>0, <2>1, <2>2, <2>3, <2>4
<1>5. ASSUME NEW x \in S, In(x, t)
      PROVE  x # s[k] /\ In(x, s)
  <2>1. PICK n \in 1 .. Len(s) : n # k /\ s[n] = x
    BY <1>3, <1>5 DEF In
  <2> QED
    BY <2>1 DEF Once, In
<1>6. ASSUME NEW x \in S, x # s[k], In(x, s)
      PROVE  In(x, t)
  <2>1. PICK j \in 1 .. Len(s) : s[j] = x /\ j # k
    BY <1>6 DEF In
  <2>2. CASE j < k
    BY <1>0, <1>2, <2>1, <2>2 DEF In
  <2>3. CASE j > k
    <3>1. j - 1 \in 1 .. Len(s) - 1 /\ ~(j - 1 < k) /\ j - 1 + 1 = j
      BY <1>0, <2>3
    <3>2. t[j - 1] = x /\ j - 1 \in 1 .. Len(t)
      BY <1>2, <2>1, <3>1
    <3> QED
      BY <3>2 DEF In
  <2> QED
    BY <1>0, <2>1, <2>2, <2>3
<1> QED
  BY <1>1, <1>4, <1>5, <1>6

\* Taking a context off the registry leaves the other open sessions.
LEMMA RegistryWithoutOK ==
    ASSUME SessionTypes, Once(tcp_ctx), NEW c \in Conn
    PROVE  /\ RegistryWithout(c) \in Seq(Conn) /\ Once(RegistryWithout(c))
           /\ \A d \in Conn : In(d, RegistryWithout(c)) <=> (d # c /\ In(d, tcp_ctx))
<1>0. tcp_ctx \in Seq(Conn) /\ DOMAIN tcp_ctx = 1 .. Len(tcp_ctx)
  BY LenProperties DEF SessionTypes
<1>1. CASE c \in ToSet(tcp_ctx)
  <2>1. PICK k : k = CHOOSE i \in DOMAIN tcp_ctx : tcp_ctx[i] = c
    OBVIOUS
  <2>2. k \in 1 .. Len(tcp_ctx) /\ tcp_ctx[k] = c
    BY <1>0, <1>1, <2>1 DEF ToSet
  <2>3. RegistryWithout(c) = RemoveAt(tcp_ctx, k)
    BY <1>1, <2>1 DEF RegistryWithout
  <2>4. RemoveAt(tcp_ctx, k) \in Seq(Conn)
    BY <1>0, <2>2, RemoveAtElements
  <2>5. /\ Once(RemoveAt(tcp_ctx, k))
        /\ \A d \in Conn : In(d, RemoveAt(tcp_ctx, k)) <=> (d # tcp_ctx[k] /\ In(d, tcp_ctx))
    BY <1>0, <2>2, RemoveAtProperties
  <2> QED
    BY <2>2, <2>3, <2>4, <2>5
<1>2. CASE c \notin ToSet(tcp_ctx)
  <2>1. RegistryWithout(c) = tcp_ctx
    BY <1>2 DEF RegistryWithout
  <2>2. ~In(c, tcp_ctx)
    BY <1>0, <1>2 DEF ToSet, In
  <2> QED
    BY <1>0, <2>1, <2>2
<1> QED
  BY <1>1, <1>2

\* A new context, of either kind, is appended to the registry.
LEMMA NewCtxKeeps ==
    ASSUME SessionInv, NEW p \in Peer, NEW c \in Conn, ctx[c] = "none",
           NewCtx(p, c), tcp_ctx' = Append(tcp_ctx, c),
           breaking' = breaking, breaking # c
    PROVE  RegistryExact' /\ tcp_ctx' \in Seq(Conn)
<1>0. ctx' = [ctx EXCEPT ![c] = "active"]
  BY DEF NewCtx
<1>1. /\ tcp_ctx' \in Seq(Conn) /\ Len(tcp_ctx) \in Nat
      /\ Len(tcp_ctx') = Len(tcp_ctx) + 1
      /\ \A i \in 1 .. Len(tcp_ctx) : tcp_ctx'[i] = tcp_ctx[i]
      /\ tcp_ctx'[Len(tcp_ctx) + 1] = c
  BY AppendProperties, LenProperties DEF SessionInv, SessionTypes
<1>2. \A i \in 1 .. Len(tcp_ctx) : tcp_ctx[i] # c
  BY DEF SessionInv, RegistryExact, Registered, In
<1>3. \A d \in Conn : In(d, tcp_ctx') <=> (d = c \/ In(d, tcp_ctx))
  BY <1>1 DEF In
<1>4. Once(tcp_ctx')
  BY <1>1, <1>2 DEF SessionInv, RegistryExact, Once
<1>5. ctx'[c] = "active" /\ \A d \in Conn : d # c => ctx'[d] = ctx[d]
  BY <1>0 DEF SessionInv, SessionTypes
<1> QED
  BY <1>1, <1>3, <1>4, <1>5 DEF SessionInv, RegistryExact, Registered

\* A new connection is the only session to a peer that had none.
LEMMA AddConnectedKeeps ==
    ASSUME SessionInv, NEW p \in Peer, NEW c \in Conn, ctx[c] = "none", ~HasConn(p),
           AddConnected(p, c), breaking = Absent,
           UNCHANGED <<held, breaks, refusals, accepted, breaking>>
    PROVE  SessionInv'
<1>0. /\ conns' = [conns EXCEPT ![p] = c]
      /\ ctx' = [ctx EXCEPT ![c] = "active"]
      /\ peerOf' = [peerOf EXCEPT ![c] = p]
  BY DEF AddConnected, NewCtx
<1>1. RegistryExact' /\ tcp_ctx' \in Seq(Conn)
  BY NewCtxKeeps, PointerAssumption DEF AddConnected
<1>4. SessionTypes'
  BY <1>0, <1>1 DEF SessionInv, SessionTypes
<1>7. PointersMade'
  BY <1>0, PointerAssumption DEF SessionInv, SessionTypes, PointersMade
<1>8. BreaksCounted'
  BY <1>0 DEF SessionInv, SessionTypes, BreaksCounted
<1>9. ActiveIsTriggered'
  <2> SUFFICES ASSUME NEW d \in Conn \ accepted, ctx'[d] = "active" PROVE conns'[peerOf'[d]] = d
    BY DEF ActiveIsTriggered
  <2>1. CASE d = c
    BY <1>0, <2>1 DEF SessionInv, SessionTypes
  <2>2. CASE d # c
    <3>1. ctx[d] = "active" /\ peerOf'[d] = peerOf[d] /\ peerOf[d] \in Peer
      BY <1>0, <2>2 DEF SessionInv, SessionTypes
    <3>2. conns[peerOf[d]] = d
      BY <3>1 DEF SessionInv, ActiveIsTriggered
    <3>3. peerOf[d] # p
      BY <3>2, PointerAssumption DEF HasConn
    <3> QED
      BY <1>0, <3>1, <3>2, <3>3 DEF SessionInv, SessionTypes
  <2> QED
    BY <2>1, <2>2
<1> QED
  BY <1>1, <1>4, <1>7, <1>8, <1>9 DEF SessionInv

\* A session that a peer opens leaves those of this node as they are.
LEMMA AcceptKeeps ==
    ASSUME SessionInv, NEW p \in Peer, TcpAccept(p)
    PROVE  SessionInv'
<1> PICK c \in Conn : /\ ctx[c] = "none" /\ NewCtx(p, c) /\ tcp_ctx' = Append(tcp_ctx, c)
                      /\ accepted' = accepted \cup {c}
  BY DEF TcpAccept, Fresh
<1>0. /\ ctx' = [ctx EXCEPT ![c] = "active"]
      /\ peerOf' = [peerOf EXCEPT ![c] = p]
      /\ breaking = Absent /\ UNCHANGED <<conns, breaking, held, breaks, refusals>>
  BY DEF NewCtx, TcpAccept, InEventLoop
<1>1. RegistryExact' /\ tcp_ctx' \in Seq(Conn)
  BY <1>0, NewCtxKeeps, PointerAssumption
<1>2. SessionTypes'
  BY <1>0, <1>1 DEF SessionInv, SessionTypes
<1>3. PointersMade'
  BY <1>0 DEF SessionInv, SessionTypes, PointersMade
<1>4. BreaksCounted'
  BY <1>0 DEF SessionInv, SessionTypes, BreaksCounted
<1>5. ActiveIsTriggered'
  BY <1>0 DEF SessionInv, SessionTypes, ActiveIsTriggered
<1> QED
  BY <1>1, <1>2, <1>3, <1>4, <1>5 DEF SessionInv

\* A context that is not open and is freed, by the trigger or by the worker, also
\* while event_cb is on its way to it.
LEMMA FreedKeeps ==
    ASSUME SessionInv, NEW c \in Conn, ctx[c] # "none", ctx[c] # "active", FreeCtx(c),
           UNCHANGED <<peerOf, accepted, breaking, breaks, refusals>>,
           held' \in {held, NoTask},
           \/ conns' = conns
           \/ \E p \in Peer : conns[p] = c /\ conns' = [conns EXCEPT ![p] = Absent]
    PROVE  SessionInv'
<1>0. ctx' = [ctx EXCEPT ![c] = "freed"] /\ tcp_ctx' = RegistryWithout(c)
  BY DEF FreeCtx, Release
<1>1. /\ tcp_ctx' \in Seq(Conn) /\ Once(tcp_ctx')
      /\ \A d \in Conn : In(d, tcp_ctx') <=> (d # c /\ In(d, tcp_ctx))
  BY <1>0, RegistryWithoutOK DEF SessionInv, RegistryExact
<1>2. conns' \in [Peer -> Conn \cup {Absent, Null}]
  BY DEF SessionInv, SessionTypes
<1>3. \A p \in Peer : conns'[p] \in {conns[p], Absent}
  BY DEF SessionInv, SessionTypes
<1>4. ctx'[c] = "freed" /\ \A d \in Conn : d # c => ctx'[d] = ctx[d]
  BY <1>0 DEF SessionInv, SessionTypes
<1>5. SessionTypes'
  BY <1>0, <1>1, <1>2, <1>4 DEF SessionInv, SessionTypes
<1>6. RegistryExact'
  BY <1>1, <1>4 DEF SessionInv, RegistryExact, Registered
<1>7. PointersMade'
  <2>1. \A d \in Conn : ctx[d] # "none" => ctx'[d] # "none"
    BY <1>4
  <2> QED
    BY <1>3, <2>1, PointerAssumption DEF SessionInv, SessionTypes, PointersMade
<1>8. BreaksCounted'
  BY <1>4 DEF SessionInv, SessionTypes, BreaksCounted
<1>9. ActiveIsTriggered'
  BY <1>4 DEF SessionInv, SessionTypes, ActiveIsTriggered
<1> QED
  BY <1>5, <1>6, <1>7, <1>8, <1>9 DEF SessionInv

\* event_cb marks an open session, which stays in the registry for the moment.
LEMMA MarkedKeeps ==
    ASSUME SessionInv, NEW c \in Conn, EventCb(c)
    PROVE  SessionInv'
<1>0. /\ ctx[c] = "active" /\ ctx' = [ctx EXCEPT ![c] = "inactive"]
      /\ breaking = Absent /\ breaking' = c /\ breaks' = breaks + 1
      /\ UNCHANGED <<conns, peerOf, accepted, tcp_ctx, held, refusals>>
  BY DEF EventCb, InEventLoop, IsActive
<1>1. ctx'[c] = "inactive" /\ \A d \in Conn : d # c => ctx'[d] = ctx[d]
  BY <1>0 DEF SessionInv, SessionTypes
<1>2. SessionTypes'
  BY <1>0, <1>1 DEF SessionInv, SessionTypes
<1>3. RegistryExact'
  BY <1>0, <1>1, PointerAssumption DEF SessionInv, RegistryExact, Registered
<1>4. PointersMade'
  BY <1>0, <1>1 DEF SessionInv, SessionTypes, PointersMade
<1>5. BreaksCounted'
  BY <1>0 DEF SessionInv, SessionTypes, BreaksCounted
<1>6. ActiveIsTriggered'
  BY <1>0, <1>1 DEF SessionInv, SessionTypes, ActiveIsTriggered
<1> QED
  BY <1>2, <1>3, <1>4, <1>5, <1>6 DEF SessionInv

\* Its loop takes that session off the registry, if the worker has not done so by
\* freeing it.
LEMMA ErasedKeeps ==
    ASSUME SessionInv, EventCbErases
    PROVE  SessionInv'
<1>0. /\ breaking # Absent /\ breaking' = Absent /\ tcp_ctx' = RegistryWithout(breaking)
      /\ UNCHANGED <<conns, ctx, peerOf, accepted, held, breaks, refusals>>
  BY DEF EventCbErases
<1>1. breaking \in Conn
  BY <1>0 DEF SessionInv, SessionTypes
<1>2. /\ tcp_ctx' \in Seq(Conn) /\ Once(tcp_ctx')
      /\ \A d \in Conn : In(d, tcp_ctx') <=> (d # breaking /\ In(d, tcp_ctx))
  BY <1>0, <1>1, RegistryWithoutOK DEF SessionInv, RegistryExact
<1>3. RegistryExact'
  BY <1>0, <1>1, <1>2, PointerAssumption DEF SessionInv, RegistryExact, Registered
<1>4. SessionTypes'
  BY <1>0, <1>2 DEF SessionInv, SessionTypes
<1>5. PointersMade' /\ BreaksCounted' /\ ActiveIsTriggered'
  BY <1>0 DEF SessionInv, PointersMade, BreaksCounted, ActiveIsTriggered
<1> QED
  BY <1>3, <1>4, <1>5 DEF SessionInv
-----------------------------------------------------------------------------
\* The invariant holds when the node starts, and every step keeps it: hellos and
\* their answers, refused connects, accepted and broken sessions, the trigger's rounds
\* and the worker's use of its copy, in any order.
THEOREM SessionInvariant == Spec => []SessionInv
<1>1. Init => SessionInv
  <2> SUFFICES ASSUME Init PROVE SessionInv
    OBVIOUS
  <2>1. tcp_ctx \in Seq(Conn) /\ Len(tcp_ctx) = 0
    BY EmptySeq DEF Init
  <2> QED
    BY <2>1, PointerAssumption DEF Init, SessionInv, SessionTypes, RegistryExact, Registered, Once, In,
       PointersMade, BreaksCounted, ActiveIsTriggered, NoTask
<1>2. SessionInv /\ [Next]_vars => SessionInv'
  <2> SUFFICES ASSUME SessionInv, [Next]_vars PROVE SessionInv'
    OBVIOUS
  <2> USE DEF SessionInv
  <2>0. CASE UNCHANGED <<conns, ctx, peerOf, accepted, tcp_ctx, breaking, held, breaks, refusals>>
    BY <2>0 DEF SessionTypes, RegistryExact, Registered, PointersMade, BreaksCounted,
       ActiveIsTriggered
  <2>1. ASSUME NEW k \in Client, NEW p \in Peer, HandleHelloAck(k, p) PROVE SessionInv'
    <3>1. CASE HasConn(p)
      BY <2>0, <2>1, <3>1 DEF HandleHelloAck
    <3>2. CASE ~HasConn(p)
      <4> PICK c \in Conn : ctx[c] = "none" /\ AddConnected(p, c)
        BY <2>1, <3>2 DEF HandleHelloAck, Fresh
      <4>1. breaking = Absent /\ UNCHANGED <<held, breaks, refusals, accepted, breaking>>
        BY <2>1 DEF HandleHelloAck, InEventLoop
      <4> QED
        BY <3>2, <4>1, AddConnectedKeeps
    <3> QED
      BY <3>1, <3>2
  <2>2. ASSUME NEW k \in Client, NEW p \in Peer, HelloAckRefused(k, p) PROVE SessionInv'
    <3>1. /\ conns' = [conns EXCEPT ![p] = Null] /\ refusals' = refusals + 1
          /\ UNCHANGED <<ctx, peerOf, accepted, tcp_ctx, breaking, held, breaks>> /\ ~HasConn(p)
      BY <2>2 DEF HelloAckRefused
    <3>2. ActiveIsTriggered'
      BY <3>1, PointerAssumption DEF ActiveIsTriggered, SessionTypes, HasConn
    <3> QED
      BY <3>1, <3>2, PointerAssumption
      DEF SessionTypes, RegistryExact, Registered, PointersMade, BreaksCounted
  <2>3. ASSUME NEW c \in Conn, EventCb(c) PROVE SessionInv'
    BY <2>3, MarkedKeeps
  <2>4. ASSUME NEW p \in Peer, VisitBroken(p) PROVE SessionInv'
    <3>1. conns[p] \in Conn /\ ctx[conns[p]] # "none" /\ ctx[conns[p]] # "active"
      BY <2>4 DEF VisitBroken, HasConn, IsActive, SessionTypes, PointersMade
    <3>2. /\ FreeCtx(conns[p])
          /\ UNCHANGED <<peerOf, accepted, breaking, held, breaks, refusals>>
          /\ conns' = conns \/ conns' = [conns EXCEPT ![p] = Absent]
      BY <2>4 DEF VisitBroken, DelNetAddr
    <3> QED
      BY <3>1, <3>2, FreedKeeps
  <2>5. CASE CopySessions
    <3> PICK h \in [Peer -> Conn \cup {Null}] :
            (\A p \in Peer : NewestSession(p, h[p])) /\ held' = h
      BY <2>5 DEF CopySessions
    <3>1. ASSUME NEW p \in Peer, h[p] \in Conn PROVE ctx[h[p]] # "none"
      <4>1. PICK i \in DOMAIN tcp_ctx : h[p] = tcp_ctx[i]
        BY <3>1, PointerAssumption DEF NewestSession
      <4>2. i \in 1 .. Len(tcp_ctx)
        BY <4>1, LenProperties DEF SessionTypes
      <4> QED
        BY <3>1, <4>1, <4>2 DEF RegistryExact, Registered, In
    <3>2. UNCHANGED <<conns, ctx, peerOf, accepted, tcp_ctx, breaking, breaks, refusals>>
      BY <2>5 DEF CopySessions
    <3> QED
      BY <3>1, <3>2 DEF SessionTypes, RegistryExact, Registered, PointersMade, BreaksCounted,
         ActiveIsTriggered
  <2>6. CASE held' = NoTask /\ UNCHANGED <<conns, ctx, peerOf, accepted, tcp_ctx, breaking, breaks, refusals>>
    BY <2>6 DEF SessionTypes, RegistryExact, Registered, PointersMade, BreaksCounted,
       ActiveIsTriggered
  <2>7. ASSUME NEW p \in Peer, SendFaults(p) PROVE SessionInv'
    <3>1. CASE UNCHANGED <<ctx, tcp_ctx>>
      BY <2>6, <2>7, <3>1 DEF SendFaults
    <3>2. CASE held[p] # Null /\ ~IsActive(held[p]) /\ FreeCtx(held[p])
      <4>1. held \in [Peer -> Conn \cup {Null}] /\ held # NoTask /\ held' = NoTask
        BY <2>7 DEF SendFaults, SessionTypes
      <4>2. held[p] \in Conn /\ ctx[held[p]] # "none" /\ ctx[held[p]] # "active"
        BY <3>2, <4>1 DEF PointersMade, IsActive
      <4>3. UNCHANGED <<conns, peerOf, accepted, breaking, breaks, refusals>>
        BY <2>7 DEF SendFaults
      <4> QED
        BY <3>2, <4>1, <4>2, <4>3, FreedKeeps
    <3> QED
      BY <2>7, <3>1, <3>2 DEF SendFaults
  <2>8. ASSUME NEW p \in Peer, TcpAccept(p) PROVE SessionInv'
    BY <2>8, AcceptKeeps
  <2>9. CASE EventCbErases
    BY <2>9, ErasedKeeps
  <2> QED
    BY <2>0, <2>1, <2>2, <2>3, <2>4, <2>5, <2>6, <2>7, <2>8, <2>9
    DEF Next, vars, Trigger, TriggerStarts, VisitActive, VisitNull, TaskEnds, HelloAnswered
<1> QED
  BY <1>1, <1>2, PTL DEF Spec

\* Every open session that this node opened is the one the timer uses for its peer,
\* whatever sessions the peers open and break beside it.
THEOREM SessionsTriggered == Spec => []ActiveIsTriggered
<1>1. SessionInv => ActiveIsTriggered
  BY DEF SessionInv
<1> QED
  BY <1>1, SessionInvariant, PTL

\* The registry holds exactly the open sessions and the one that event_cb has marked
\* and not yet come to, also if the worker copies or frees contexts within the callback.
THEOREM RegistrySound == Spec => []RegistryIsActive
<1>1. SessionInv => RegistryIsActive
  <2> SUFFICES ASSUME SessionInv PROVE RegistryIsActive
    OBVIOUS
  <2>1. DOMAIN tcp_ctx = 1 .. Len(tcp_ctx) /\ \A i \in 1 .. Len(tcp_ctx) : tcp_ctx[i] \in Conn
    BY LenProperties, ElementOfSeq DEF SessionInv, SessionTypes
  <2> QED
    BY <2>1 DEF SessionInv, RegistryExact, Registered, RegistryIsActive, ToSet, In
<1> QED
  BY <1>1, SessionInvariant, PTL

\* A freed or null pointer is used only after a break or a refused connect, or by
\* a worker whose owner has no session.
THEOREM FaultsNeedBreaks == Spec => FaultNeedsBreak
<1>1. SessionInv /\ [Next]_vars =>
         [(faults' # faults /\ (held' = held \/ "freed" \in faults' \ faults))
             => breaks + refusals' > 0]_vars
  <2> SUFFICES ASSUME SessionInv, Next, faults' # faults,
                      held' = held \/ "freed" \in faults' \ faults
               PROVE  breaks + refusals' > 0
    OBVIOUS
  <2> USE DEF SessionInv
  <2>0. breaks \in Nat /\ refusals \in Nat
    BY DEF SessionTypes
  <2>1. ASSUME NEW k \in Client, NEW p \in Peer, HelloAckRefused(k, p)
        PROVE  breaks + refusals' > 0
    BY <2>0, <2>1 DEF HelloAckRefused
  <2>2. ASSUME NEW p \in Peer, VisitNull(p) PROVE breaks + refusals' > 0
    BY <2>0, <2>2 DEF VisitNull, PointersMade
  <2>3. ASSUME NEW p \in Peer, VisitBroken(p) PROVE breaks + refusals' > 0
    <3>1. ctx[conns[p]] \in {"inactive", "freed"} /\ conns[p] \in Conn
      BY <2>3 DEF VisitBroken, HasConn, IsActive, SessionTypes, PointersMade
    <3> QED
      BY <2>0, <2>3, <3>1 DEF BreaksCounted, VisitBroken
  <2>4. ASSUME NEW p \in Peer, SendFaults(p) PROVE breaks + refusals' > 0
    <3>1. held # NoTask /\ held' = NoTask /\ held \in [Peer -> Conn \cup {Null}]
      BY <2>4 DEF SendFaults, SessionTypes
    <3>2. "freed" \in faults' \ faults
      BY <3>1
    <3>3. held[p] # Null /\ ~IsActive(held[p])
      BY <2>4, <3>2 DEF SendFaults, Fault
    <3>4. ctx[held[p]] \in {"inactive", "freed"} /\ held[p] \in Conn
      BY <3>1, <3>3 DEF SessionTypes, PointersMade, IsActive
    <3> QED
      BY <2>0, <2>4, <3>4 DEF BreaksCounted, SendFaults
  <2> QED
    BY <2>1, <2>2, <2>3, <2>4
    DEF Next, Trigger, TriggerStarts, VisitActive, CopySessions, TaskEnds, HelloAnswered,
        HandleHelloAck, EventCb, EventCbErases, TcpAccept
<1> QED
  BY <1>1, SessionInvariant, PTL DEF Spec, FaultNeedsBreak
=============================================================================
