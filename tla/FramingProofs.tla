---------------------------- MODULE FramingProofs ---------------------------
(***************************************************************************)
(* Proofs about Framing, for every sequence of packets and every way that  *)
(* TCP cuts the stream.                                                    *)
(*                                                                         *)
(* Both the bytes of the headers and the place of a packet in the stream   *)
(* are sums, folds over a finite set.  What a sum does for every set is    *)
(* shown with a smallest counterexample, which the finite sets under       *)
(* strict inclusion always have.                                           *)
(***************************************************************************)
EXTENDS Framing, FiniteSetTheorems, WellFoundedInduction, TLAPS

\* A set of subsets of a finite set has a smallest member.
LEMMA SmallestSubset ==
    ASSUME NEW S, IsFiniteSet(S), NEW T \in SUBSET SUBSET S, T # {}
    PROVE  \E t \in T : \A u \in T : u \subseteq t => u = t
<1>1. FiniteSubsetsOf(S) = SUBSET S
  BY FS_FiniteSubsetsOfFinite
<1>2. IsWellFoundedOn(StrictSubsetOrdering(S), SUBSET S)
  BY <1>1, FS_StrictSubsetOrderingWellFounded
<1>3. PICK t \in T : \A u \in T : ~(<<u, t>> \in StrictSubsetOrdering(S))
  BY <1>2, WFMin
<1> QED
  BY <1>3 DEF StrictSubsetOrdering
-----------------------------------------------------------------------------
\* Sums.

Any(t) == CHOOSE x \in t : TRUE

\* g[t] is the sum of f over t, for every subset t of S.
Sums(g, f, S) ==
    g = [t \in SUBSET S |-> IF t = {} THEN 0 ELSE f[Any(t)] + g[t \ {Any(t)}]]

LEMMA SumIsSums ==
    ASSUME NEW f, NEW S
    PROVE  SumFunctionOnSet(f, S) = (CHOOSE g : Sums(g, f, S))[S]
BY DEF SumFunctionOnSet, FoldFunctionOnSet, MapThenFoldSet, Sums, Any

LEMMA AnyIn == ASSUME NEW t, t # {} PROVE Any(t) \in t
BY DEF Any

\* Two such functions agree where the numbers do.
LEMMA SumsAgree ==
    ASSUME NEW S, IsFiniteSet(S), NEW R, NEW f, NEW e, NEW g, NEW h,
           Sums(g, f, S), Sums(h, e, R),
           NEW t, t \subseteq S, t \subseteq R, \A x \in t : f[x] = e[x]
    PROVE  g[t] = h[t]
<1> DEFINE Bad == {u \in SUBSET t : g[u] # h[u]}
<1> SUFFICES ASSUME g[t] # h[t] PROVE FALSE
  OBVIOUS
<1>1. IsFiniteSet(t) /\ t \in Bad /\ Bad \in SUBSET SUBSET t
  BY FS_Subset
<1>2. PICK u \in Bad : \A w \in Bad : w \subseteq u => w = u
  <2> HIDE DEF Bad
  <2> QED
    BY <1>1, SmallestSubset
<1>3. u \in SUBSET S /\ u \in SUBSET R
  OBVIOUS
<1>4. g[u] = IF u = {} THEN 0 ELSE f[Any(u)] + g[u \ {Any(u)}]
  BY <1>3 DEF Sums
<1>5. h[u] = IF u = {} THEN 0 ELSE e[Any(u)] + h[u \ {Any(u)}]
  BY <1>3 DEF Sums
<1>6. u # {} /\ Any(u) \in u
  BY <1>4, <1>5, AnyIn
<1>7. u \ {Any(u)} \notin Bad
  BY <1>2, <1>6
<1>8. g[u \ {Any(u)}] = h[u \ {Any(u)}]
  BY <1>7
<1> QED
  BY <1>4, <1>5, <1>6, <1>8

\* There is such a function for every finite set.
LEMMA SumsExist ==
    ASSUME NEW S, IsFiniteSet(S), NEW f
    PROVE  \E g : Sums(g, f, S)
<1> DEFINE Bad == {u \in SUBSET S : ~\E g : Sums(g, f, u)}
<1> SUFFICES ASSUME ~\E g : Sums(g, f, S) PROVE FALSE
  OBVIOUS
<1>1. S \in Bad /\ Bad \in SUBSET SUBSET S
  OBVIOUS
<1>2. PICK u \in Bad : \A w \in Bad : w \subseteq u => w = u
  <2> HIDE DEF Bad
  <2> QED
    BY <1>1, SmallestSubset
<1> DEFINE G(w) == CHOOSE g : Sums(g, f, w)
           Less(w) == w \ {Any(w)}
<1>3. ASSUME NEW w \in SUBSET u, w # u PROVE Sums(G(w), f, w) /\ IsFiniteSet(w)
  <2>1. \E g : Sums(g, f, w)
    BY <1>2, <1>3
  <2> QED
    BY <2>1, FS_Subset
<1>4. ASSUME NEW w \in SUBSET u, w # {} PROVE Less(w) \in SUBSET u /\ Less(w) # u /\ Any(w) \in w
  BY <1>4, AnyIn
<1> HIDE DEF G, Less
<1>5. PICK g : g = [w \in SUBSET u |-> IF w = {} THEN 0 ELSE f[Any(w)] + G(Less(w))[Less(w)]]
  OBVIOUS
<1>6. ASSUME NEW w \in SUBSET u, w # u PROVE g[w] = G(w)[w]
  <2>1. G(w)[w] = IF w = {} THEN 0 ELSE f[Any(w)] + G(w)[Less(w)]
    <3>1. w \in SUBSET w
      OBVIOUS
    <3> QED
      BY <1>3, <1>6, <3>1 DEF Sums, Less
  <2>2. CASE w = {}
    BY <2>1, <2>2, <1>5
  <2>3. CASE w # {}
    <3>1. Less(w) \in SUBSET u /\ Less(w) # u /\ Less(w) \subseteq w
      BY <1>4, <2>3 DEF Less
    <3>2. Sums(G(w), f, w) /\ IsFiniteSet(w) /\ Sums(G(Less(w)), f, Less(w))
      BY <1>3, <1>6, <3>1
    <3>3. G(w)[Less(w)] = G(Less(w))[Less(w)]
      BY <3>1, <3>2, SumsAgree
    <3> QED
      BY <2>1, <2>3, <3>3, <1>5
  <2> QED
    BY <2>2, <2>3
<1>7. ASSUME NEW w \in SUBSET u, w # {} PROVE g[Less(w)] = G(Less(w))[Less(w)]
  BY <1>4, <1>6, <1>7
<1>8. g = [w \in SUBSET u |-> IF w = {} THEN 0 ELSE f[Any(w)] + g[Less(w)]]
  BY <1>5, <1>7
<1>9. Sums(g, f, u)
  BY <1>8 DEF Sums, Less
<1> QED
  BY <1>9

\* The sum over a set, one member taken out: the one that the fold takes.
LEMMA SumUnfold ==
    ASSUME NEW S, IsFiniteSet(S), NEW f
    PROVE  SumFunctionOnSet(f, S) =
               IF S = {} THEN 0 ELSE f[Any(S)] + SumFunctionOnSet(f, S \ {Any(S)})
<1> DEFINE G(w) == CHOOSE g : Sums(g, f, w)
           R == S \ {Any(S)}
<1>1. IsFiniteSet(R)
  BY FS_Subset
<1>2. Sums(G(S), f, S) /\ Sums(G(R), f, R)
  BY <1>1, SumsExist
<1>3. SumFunctionOnSet(f, S) = G(S)[S] /\ SumFunctionOnSet(f, R) = G(R)[R]
  BY SumIsSums
<1>4. R \subseteq S
  OBVIOUS
<1> HIDE DEF G, R
<1>5. G(S)[R] = G(R)[R]
  BY <1>2, <1>4, SumsAgree
<1>6. S \in SUBSET S
  OBVIOUS
<1>7. G(S)[S] = IF S = {} THEN 0 ELSE f[Any(S)] + G(S)[R]
  BY <1>2, <1>6 DEF Sums, R
<1> QED
  BY <1>3, <1>5, <1>7 DEF R

\* The sum over a set depends on the numbers in that set only.
LEMMA SumSame ==
    ASSUME NEW S, IsFiniteSet(S), NEW f, NEW e, \A x \in S : f[x] = e[x]
    PROVE  SumFunctionOnSet(f, S) = SumFunctionOnSet(e, S)
<1>1. PICK g : g = CHOOSE c : Sums(c, f, S)
  OBVIOUS
<1>2. PICK h : h = CHOOSE c : Sums(c, e, S)
  OBVIOUS
<1>3. Sums(g, f, S) /\ Sums(h, e, S)
  BY <1>1, <1>2, SumsExist
<1>4. g[S] = h[S]
  BY <1>3, SumsAgree
<1> QED
  BY <1>1, <1>2, <1>4, SumIsSums

\* The sum of natural numbers is one.
LEMMA SumNat ==
    ASSUME NEW S, IsFiniteSet(S), NEW f, \A x \in S : f[x] \in Nat
    PROVE  SumFunctionOnSet(f, S) \in Nat
<1> DEFINE Bad == {u \in SUBSET S : SumFunctionOnSet(f, u) \notin Nat}
<1> SUFFICES ASSUME SumFunctionOnSet(f, S) \notin Nat PROVE FALSE
  OBVIOUS
<1>1. S \in Bad /\ Bad \in SUBSET SUBSET S
  OBVIOUS
<1>2. PICK u \in Bad : \A w \in Bad : w \subseteq u => w = u
  <2> HIDE DEF Bad
  <2> QED
    BY <1>1, SmallestSubset
<1>3. IsFiniteSet(u)
  BY FS_Subset
<1>4. SumFunctionOnSet(f, u) = IF u = {} THEN 0 ELSE f[Any(u)] + SumFunctionOnSet(f, u \ {Any(u)})
  BY <1>3, SumUnfold
<1>5. u # {} /\ Any(u) \in u
  BY <1>4, AnyIn
<1>6. SumFunctionOnSet(f, u \ {Any(u)}) \in Nat
  BY <1>2, <1>5
<1> QED
  BY <1>4, <1>5, <1>6

\* Any member can be taken out: addition commutes.
LEMMA SumTake ==
    ASSUME NEW S, IsFiniteSet(S), NEW f, \A x \in S : f[x] \in Nat, NEW k \in S
    PROVE  SumFunctionOnSet(f, S) = f[k] + SumFunctionOnSet(f, S \ {k})
<1> DEFINE Sum(u) == SumFunctionOnSet(f, u)
           Bad == {u \in SUBSET S : \E x \in u : Sum(u) # f[x] + Sum(u \ {x})}
<1> HIDE DEF Sum
<1> SUFFICES ASSUME Sum(S) # f[k] + Sum(S \ {k}) PROVE FALSE
  BY DEF Sum
<1>1. S \in Bad /\ Bad \in SUBSET SUBSET S
  OBVIOUS
<1>2. PICK u \in Bad : \A w \in Bad : w \subseteq u => w = u
  <2> HIDE DEF Bad
  <2> QED
    BY <1>1, SmallestSubset
<1>3. PICK x \in u : Sum(u) # f[x] + Sum(u \ {x})
  OBVIOUS
<1>4. ASSUME NEW w \in SUBSET S PROVE Sum(w) \in Nat
  <2>1. IsFiniteSet(w)
    BY FS_Subset
  <2> QED
    BY <2>1, SumNat DEF Sum
<1>5. PICK c : c = Any(u)
  OBVIOUS
<1>6. c \in u /\ Sum(u) = f[c] + Sum(u \ {c})
  <2>1. IsFiniteSet(u)
    BY FS_Subset
  <2> QED
    BY <1>5, <2>1, SumUnfold, AnyIn DEF Sum
<1>7. c # x
  BY <1>3, <1>6
<1>8. Sum(u \ {c}) = f[x] + Sum((u \ {c}) \ {x})
  <2>1. u \ {c} \notin Bad /\ x \in u \ {c}
    BY <1>2, <1>6, <1>7
  <2> QED
    BY <2>1
<1>9. Sum(u \ {x}) = f[c] + Sum((u \ {x}) \ {c})
  <2>1. u \ {x} \notin Bad /\ c \in u \ {x}
    BY <1>2, <1>6, <1>7
  <2> QED
    BY <2>1
<1>10. (u \ {x}) \ {c} = (u \ {c}) \ {x}
  OBVIOUS
<1>11. f[x] \in Nat /\ f[c] \in Nat /\ Sum((u \ {c}) \ {x}) \in Nat
  BY <1>4, <1>6
<1> QED
  BY <1>3, <1>6, <1>8, <1>9, <1>10, <1>11

\* A part of a sum is no more than the whole.
LEMMA SumPart ==
    ASSUME NEW S, IsFiniteSet(S), NEW f, \A x \in S : f[x] \in Nat, NEW R \in SUBSET S
    PROVE  SumFunctionOnSet(f, R) <= SumFunctionOnSet(f, S)
<1> DEFINE Sum(u) == SumFunctionOnSet(f, u)
           Bad == {u \in SUBSET S : R \subseteq u /\ ~(Sum(R) <= Sum(u))}
<1> HIDE DEF Sum
<1> SUFFICES ASSUME ~(Sum(R) <= Sum(S)) PROVE FALSE
  BY DEF Sum
<1>1. S \in Bad /\ Bad \in SUBSET SUBSET S
  OBVIOUS
<1>2. PICK u \in Bad : \A w \in Bad : w \subseteq u => w = u
  <2> HIDE DEF Bad
  <2> QED
    BY <1>1, SmallestSubset
<1>3. ASSUME NEW w \in SUBSET S PROVE IsFiniteSet(w) /\ Sum(w) \in Nat
  <2>1. IsFiniteSet(w)
    BY FS_Subset
  <2> QED
    BY <2>1, SumNat DEF Sum
<1>4. u # R
  BY <1>2, <1>3
<1>5. PICK x \in u : x \notin R
  BY <1>4
<1>6. Sum(u) = f[x] + Sum(u \ {x})
  BY <1>3, SumTake DEF Sum
<1>7. u \ {x} \notin Bad
  BY <1>2
<1>8. Sum(R) <= Sum(u \ {x})
  BY <1>5, <1>7
<1>9. Sum(R) \in Nat /\ Sum(u \ {x}) \in Nat /\ f[x] \in Nat
  BY <1>3
<1> QED
  BY <1>6, <1>8, <1>9
-----------------------------------------------------------------------------
\* Packets under construction.

Bytes(x) == SumFunction([k \in DOMAIN x |-> KvLen(x[k])])

Xheaders == {x \in UNION {[K -> Value] : K \in SUBSET Key} : IsFiniteSet(DOMAIN x)}

DataLen(d) == IF d = Null THEN 0 ELSE Len(d)

Records ==
    [type : Type, xheader : Xheaders, data : Data \cup {Null}, header_len : Nat, total_len : Nat]

\* The lengths of a packet: the headers fit below header_len, the data fills the
\* rest, and neither length has wrapped around.
Packets ==
    {p \in Records :
        /\ LEN_LAN_SYNC_HEADER_T + Bytes(p.xheader) <= p.header_len
        /\ p.total_len = p.header_len + DataLen(p.data)
        /\ p.header_len < UshortMod /\ p.total_len < UintMod}

LEMMA KvLenNat == ASSUME NEW v \in Value PROVE KvLen(v) \in Nat
<1>1. v \in Seq(Range(v))
  BY FramingAssumption
<1>2. v # <<>> => Len(v) \in Nat /\ Len(v) >= 1
  BY <1>1
<1> QED
  BY <1>2 DEF KvLen, ValueLen, FLAG_KEY_VALUE_SPLIT

LEMMA DataLenNat == ASSUME NEW d \in Data \cup {Null} PROVE DataLen(d) \in Nat
<1>1. d # Null => d \in Seq(Range(d))
  BY FramingAssumption
<1> QED
  BY <1>1 DEF DataLen

LEMMA XheaderFun ==
    ASSUME NEW x \in Xheaders
    PROVE  /\ IsFiniteSet(DOMAIN x) /\ DOMAIN x \subseteq Key
           /\ \A k \in DOMAIN x : x[k] \in Value /\ KvLen(x[k]) \in Nat
BY KvLenNat DEF Xheaders

\* The bytes of the headers, one of them taken out.
LEMMA BytesTake ==
    ASSUME NEW x \in Xheaders, NEW k \in DOMAIN x, NEW f,
           \A j \in DOMAIN x \ {k} : f[j] = KvLen(x[j])
    PROVE  /\ SumFunctionOnSet(f, DOMAIN x \ {k}) \in Nat
           /\ Bytes(x) = KvLen(x[k]) + SumFunctionOnSet(f, DOMAIN x \ {k})
<1>1. PICK g : g = [j \in DOMAIN x |-> KvLen(x[j])]
  OBVIOUS
<1>2. IsFiniteSet(DOMAIN x) /\ IsFiniteSet(DOMAIN x \ {k}) /\ \A j \in DOMAIN x : g[j] \in Nat
  BY <1>1, XheaderFun, FS_Subset
<1>3. Bytes(x) = SumFunctionOnSet(g, DOMAIN x)
  BY <1>1 DEF Bytes, SumFunction
<1>4. SumFunctionOnSet(g, DOMAIN x) = g[k] + SumFunctionOnSet(g, DOMAIN x \ {k})
  BY <1>2, SumTake
<1>5. \A j \in DOMAIN x \ {k} : g[j] = f[j]
  BY <1>1
<1>6. SumFunctionOnSet(g, DOMAIN x \ {k}) = SumFunctionOnSet(f, DOMAIN x \ {k})
  BY <1>2, <1>5, SumSame
<1>7. SumFunctionOnSet(g, DOMAIN x \ {k}) \in Nat
  BY <1>2, SumNat
<1> QED
  BY <1>1, <1>3, <1>4, <1>6, <1>7

LEMMA BytesNat == ASSUME NEW x \in Xheaders PROVE Bytes(x) \in Nat
<1>1. PICK g : g = [j \in DOMAIN x |-> KvLen(x[j])]
  OBVIOUS
<1>2. IsFiniteSet(DOMAIN x) /\ \A j \in DOMAIN x : g[j] \in Nat
  BY <1>1, XheaderFun
<1>3. Bytes(x) = SumFunctionOnSet(g, DOMAIN x)
  BY <1>1 DEF Bytes, SumFunction
<1> QED
  BY <1>2, <1>3, SumNat

\* What a replaced value gives back is no more than it took.
LEMMA BytesWith ==
    ASSUME NEW p, p.xheader \in Xheaders, NEW k \in Key, NEW v \in Value
    PROVE  /\ WithXheader(p, k, v) \in Xheaders
           /\ KvRemoved(QueryXheader(p, k)) \in Nat
           /\ KvRemoved(QueryXheader(p, k)) <= Bytes(p.xheader)
           /\ Bytes(WithXheader(p, k, v)) <=
                  Bytes(p.xheader) - KvRemoved(QueryXheader(p, k)) + KvLen(v)
<1>1. PICK x : x = p.xheader
  OBVIOUS
<1>2. PICK y : y = WithXheader(p, k, v)
  OBVIOUS
<1>3. x \in Xheaders
  BY <1>1
<1>4. IsFiniteSet(DOMAIN x) /\ DOMAIN x \subseteq Key /\ \A j \in DOMAIN x : x[j] \in Value
  BY <1>3, XheaderFun
<1>5. y = [j \in DOMAIN x \cup {k} |-> IF j = k THEN v ELSE x[j]]
  BY <1>1, <1>2 DEF WithXheader
<1>6. y \in Xheaders
  <2>1. y \in [DOMAIN x \cup {k} -> Value]
    BY <1>4, <1>5
  <2>2. IsFiniteSet(DOMAIN x \cup {k})
    BY <1>4, FS_AddElement
  <2> QED
    BY <1>4, <2>1, <2>2 DEF Xheaders
<1>7. PICK g : g = [j \in DOMAIN y |-> KvLen(y[j])]
  OBVIOUS
<1>8. PICK rest : rest = SumFunctionOnSet(g, DOMAIN x \ {k})
  OBVIOUS
<1>9. KvLen(v) \in Nat /\ Bytes(x) \in Nat
  BY KvLenNat, BytesNat, <1>3
<1>10. rest \in Nat /\ Bytes(y) = KvLen(v) + rest
  <2>1. k \in DOMAIN y /\ y[k] = v /\ DOMAIN y \ {k} = DOMAIN x \ {k}
    BY <1>5
  <2>2. \A j \in DOMAIN y \ {k} : g[j] = KvLen(y[j])
    BY <1>7
  <2>3. /\ SumFunctionOnSet(g, DOMAIN y \ {k}) \in Nat
        /\ Bytes(y) = KvLen(y[k]) + SumFunctionOnSet(g, DOMAIN y \ {k})
    BY <1>6, <2>1, <2>2, BytesTake
  <2> QED
    BY <1>8, <2>1, <2>3
<1>11. CASE k \in DOMAIN x
  <2>1. \A j \in DOMAIN x \ {k} : g[j] = KvLen(x[j])
    BY <1>5, <1>7
  <2>2. Bytes(x) = KvLen(x[k]) + rest
    BY <1>3, <1>8, <1>11, <2>1, BytesTake
  <2>3. QueryXheader(p, k) = x[k] /\ KvLen(x[k]) \in Nat
    BY <1>1, <1>4, <1>11, KvLenNat DEF QueryXheader
  <2>4. KvRemoved(x[k]) \in Nat /\ KvRemoved(x[k]) <= KvLen(x[k])
    BY <2>3 DEF KvRemoved
  <2> QED
    BY <1>1, <1>2, <1>6, <1>9, <1>10, <2>2, <2>3, <2>4
<1>12. CASE k \notin DOMAIN x
  <2>1. KvRemoved(QueryXheader(p, k)) = 0
    BY <1>1, <1>12 DEF QueryXheader, KvRemoved
  <2>2. DOMAIN x \ {k} = DOMAIN x
    BY <1>12
  <2>3. PICK f : f = [j \in DOMAIN x |-> KvLen(x[j])]
    OBVIOUS
  <2>4. \A j \in DOMAIN x : g[j] = f[j]
    BY <1>5, <1>7, <1>12, <2>3
  <2>5. SumFunctionOnSet(g, DOMAIN x) = SumFunctionOnSet(f, DOMAIN x)
    BY <1>4, <2>4, SumSame
  <2>6. Bytes(x) = rest
    BY <1>8, <2>2, <2>3, <2>5 DEF Bytes, SumFunction
  <2> QED
    BY <1>1, <1>2, <1>6, <1>9, <1>10, <2>1, <2>6
<1> QED
  BY <1>11, <1>12

LEMMA NewPktIn == ASSUME NEW t \in Type PROVE NewPkt(t) \in Packets
<1>1. PICK p : p = NewPkt(t)
  OBVIOUS
<1>2. <<>> \in Xheaders
  <2>1. <<>> \in [{} -> Value] /\ {} \in SUBSET Key /\ DOMAIN <<>> = {}
    OBVIOUS
  <2> QED
    BY <2>1, FS_EmptySet DEF Xheaders
<1>3. Bytes(<<>>) = 0
  <2>1. PICK g : g = [j \in DOMAIN <<>> |-> KvLen(<<>>[j])]
    OBVIOUS
  <2>2. DOMAIN g = {}
    BY <2>1
  <2>3. SumFunctionOnSet(g, {}) = 0
    BY SumUnfold, FS_EmptySet
  <2> QED
    BY <2>1, <2>2, <2>3 DEF Bytes, SumFunction
<1>4. p \in Records /\ p.xheader = <<>> /\ p.data = Null
  BY <1>1, <1>2, HeaderAssumption DEF NewPkt, Records
<1>5. p.header_len = LEN_LAN_SYNC_HEADER_T /\ p.total_len = LEN_LAN_SYNC_HEADER_T
  BY <1>1 DEF NewPkt
<1>6. DataLen(p.data) = 0
  BY <1>4 DEF DataLen
<1> QED
  BY <1>1, <1>3, <1>4, <1>5, <1>6, HeaderAssumption DEF Packets

\* A header keeps the lengths right as long as they do not wrap around.
LEMMA AddXheaderIn ==
    ASSUME NEW p \in Packets, NEW k \in Key, NEW v \in Value,
           p.header_len - KvRemoved(QueryXheader(p, k)) + KvLen(v) < UshortMod,
           p.total_len - KvRemoved(QueryXheader(p, k)) + KvLen(v) < UintMod
    PROVE  AddXheader(p, k, v) \in Packets
<1>1. p \in Records /\ p.xheader \in Xheaders
  BY DEF Packets, Records
<1>2. PICK q : q = AddXheader(p, k, v)
  OBVIOUS
<1>3. PICK r : r = KvRemoved(QueryXheader(p, k))
  OBVIOUS
<1>4. PICK y : y = WithXheader(p, k, v)
  OBVIOUS
<1>5. y \in Xheaders /\ r \in Nat /\ r <= Bytes(p.xheader) /\ Bytes(y) <= Bytes(p.xheader) - r + KvLen(v)
  BY <1>1, <1>3, <1>4, BytesWith
<1>6. /\ KvLen(v) \in Nat /\ Bytes(p.xheader) \in Nat /\ Bytes(y) \in Nat
      /\ p.header_len \in Nat /\ p.total_len \in Nat /\ DataLen(p.data) \in Nat
  BY <1>1, <1>5, KvLenNat, BytesNat, DataLenNat DEF Records
<1>7. /\ LEN_LAN_SYNC_HEADER_T + Bytes(p.xheader) <= p.header_len
      /\ p.total_len = p.header_len + DataLen(p.data)
  BY DEF Packets
<1>8. /\ q.xheader = y /\ q.data = p.data /\ q.type = p.type
      /\ q.header_len = (p.header_len - r + KvLen(v)) % UshortMod
      /\ q.total_len = (p.total_len - r + KvLen(v)) % UintMod
  BY <1>1, <1>2, <1>3, <1>4 DEF AddXheader, Records
<1>9. /\ q.header_len = p.header_len - r + KvLen(v)
      /\ q.total_len = p.total_len - r + KvLen(v)
  <2>1. p.header_len - r + KvLen(v) \in 0 .. UshortMod - 1
    BY <1>3, <1>5, <1>6, <1>7, HeaderAssumption
  <2>2. p.total_len - r + KvLen(v) \in 0 .. UintMod - 1
    BY <1>3, <1>5, <1>6, <1>7, HeaderAssumption
  <2> QED
    BY <1>8, <2>1, <2>2, HeaderAssumption
<1>10. q \in Records
  <2>1. q.header_len \in Nat /\ q.total_len \in Nat
    BY <1>5, <1>6, <1>7, <1>9, HeaderAssumption
  <2> QED
    BY <1>1, <1>2, <1>5, <1>8, <2>1 DEF AddXheader, Records
<1>11. LEN_LAN_SYNC_HEADER_T + Bytes(q.xheader) <= q.header_len
  BY <1>5, <1>6, <1>7, <1>8, <1>9, HeaderAssumption
<1>12. q.total_len = q.header_len + DataLen(q.data)
  BY <1>5, <1>6, <1>7, <1>8, <1>9
<1> QED
  BY <1>2, <1>3, <1>9, <1>10, <1>11, <1>12 DEF Packets

\* So does data.
LEMMA SetDataIn ==
    ASSUME NEW p \in Packets, NEW d \in Data, p.total_len - DataRemoved(p) + Len(d) < UintMod
    PROVE  SetData(p, d) \in Packets
<1>1. p \in Records
  BY DEF Packets
<1>2. PICK q : q = SetData(p, d)
  OBVIOUS
<1>3. PICK r : r = DataRemoved(p)
  OBVIOUS
<1>4. /\ p.header_len \in Nat /\ p.total_len \in Nat /\ DataLen(p.data) \in Nat
      /\ p.total_len = p.header_len + DataLen(p.data)
  BY <1>1, DataLenNat DEF Records, Packets
<1>5. DataLen(d) = Len(d) /\ Len(d) \in Nat
  BY FramingAssumption DEF DataLen
<1>6. r = DataLen(p.data)
  BY <1>3, <1>4 DEF DataRemoved, DataLen
<1>7. /\ q.data = d /\ q.xheader = p.xheader /\ q.type = p.type /\ q.header_len = p.header_len
      /\ q.total_len = (p.total_len - r + Len(d)) % UintMod
  BY <1>1, <1>2, <1>3 DEF SetData, Records
<1>8. q.total_len = p.header_len + DataLen(q.data) /\ q.total_len < UintMod
  <2>1. p.total_len - r + Len(d) \in 0 .. UintMod - 1
    BY <1>3, <1>4, <1>5, <1>6, HeaderAssumption
  <2>2. q.total_len = p.total_len - r + Len(d)
    BY <1>7, <2>1, HeaderAssumption
  <2>3. DataLen(q.data) = Len(d)
    BY <1>5, <1>7
  <2> QED
    BY <1>4, <1>5, <1>6, <2>1, <2>2, <2>3, HeaderAssumption
<1>9. q \in Records
  <2>1. q.total_len \in Nat
    BY <1>4, <1>5, <1>7, <1>8
  <2> QED
    BY <1>1, <1>2, <1>7, <2>1 DEF SetData, Records
<1> QED
  BY <1>2, <1>7, <1>8, <1>9 DEF Packets
-----------------------------------------------------------------------------
\* Places in the stream.

Offset(s, n) == SumFunctionOnSet([k \in DOMAIN s |-> s[k].total_len], 1 .. n - 1)

LEMMA PacketLen ==
    ASSUME NEW p \in Packets
    PROVE  p.total_len \in Nat /\ p.total_len >= LEN_LAN_SYNC_HEADER_T /\ p.total_len >= 1
<1>1. p \in Records /\ p.xheader \in Xheaders /\ p.data \in Data \cup {Null}
  BY DEF Packets, Records
<1>2. Bytes(p.xheader) \in Nat /\ DataLen(p.data) \in Nat
  BY <1>1, BytesNat, DataLenNat
<1>3. p.header_len \in Nat /\ p.total_len \in Nat
  BY <1>1 DEF Records
<1>4. /\ LEN_LAN_SYNC_HEADER_T + Bytes(p.xheader) <= p.header_len
      /\ p.total_len = p.header_len + DataLen(p.data)
  BY DEF Packets
<1> QED
  BY <1>2, <1>3, <1>4, HeaderAssumption

LEMMA OffsetOne == ASSUME NEW s PROVE Offset(s, 1) = 0
<1>1. 1 .. 1 - 1 = {}
  OBVIOUS
<1>2. PICK f : f = [k \in DOMAIN s |-> s[k].total_len]
  OBVIOUS
<1>3. SumFunctionOnSet(f, {}) = 0
  BY SumUnfold, FS_EmptySet
<1> QED
  BY <1>1, <1>2, <1>3 DEF Offset

LEMMA OffsetNat ==
    ASSUME NEW s \in Seq(Packets), NEW n \in 1 .. Len(s) + 1
    PROVE  Offset(s, n) \in Nat
<1>1. PICK f : f = [k \in DOMAIN s |-> s[k].total_len]
  OBVIOUS
<1>2. \A k \in 1 .. n - 1 : f[k] \in Nat
  BY <1>1, PacketLen
<1>3. IsFiniteSet(1 .. n - 1)
  BY FS_Interval
<1>4. SumFunctionOnSet(f, 1 .. n - 1) \in Nat
  BY <1>2, <1>3, SumNat
<1> QED
  BY <1>1, <1>4 DEF Offset

\* The next packet begins where this one ends.
LEMMA OffsetNext ==
    ASSUME NEW s \in Seq(Packets), NEW n \in 1 .. Len(s)
    PROVE  /\ Offset(s, n) \in Nat
           /\ Offset(s, n + 1) = Offset(s, n) + s[n].total_len
<1>1. PICK f : f = [k \in DOMAIN s |-> s[k].total_len]
  OBVIOUS
<1>2. \A k \in 1 .. n : f[k] \in Nat
  BY <1>1, PacketLen
<1>3. IsFiniteSet(1 .. n) /\ IsFiniteSet(1 .. n - 1) /\ n \in 1 .. n
  BY FS_Interval
<1>4. (1 .. n) \ {n} = 1 .. n - 1 /\ (n + 1) - 1 = n
  OBVIOUS
<1>5. SumFunctionOnSet(f, 1 .. n) = f[n] + SumFunctionOnSet(f, (1 .. n) \ {n})
  BY <1>2, <1>3, SumTake
<1>6. SumFunctionOnSet(f, 1 .. n - 1) \in Nat
  BY <1>2, <1>3, SumNat
<1>7. f[n] = s[n].total_len /\ f[n] \in Nat
  <2>1. n \in DOMAIN s
    OBVIOUS
  <2> QED
    BY <1>1, <1>2, <1>3, <2>1
<1>8. Offset(s, n) = SumFunctionOnSet(f, 1 .. n - 1) /\ Offset(s, n + 1) = SumFunctionOnSet(f, 1 .. n)
  BY <1>1, <1>4 DEF Offset
<1>9. SumFunctionOnSet(f, 1 .. n) = f[n] + SumFunctionOnSet(f, 1 .. n - 1)
  BY <1>4, <1>5
<1> QED
  BY <1>6, <1>7, <1>8, <1>9

\* A packet that is appended moves none of the others.
LEMMA OffsetAppend ==
    ASSUME NEW s \in Seq(Packets), NEW p \in Packets, NEW n \in 1 .. Len(s) + 1
    PROVE  Offset(Append(s, p), n) = Offset(s, n)
<1>1. PICK f : f = [k \in DOMAIN s |-> s[k].total_len]
  OBVIOUS
<1>2. PICK r : r = Append(s, p)
  OBVIOUS
<1>3. PICK e : e = [k \in DOMAIN r |-> r[k].total_len]
  OBVIOUS
<1>4. \A k \in 1 .. n - 1 : k \in DOMAIN s /\ k \in DOMAIN r /\ r[k] = s[k]
  BY <1>2
<1>5. \A k \in 1 .. n - 1 : e[k] = f[k]
  BY <1>1, <1>3, <1>4
<1>6. IsFiniteSet(1 .. n - 1)
  BY FS_Interval
<1>7. SumFunctionOnSet(e, 1 .. n - 1) = SumFunctionOnSet(f, 1 .. n - 1)
  BY <1>5, <1>6, SumSame
<1> QED
  BY <1>1, <1>2, <1>3, <1>7 DEF Offset

\* No two packets begin at the same byte: every packet has a header.
LEMMA OffsetLess ==
    ASSUME NEW s \in Seq(Packets), NEW n \in 1 .. Len(s), NEW m \in n + 1 .. Len(s) + 1
    PROVE  Offset(s, n) < Offset(s, m)
<1>1. Offset(s, n + 1) = Offset(s, n) + s[n].total_len /\ Offset(s, n) \in Nat
  BY OffsetNext
<1>2. s[n].total_len \in Nat /\ s[n].total_len >= 1
  BY PacketLen
<1>3. PICK f : f = [k \in DOMAIN s |-> s[k].total_len]
  OBVIOUS
<1>4. IsFiniteSet(1 .. m - 1) /\ 1 .. (n + 1) - 1 \in SUBSET (1 .. m - 1)
  BY FS_Interval
<1>5. \A k \in 1 .. m - 1 : f[k] \in Nat
  BY <1>3, PacketLen
<1>6. SumFunctionOnSet(f, 1 .. (n + 1) - 1) <= SumFunctionOnSet(f, 1 .. m - 1)
  BY <1>4, <1>5, SumPart
<1>7. SumFunctionOnSet(f, 1 .. m - 1) \in Nat
  BY <1>4, <1>5, SumNat
<1>8. Offset(s, n + 1) <= Offset(s, m) /\ Offset(s, m) \in Nat
  BY <1>3, <1>6, <1>7 DEF Offset
<1> QED
  BY <1>1, <1>2, <1>8
-----------------------------------------------------------------------------
\* The inductive invariant.

\* No length wraps around: what a call adds fits its integer.
LengthsFit ==
    /\ \A k \in Key, v \in Value :
          Header(k, v) =>
              /\ pkt.header_len - KvRemoved(QueryXheader(pkt, k)) + KvLen(v) < UshortMod
              /\ pkt.total_len - KvRemoved(QueryXheader(pkt, k)) + KvLen(v) < UintMod
    /\ \A d \in Data : Body(d) => pkt.total_len - DataRemoved(pkt) + Len(d) < UintMod

PktInv == (pkt # <<>> => pkt \in Packets) /\ sent \in Seq(Packets)

\* The receiver has handled a prefix of what was sent and stands behind it.
StreamInv ==
    /\ handled \in Seq({Parsed(p) : p \in Packets})
    /\ Len(handled) <= Len(sent)
    /\ \A n \in DOMAIN handled : handled[n] = Parsed(sent[n])
    /\ consumed = Start(Len(handled) + 1)
    /\ arrived \in Nat /\ consumed <= arrived /\ arrived <= Written

LoopInv == i \in Nat /\ NoneLeftBehind

Inv == PktInv /\ StreamInv /\ LoopInv

LEMMA StartOffset ==
    /\ \A n : Start(n) = Offset(sent, n)
    /\ Written = Offset(sent, Len(sent) + 1)
BY DEF Start, Offset, Written

\* The packet at the front is the one behind those that were handled.
LEMMA FrontIsNext ==
    ASSUME PktInv, StreamInv, Len(handled) < Len(sent)
    PROVE  AtFront = Len(handled) + 1
<1>1. PICK m : m = Len(handled) + 1
  OBVIOUS
<1>2. Len(handled) \in Nat /\ Len(sent) \in Nat /\ m \in 1 .. Len(sent)
  BY <1>1 DEF PktInv, StreamInv
<1>3. Start(m) = consumed
  BY <1>1 DEF StreamInv
<1>4. ASSUME NEW n \in 1 .. Len(sent), Start(n) = consumed PROVE n = m
  <2>1. n < m => Offset(sent, n) < Offset(sent, m)
    BY <1>2, OffsetLess DEF PktInv
  <2>2. m < n => Offset(sent, m) < Offset(sent, n)
    BY <1>2, OffsetLess DEF PktInv
  <2>3. Offset(sent, n) = Offset(sent, m) /\ Offset(sent, m) \in Nat
    BY <1>2, <1>3, <1>4, StartOffset, OffsetNext DEF PktInv
  <2> QED
    BY <1>2, <2>1, <2>2, <2>3
<1> QED
  BY <1>1, <1>2, <1>3, <1>4 DEF AtFront

\* What the loop finds: the next packet, as soon as all of it has arrived.
LEMMA Found ==
    ASSUME PktInv, StreamInv
    PROVE  \/ /\ IsExtraAllDataNow(arrived - consumed) = 0
              /\ Len(handled) = Len(sent) \/ arrived < Start(Len(handled) + 2)
           \/ /\ IsExtraAllDataNow(arrived - consumed) = sent[Len(handled) + 1].total_len
              /\ Len(handled) < Len(sent) /\ AtFront = Len(handled) + 1
              /\ consumed + sent[Len(handled) + 1].total_len = Start(Len(handled) + 2)
              /\ Start(Len(handled) + 2) <= arrived
              /\ sent[Len(handled) + 1].total_len # 0
<1>1. Len(handled) \in Nat /\ Len(sent) \in Nat /\ Len(handled) <= Len(sent)
  BY DEF PktInv, StreamInv
<1>2. /\ consumed = Offset(sent, Len(handled) + 1) /\ consumed \in Nat
      /\ arrived \in Nat /\ consumed <= arrived
  BY <1>1, StartOffset, OffsetNat DEF PktInv, StreamInv
<1>3. CASE Len(handled) = Len(sent)
  <2>1. arrived = consumed
    BY <1>1, <1>2, <1>3, StartOffset DEF StreamInv
  <2>2. IsExtraAllDataNow(arrived - consumed) = 0
    BY <1>2, <2>1, HeaderAssumption DEF IsExtraAllDataNow
  <2> QED
    BY <1>3, <2>2
<1>4. CASE Len(handled) < Len(sent)
  <2>1. PICK p : p = sent[Len(handled) + 1]
    OBVIOUS
  <2>2. Len(handled) + 1 \in 1 .. Len(sent) /\ p \in Packets
    BY <1>1, <1>4, <2>1 DEF PktInv
  <2>3. AtFront = Len(handled) + 1
    BY <1>4, FrontIsNext
  <2>4. p.total_len \in Nat /\ p.total_len >= LEN_LAN_SYNC_HEADER_T /\ p.total_len >= 1
    BY <2>2, PacketLen
  <2>5. Start(Len(handled) + 2) = consumed + p.total_len
    <3>1. (Len(handled) + 1) + 1 = Len(handled) + 2
      BY <1>1
    <3>2. Offset(sent, (Len(handled) + 1) + 1) = Offset(sent, Len(handled) + 1) + p.total_len
      BY <2>1, <2>2, OffsetNext DEF PktInv
    <3> QED
      BY <1>2, <3>1, <3>2, StartOffset
  <2>6. IsExtraAllDataNow(arrived - consumed) =
            IF arrived - consumed < p.total_len THEN 0 ELSE p.total_len
    BY <1>2, <2>1, <2>3, <2>4, HeaderAssumption DEF IsExtraAllDataNow
  <2>7. CASE arrived - consumed < p.total_len
    BY <1>2, <2>4, <2>5, <2>6, <2>7
  <2>8. CASE ~(arrived - consumed < p.total_len)
    <3>1. Start(Len(handled) + 2) <= arrived
      BY <1>2, <2>4, <2>5, <2>8
    <3> QED
      BY <1>4, <2>1, <2>3, <2>4, <2>5, <2>6, <2>8, <3>1
  <2> QED
    BY <2>7, <2>8
<1> QED
  BY <1>1, <1>3, <1>4

LEMMA InitInv == Init => Inv
<1> SUFFICES ASSUME Init PROVE Inv
  OBVIOUS
<1>1. PktInv
  BY DEF Init, PktInv
<1>2. Start(1) = 0 /\ Written = 0 /\ Len(sent) = 0 /\ Len(handled) = 0 /\ DOMAIN handled = {}
  BY StartOffset, OffsetOne DEF Init
<1>3. StreamInv
  BY <1>2 DEF Init, StreamInv
<1>4. LoopInv
  BY <1>2 DEF Init, LoopInv, NoneLeftBehind
<1> QED
  BY <1>1, <1>3, <1>4 DEF Inv

\* The sender's steps but Write keep the packets right and touch nothing else.
LEMMA BuildInv ==
    ASSUME Inv, LengthsFit,
           \/ \E t \in Type : Begin(t)
           \/ \E k \in Key, v \in Value : Header(k, v)
           \/ \E d \in Data : Body(d)
    PROVE  Inv'
<1>1. UNCHANGED <<sent, arrived, consumed, i, pc, handled>>
  BY DEF Begin, Header, Body, receiver
<1>2. (StreamInv /\ LoopInv)'
  BY <1>1 DEF Inv, StreamInv, LoopInv, NoneLeftBehind, Start, Written
<1>3. pkt' \in Packets
  <2>1. ASSUME NEW t \in Type, Begin(t) PROVE pkt' \in Packets
    BY <2>1, NewPktIn DEF Begin
  <2>2. ASSUME NEW k \in Key, NEW v \in Value, Header(k, v) PROVE pkt' \in Packets
    <3>1. pkt \in Packets /\ pkt' = AddXheader(pkt, k, v)
      BY <2>2 DEF Inv, PktInv, Header
    <3>2. /\ pkt.header_len - KvRemoved(QueryXheader(pkt, k)) + KvLen(v) < UshortMod
          /\ pkt.total_len - KvRemoved(QueryXheader(pkt, k)) + KvLen(v) < UintMod
      BY <2>2 DEF LengthsFit
    <3> QED
      BY <3>1, <3>2, AddXheaderIn
  <2>3. ASSUME NEW d \in Data, Body(d) PROVE pkt' \in Packets
    <3>1. pkt \in Packets /\ pkt' = SetData(pkt, d)
      BY <2>3 DEF Inv, PktInv, Body
    <3>2. pkt.total_len - DataRemoved(pkt) + Len(d) < UintMod
      BY <2>3 DEF LengthsFit
    <3> QED
      BY <3>1, <3>2, SetDataIn
  <2> QED
    BY <2>1, <2>2, <2>3
<1>4. PktInv'
  BY <1>1, <1>3 DEF Inv, PktInv
<1> QED
  BY <1>2, <1>4 DEF Inv

\* A packet that is written lies behind every byte that has arrived.
LEMMA WriteInv ==
    ASSUME Inv, Write
    PROVE  Inv'
<1>1. /\ sent' = Append(sent, pkt) /\ pkt \in Packets /\ sent \in Seq(Packets)
      /\ UNCHANGED <<arrived, consumed, i, pc, handled>>
  BY DEF Inv, PktInv, Write, receiver
<1>2. /\ Len(handled) \in Nat /\ Len(sent) \in Nat /\ Len(handled) <= Len(sent)
      /\ Len(sent') = Len(sent) + 1
  BY <1>1 DEF Inv, StreamInv
<1>3. \A n \in 1 .. Len(sent) : sent'[n] = sent[n]
  BY <1>1
<1>4. \A n \in 1 .. Len(sent) + 1 : Start(n)' = Start(n)
  BY <1>1, OffsetAppend, StartOffset DEF Start, Offset
<1>5. PktInv'
  <2>1. pkt' = <<>> /\ sent' \in Seq(Packets)
    BY <1>1 DEF Write
  <2> QED
    BY <2>1 DEF PktInv
<1>6. Written' = Written + pkt.total_len /\ Written \in Nat /\ pkt.total_len \in Nat /\ pkt.total_len >= 1
  <2>1. PICK r : r = sent'
    OBVIOUS
  <2>2. r \in Seq(Packets) /\ Len(sent) + 1 \in 1 .. Len(r) /\ r[Len(sent) + 1] = pkt
    BY <1>1, <1>2, <2>1
  <2>3. Offset(r, (Len(sent) + 1) + 1) = Offset(r, Len(sent) + 1) + pkt.total_len
    BY <2>2, OffsetNext
  <2>4. Offset(r, Len(sent) + 1) = Offset(sent, Len(sent) + 1) /\ Offset(sent, Len(sent) + 1) \in Nat
    BY <1>1, <1>2, <2>1, OffsetAppend, OffsetNat
  <2>5. Written' = Offset(r, (Len(sent) + 1) + 1)
    BY <1>2, <2>1 DEF Written, Start, Offset
  <2>6. pkt.total_len \in Nat /\ pkt.total_len >= 1
    BY <1>1, PacketLen
  <2> QED
    BY <2>3, <2>4, <2>5, <2>6, StartOffset
<1>7. StreamInv'
  <2>1. consumed' = Start(Len(handled) + 1)'
    <3>1. Len(handled) + 1 \in 1 .. Len(sent) + 1
      BY <1>2
    <3>2. Start(Len(handled) + 1)' = Start(Len(handled) + 1)
      BY <1>1, <1>4, <3>1 DEF Start
    <3> QED
      BY <1>1, <3>2 DEF Inv, StreamInv
  <2>2. \A n \in DOMAIN handled' : handled'[n] = Parsed(sent'[n])
    <3>1. ASSUME NEW n \in DOMAIN handled PROVE n \in 1 .. Len(sent)
      BY <1>2 DEF Inv, StreamInv
    <3> QED
      BY <1>1, <1>3, <3>1 DEF Inv, StreamInv
  <2>3. Len(handled)' <= Len(sent)'
    BY <1>1, <1>2
  <2>4. arrived' <= Written' /\ arrived' \in Nat /\ consumed' <= arrived'
    BY <1>1, <1>6 DEF Inv, StreamInv
  <2> QED
    BY <1>1, <2>1, <2>2, <2>3, <2>4 DEF Inv, StreamInv
<1>8. LoopInv'
  <2> SUFFICES ASSUME pc = "idle", i <= LIMIT
               PROVE  Len(handled)' = Len(sent)' \/ arrived' < Start(Len(handled) + 2)'
    BY <1>1 DEF Inv, LoopInv, NoneLeftBehind
  <2>1. Len(handled) = Len(sent) \/ arrived < Start(Len(handled) + 2)
    BY DEF Inv, LoopInv, NoneLeftBehind
  <2>2. CASE Len(handled) = Len(sent)
    <3>1. Start(Len(handled) + 2)' = Written'
      BY <1>1, <1>2, <2>2 DEF Written, Start
    <3>2. arrived <= Written /\ arrived \in Nat
      BY DEF Inv, StreamInv
    <3> QED
      BY <1>1, <1>6, <3>1, <3>2
  <2>3. CASE Len(handled) # Len(sent)
    <3>1. Len(handled) + 2 \in 1 .. Len(sent) + 1
      BY <1>2, <2>3
    <3>2. Start(Len(handled) + 2)' = Start(Len(handled) + 2)
      BY <1>1, <1>4, <3>1 DEF Start
    <3> QED
      BY <1>1, <2>1, <2>3, <3>2
  <2> QED
    BY <2>2, <2>3
<1> QED
  BY <1>5, <1>7, <1>8 DEF Inv

\* The loop hands over the next packet of the stream and stands behind it.
LEMMA ExtractInv ==
    ASSUME Inv, Extract
    PROVE  Inv'
<1>1. PICK p : p = sent[Len(handled) + 1]
  OBVIOUS
<1>2. /\ IsExtraAllDataNow(arrived - consumed) = p.total_len
      /\ Len(handled) < Len(sent) /\ AtFront = Len(handled) + 1
      /\ consumed + p.total_len = Start(Len(handled) + 2)
      /\ Start(Len(handled) + 2) <= arrived
  BY <1>1, Found DEF Inv, Extract
<1>3. /\ handled' = Append(handled, Parsed(p)) /\ consumed' = consumed + p.total_len
      /\ UNCHANGED <<pkt, sent, arrived>>
  BY <1>1, <1>2 DEF Extract, sender
<1>4. Len(handled) \in Nat /\ Len(sent) \in Nat /\ Len(handled)' = Len(handled) + 1
  BY <1>3 DEF Inv, StreamInv, PktInv
<1>5. p \in Packets
  BY <1>1, <1>2, <1>4 DEF Inv, PktInv
<1>6. PktInv'
  BY <1>3 DEF Inv, PktInv
<1>7. StreamInv'
  <2>1. handled' \in Seq({Parsed(q) : q \in Packets})
    <3>1. Parsed(p) \in {Parsed(q) : q \in Packets}
      BY <1>5
    <3> QED
      BY <1>3, <3>1 DEF Inv, StreamInv
  <2>2. ASSUME NEW n \in DOMAIN handled' PROVE handled'[n] = Parsed(sent'[n])
    <3>1. CASE n = Len(handled) + 1
      BY <1>1, <1>3, <3>1 DEF Inv, StreamInv
    <3>2. CASE n # Len(handled) + 1
      <4>1. n \in DOMAIN handled /\ handled'[n] = handled[n]
        BY <1>3, <1>4, <3>2 DEF Inv, StreamInv
      <4> QED
        BY <1>3, <4>1 DEF Inv, StreamInv
    <3> QED
      BY <3>1, <3>2
  <2>3. consumed' = Start(Len(handled) + 1)'
    <3>1. (Len(handled) + 1) + 1 = Len(handled) + 2
      BY <1>4
    <3> QED
      BY <1>2, <1>3, <1>4, <3>1 DEF Start
  <2>4. arrived' \in Nat /\ consumed' <= arrived' /\ arrived' <= Written'
    BY <1>2, <1>3 DEF Inv, StreamInv, Written, Start
  <2> QED
    BY <1>2, <1>3, <1>4, <2>1, <2>2, <2>3, <2>4 DEF StreamInv
<1>8. LoopInv'
  <2>1. i \in Nat /\ i' = i + 1 /\ pc' = IF i >= LIMIT THEN "idle" ELSE "loop"
    BY DEF Inv, LoopInv, Extract
  <2> QED
    BY <2>1, FramingAssumption DEF LoopInv, NoneLeftBehind
<1> QED
  BY <1>6, <1>7, <1>8 DEF Inv

\* Bytes arrive, and the loop stops when it finds no complete packet.
LEMMA ReadInv ==
    ASSUME Inv, (\E n \in 1 .. Written : ReadCb(n)) \/ Stop
    PROVE  Inv'
<1>1. UNCHANGED <<pkt, sent, consumed, handled>>
  BY DEF ReadCb, Stop, sender
<1>2. PktInv'
  BY <1>1 DEF Inv, PktInv
<1>3. Written \in Nat /\ consumed \in Nat
  <2>1. /\ Len(sent) + 1 \in 1 .. Len(sent) + 1
        /\ Len(handled) + 1 \in 1 .. Len(sent) + 1
    BY DEF Inv, PktInv, StreamInv
  <2> QED
    BY <2>1, StartOffset, OffsetNat DEF Inv, PktInv, StreamInv
<1>4. arrived' \in Nat /\ arrived <= arrived' /\ arrived' <= Written
  BY <1>3 DEF ReadCb, Stop, Inv, StreamInv
<1>5. StreamInv'
  <2>1. arrived' \in Nat /\ consumed' <= arrived' /\ arrived' <= Written'
    BY <1>1, <1>3, <1>4 DEF Inv, StreamInv, Written, Start
  <2> QED
    BY <1>1, <2>1 DEF Inv, StreamInv, Start
<1>6. CASE \E n \in 1 .. Written : ReadCb(n)
  <2>1. pc' = "loop" /\ i' = 0
    BY <1>6 DEF ReadCb
  <2> QED
    BY <1>2, <1>5, <2>1 DEF Inv, LoopInv, NoneLeftBehind
<1>7. CASE Stop
  <2>1. IsExtraAllDataNow(arrived - consumed) = 0 /\ UNCHANGED <<arrived, i>>
    BY <1>7 DEF Stop
  <2>2. Len(handled) = Len(sent) \/ arrived < Start(Len(handled) + 2)
    BY <2>1, Found DEF Inv
  <2>3. LoopInv'
    BY <1>1, <2>1, <2>2 DEF Inv, LoopInv, NoneLeftBehind, Start
  <2> QED
    BY <1>2, <1>5, <2>3 DEF Inv
<1> QED
  BY <1>6, <1>7

LEMMA StepInv ==
    ASSUME Inv, [Next]_vars, [LengthsFit]_vars
    PROVE  Inv'
<1>1. CASE UNCHANGED vars
  BY <1>1 DEF vars, Inv, PktInv, StreamInv, LoopInv, NoneLeftBehind, Written, Start
<1>2. CASE Next /\ LengthsFit
  BY <1>2, BuildInv, WriteInv, ExtractInv, ReadInv DEF Next
<1> QED
  BY <1>1, <1>2

LEMMA Always == Spec /\ [][LengthsFit]_vars => []Inv
<1>1. Inv /\ [Next]_vars /\ [LengthsFit]_vars => Inv'
  BY StepInv
<1> QED
  BY <1>1, InitInv, PTL DEF Spec
-----------------------------------------------------------------------------
\* As long as no length wraps around, write() prints into the buffer it has
\* allocated, whatever headers and data were added and replaced before.
THEOREM BufferFits == Spec /\ [][LengthsFit]_vars => []WriteFits
<1>1. Inv => WriteFits
  <2> SUFFICES ASSUME pkt \in Packets
               PROVE  /\ LEN_LAN_SYNC_HEADER_T + XheaderBytes(pkt) <= pkt.header_len
                      /\ (IF pkt.data = Null THEN 0 ELSE Len(pkt.data)) = pkt.total_len - pkt.header_len
    BY DEF Inv, PktInv, WriteFits
  <2>1. LEN_LAN_SYNC_HEADER_T + XheaderBytes(pkt) <= pkt.header_len
    BY DEF Packets, Bytes, XheaderBytes
  <2>2. DataLen(pkt.data) \in Nat /\ pkt.header_len \in Nat /\ pkt.total_len \in Nat
    BY DataLenNat DEF Packets, Records
  <2>3. DataLen(pkt.data) = pkt.total_len - pkt.header_len
    BY <2>2 DEF Packets
  <2> QED
    BY <2>1, <2>3 DEF DataLen
<1> QED
  BY <1>1, Always, PTL

\* The receiver never loses the beginning of a packet, however TCP cuts the stream.
THEOREM NeverOutOfStep == Spec /\ [][LengthsFit]_vars => []InStep
<1>1. Inv => InStep
  <2> SUFFICES ASSUME Inv PROVE InStep
    OBVIOUS
  <2>1. Len(handled) + 1 \in 1 .. Len(sent) + 1
    BY DEF Inv, PktInv, StreamInv
  <2> QED
    BY <2>1 DEF Inv, StreamInv, InStep
<1> QED
  BY <1>1, Always, PTL

\* recv gets the packets that were sent, in order and each once, with their type
\* and data and the headers whose value has no colon, unless its length reads as
\* too short in the order of the network.
THEOREM PacketsArrive == Spec /\ [][LengthsFit]_vars => []HandledAsSent
<1>1. ASSUME NEW p \in Packets, ~LooksShort(p.total_len)
      PROVE  /\ Parsed(p).type = p.type
             /\ Parsed(p).data = IF p.data = Null THEN <<>> ELSE p.data
             /\ \A k \in Key : Len(QueryXheader(p, k)) <= 1 => QueryXheader(Parsed(p), k) = QueryXheader(p, k)
  <2>1. PICK q : q = Parsed(p)
    OBVIOUS
  <2>2. p \in Records /\ p.xheader \in Xheaders
    BY DEF Packets, Records
  <2>3. /\ q.type = p.type /\ q.data = IF p.data = Null THEN <<>> ELSE p.data
        /\ q.xheader = ParsedXheader(p.xheader)
    BY <1>1, <2>1, <2>2 DEF Parsed, Records
  <2>4. ASSUME NEW k \in Key, Len(QueryXheader(p, k)) <= 1 PROVE QueryXheader(q, k) = QueryXheader(p, k)
    <3>1. PICK x : x = p.xheader
      OBVIOUS
    <3>2. q.xheader = [j \in {l \in DOMAIN x : x[l] # <<>>} |-> <<x[j][1]>>]
      BY <2>3, <3>1 DEF ParsedXheader
    <3>3. CASE k \in DOMAIN x /\ x[k] # <<>>
      <4>1. x[k] \in Value /\ QueryXheader(p, k) = x[k]
        BY <2>2, <3>1, <3>3, XheaderFun DEF QueryXheader
      <4>2. PICK v : v = x[k]
        OBVIOUS
      <4>3. v \in Seq(Range(v)) /\ Len(v) <= 1 /\ v # <<>>
        BY <2>4, <3>3, <4>1, <4>2, FramingAssumption
      <4>4. v = <<v[1]>>
        <5>1. Len(v) = 1 /\ DOMAIN v = 1 .. Len(v) /\ v = [j \in DOMAIN v |-> v[j]]
          <6>1. Len(v) \in Nat /\ Len(v) # 0
            BY <4>3
          <6>2. DOMAIN v = 1 .. Len(v) /\ v = [j \in DOMAIN v |-> v[j]]
            BY <4>3
          <6> QED
            BY <4>3, <6>1, <6>2
        <5>2. <<v[1]>> = [j \in 1 .. 1 |-> v[j]]
          OBVIOUS
        <5> QED
          BY <5>1, <5>2
      <4>5. QueryXheader(q, k) = <<x[k][1]>>
        BY <3>2, <3>3 DEF QueryXheader
      <4> QED
        BY <4>1, <4>2, <4>4, <4>5
    <3>4. CASE ~(k \in DOMAIN x /\ x[k] # <<>>)
      BY <3>1, <3>2, <3>4 DEF QueryXheader
    <3> QED
      BY <3>3, <3>4
  <2> QED
    BY <2>1, <2>3, <2>4
<1>2. Inv => HandledAsSent
  <2> SUFFICES ASSUME Inv, NEW n \in DOMAIN handled, ~LooksShort(sent[n].total_len)
               PROVE  /\ handled[n].type = sent[n].type
                      /\ handled[n].data = IF sent[n].data = Null THEN <<>> ELSE sent[n].data
                      /\ \A k \in Key :
                            Len(QueryXheader(sent[n], k)) <= 1 =>
                                QueryXheader(handled[n], k) = QueryXheader(sent[n], k)
    BY DEF HandledAsSent, Inv, StreamInv
  <2>1. sent[n] \in Packets /\ handled[n] = Parsed(sent[n])
    BY DEF Inv, StreamInv, PktInv
  <2> QED
    BY <1>1, <2>1
<1> QED
  BY <1>2, Always, PTL

\* A packet that has arrived completely is left in the buffer only by a call of
\* read_cb that has handled all it may.
THEOREM NoPacketWaits == Spec /\ [][LengthsFit]_vars => []NoneLeftBehind
<1>1. Inv => NoneLeftBehind
  BY DEF Inv, LoopInv
<1> QED
  BY <1>1, Always, PTL
-----------------------------------------------------------------------------
\* The hypothesis of the theorems holds when the integers are large enough for
\* the calls that build packets.

SmallAfter(p, n, kv, dl) ==
    p.header_len <= LEN_LAN_SYNC_HEADER_T + n * kv /\ DataLen(p.data) <= dl

Bounded(kv, dl) ==
    ops \in 0 .. MaxOps /\ (pkt # <<>> => SmallAfter(pkt, ops, kv, dl))

LEMMA OneMore ==
    ASSUME NEW a \in Nat, NEW b \in Nat, a < b, NEW k \in Nat
    PROVE  /\ a * k \in Nat /\ b * k \in Nat
           /\ (a + 1) * k = a * k + k
           /\ a * k + k <= b * k
<1>1. PICK c \in Nat : b = a + 1 + c
  <2>1. b - a - 1 \in Nat /\ b = a + 1 + (b - a - 1)
    OBVIOUS
  <2> QED
    BY <2>1
<1>2. b * k = a * k + k + c * k /\ c * k \in Nat /\ a * k \in Nat /\ (a + 1) * k = a * k + k
  BY <1>1
<1> QED
  BY <1>2

\* A length h from which r is taken and to which l is added.
LEMMA LengthAfter ==
    ASSUME NEW c \in Nat, NEW h \in Nat, NEW r \in Nat, NEW b \in Nat, NEW l \in Nat,
           NEW a \in Nat, NEW k \in Nat,
           h <= c + a, l <= k, r <= b, c + b <= h
    PROVE  h - r + l \in Nat /\ h - r + l <= c + (a + k)
  OBVIOUS

\* A header within the bounds.
LEMMA HeaderBounded ==
    ASSUME NEW kv, NEW dl, Roomy(kv, dl), Inv, Bounded(kv, dl),
           NEW k \in Key, NEW v \in Value, pkt # <<>>, ops < MaxOps
    PROVE  /\ pkt.header_len - KvRemoved(QueryXheader(pkt, k)) + KvLen(v) < UshortMod
           /\ pkt.total_len - KvRemoved(QueryXheader(pkt, k)) + KvLen(v) < UintMod
           /\ AddXheader(pkt, k, v).header_len <= LEN_LAN_SYNC_HEADER_T + (ops + 1) * kv
           /\ AddXheader(pkt, k, v).data = pkt.data
<1>1. pkt \in Records /\ pkt.xheader \in Xheaders /\ pkt \in Packets
  BY DEF Inv, PktInv, Packets, Records
<1>2. PICK r : r = KvRemoved(QueryXheader(pkt, k))
  OBVIOUS
<1>3. r \in Nat /\ r <= Bytes(pkt.xheader) /\ Bytes(pkt.xheader) \in Nat
  BY <1>1, <1>2, BytesWith, BytesNat
<1>4. /\ pkt.header_len \in Nat /\ pkt.total_len \in Nat /\ KvLen(v) \in Nat /\ DataLen(pkt.data) \in Nat
  BY <1>1, KvLenNat, DataLenNat DEF Records
<1>5. /\ LEN_LAN_SYNC_HEADER_T + Bytes(pkt.xheader) <= pkt.header_len
      /\ pkt.total_len = pkt.header_len + DataLen(pkt.data)
  BY <1>1 DEF Packets
<1>6. /\ ops * kv \in Nat /\ MaxOps * kv \in Nat /\ (ops + 1) * kv = ops * kv + kv
      /\ ops * kv + kv <= MaxOps * kv
  BY OneMore, FramingAssumption DEF Bounded, Roomy
<1>7. /\ pkt.header_len <= LEN_LAN_SYNC_HEADER_T + ops * kv /\ DataLen(pkt.data) <= dl
      /\ KvLen(v) <= kv /\ kv \in Nat /\ dl \in Nat
      /\ LEN_LAN_SYNC_HEADER_T + MaxOps * kv < UshortMod
      /\ LEN_LAN_SYNC_HEADER_T + MaxOps * kv + dl < UintMod
  BY DEF Bounded, SmallAfter, Roomy
<1>8. /\ pkt.header_len - r + KvLen(v) \in 0 .. UshortMod - 1
      /\ pkt.header_len - r + KvLen(v) <= LEN_LAN_SYNC_HEADER_T + (ops + 1) * kv
      /\ pkt.total_len - r + KvLen(v) < UintMod
  <2>1. PICK a : a = ops * kv
    OBVIOUS
  <2>2. PICK m : m = MaxOps * kv
    OBVIOUS
  <2>3. PICK b : b = Bytes(pkt.xheader)
    OBVIOUS
  <2>4. PICK l : l = KvLen(v)
    OBVIOUS
  <2>5. a \in Nat /\ m \in Nat /\ a + kv <= m /\ (ops + 1) * kv = a + kv
    BY <1>6, <2>1, <2>2
  <2>6. /\ pkt.header_len <= LEN_LAN_SYNC_HEADER_T + a /\ DataLen(pkt.data) <= dl
        /\ l <= kv /\ kv \in Nat /\ dl \in Nat
        /\ LEN_LAN_SYNC_HEADER_T + m < UshortMod /\ LEN_LAN_SYNC_HEADER_T + m + dl < UintMod
    BY <1>7, <2>1, <2>2, <2>4
  <2>7. r \in Nat /\ b \in Nat /\ l \in Nat /\ r <= b /\ LEN_LAN_SYNC_HEADER_T + b <= pkt.header_len
    BY <1>3, <1>4, <1>5, <2>3, <2>4
  <2>8. /\ pkt.header_len - r + l \in Nat
        /\ pkt.header_len - r + l <= LEN_LAN_SYNC_HEADER_T + (a + kv)
    <3>1. LEN_LAN_SYNC_HEADER_T \in Nat
      BY HeaderAssumption
    <3> QED
      BY <1>4, <2>5, <2>6, <2>7, <3>1, LengthAfter
  <2>9. pkt.header_len - r + l \in 0 .. UshortMod - 1
    BY <2>5, <2>6, <2>8, HeaderAssumption
  <2>10. pkt.total_len - r + l < UintMod
    <3>1. PICK n : n = DataLen(pkt.data)
      OBVIOUS
    <3>2. n \in Nat /\ n <= dl /\ pkt.total_len = pkt.header_len + n
      BY <1>4, <1>5, <2>6, <3>1
    <3>3. pkt.total_len - r + l = (pkt.header_len - r + l) + n
      BY <1>4, <2>7, <3>2
    <3> QED
      BY <2>5, <2>6, <2>8, <3>2, <3>3, HeaderAssumption
  <2> QED
    BY <2>4, <2>5, <2>8, <2>9, <2>10
<1>9. /\ AddXheader(pkt, k, v).header_len = (pkt.header_len - r + KvLen(v)) % UshortMod
      /\ AddXheader(pkt, k, v).data = pkt.data
  BY <1>1, <1>2 DEF AddXheader, Records
<1>10. AddXheader(pkt, k, v).header_len = pkt.header_len - r + KvLen(v)
  BY <1>8, <1>9, HeaderAssumption
<1>11. pkt.header_len - r + KvLen(v) < UshortMod
  BY <1>8, HeaderAssumption
<1> QED
  BY <1>2, <1>8, <1>9, <1>10, <1>11

\* Data within the bounds.
LEMMA BodyBounded ==
    ASSUME NEW kv, NEW dl, Roomy(kv, dl), Inv, Bounded(kv, dl), NEW d \in Data, pkt # <<>>, ops < MaxOps
    PROVE  /\ pkt.total_len - DataRemoved(pkt) + Len(d) < UintMod
           /\ SetData(pkt, d).header_len <= LEN_LAN_SYNC_HEADER_T + (ops + 1) * kv
           /\ DataLen(SetData(pkt, d).data) <= dl
<1>1. pkt \in Records /\ pkt \in Packets
  BY DEF Inv, PktInv, Packets
<1>2. /\ pkt.header_len \in Nat /\ pkt.total_len \in Nat /\ DataLen(pkt.data) \in Nat
      /\ pkt.total_len = pkt.header_len + DataLen(pkt.data)
  BY <1>1, DataLenNat DEF Records, Packets
<1>3. DataRemoved(pkt) = DataLen(pkt.data)
  BY <1>2 DEF DataRemoved, DataLen
<1>4. DataLen(d) = Len(d) /\ Len(d) \in Nat
  BY FramingAssumption DEF DataLen
<1>5. /\ ops * kv \in Nat /\ MaxOps * kv \in Nat /\ (ops + 1) * kv = ops * kv + kv
      /\ ops * kv + kv <= MaxOps * kv
  BY OneMore, FramingAssumption DEF Bounded, Roomy
<1>6. /\ pkt.header_len <= LEN_LAN_SYNC_HEADER_T + ops * kv
      /\ kv \in Nat /\ dl \in Nat /\ Len(d) <= dl
      /\ LEN_LAN_SYNC_HEADER_T + MaxOps * kv + dl < UintMod
  BY DEF Bounded, SmallAfter, Roomy
<1>7. SetData(pkt, d).header_len = pkt.header_len /\ SetData(pkt, d).data = d
  BY <1>1 DEF SetData, Records
<1>8. pkt.header_len <= LEN_LAN_SYNC_HEADER_T + (ops + 1) * kv
  BY <1>2, <1>5, <1>6, HeaderAssumption
<1>9. pkt.total_len - DataRemoved(pkt) + Len(d) < UintMod
  <2>1. pkt.total_len - DataRemoved(pkt) = pkt.header_len
    BY <1>2, <1>3
  <2>2. PICK m : m = MaxOps * kv
    OBVIOUS
  <2>3. PICK a : a = ops * kv
    OBVIOUS
  <2>4. m \in Nat /\ a \in Nat /\ a <= m
    BY <1>5, <1>6, <2>2, <2>3
  <2>5. pkt.header_len <= LEN_LAN_SYNC_HEADER_T + a /\ LEN_LAN_SYNC_HEADER_T + m + dl < UintMod
    BY <1>6, <2>2, <2>3
  <2> QED
    BY <1>2, <1>4, <1>6, <2>1, <2>4, <2>5, HeaderAssumption
<1> QED
  BY <1>4, <1>6, <1>7, <1>8, <1>9

LEMMA BoundedStep ==
    ASSUME NEW kv, NEW dl, Roomy(kv, dl), Inv, Bounded(kv, dl), [Next]_vars
    PROVE  [LengthsFit]_vars /\ Bounded(kv, dl)'
<1>1. LengthsFit
  BY HeaderBounded, BodyBounded DEF LengthsFit, Header, Body
<1>2. ASSUME NEW t \in Type, Begin(t) PROVE Bounded(kv, dl)'
  <2>1. pkt'.header_len = LEN_LAN_SYNC_HEADER_T /\ pkt'.data = Null /\ ops' = ops
    BY <1>2 DEF Begin, NewPkt
  <2>2. DataLen(pkt'.data) = 0
    BY <2>1 DEF DataLen
  <2>3. ops \in Nat /\ kv \in Nat /\ dl \in Nat
    BY FramingAssumption DEF Bounded, Roomy
  <2>4. ops * kv \in Nat
    BY <2>3
  <2>5. LEN_LAN_SYNC_HEADER_T <= LEN_LAN_SYNC_HEADER_T + ops * kv
    BY <2>4, HeaderAssumption
  <2>6. SmallAfter(pkt', ops', kv, dl)
    BY <2>1, <2>2, <2>3, <2>5 DEF SmallAfter
  <2> QED
    BY <2>1, <2>6 DEF Bounded
<1>3. ASSUME NEW k \in Key, NEW v \in Value, Header(k, v) PROVE Bounded(kv, dl)'
  <2>1. pkt # <<>> /\ ops < MaxOps /\ ops' = ops + 1 /\ pkt' = AddXheader(pkt, k, v)
    BY <1>3 DEF Header
  <2>2. pkt'.header_len <= LEN_LAN_SYNC_HEADER_T + ops' * kv /\ pkt'.data = pkt.data
    BY <2>1, HeaderBounded
  <2>3. ops' \in 0 .. MaxOps /\ DataLen(pkt.data) <= dl
    BY <2>1, FramingAssumption DEF Bounded, SmallAfter
  <2>4. SmallAfter(pkt', ops', kv, dl)
    BY <2>2, <2>3 DEF SmallAfter
  <2> QED
    BY <2>3, <2>4 DEF Bounded
<1>4. ASSUME NEW d \in Data, Body(d) PROVE Bounded(kv, dl)'
  <2>1. pkt # <<>> /\ ops < MaxOps /\ ops' = ops + 1 /\ pkt' = SetData(pkt, d)
    BY <1>4 DEF Body
  <2>2. pkt'.header_len <= LEN_LAN_SYNC_HEADER_T + ops' * kv /\ DataLen(pkt'.data) <= dl
    BY <2>1, BodyBounded
  <2>3. ops' \in 0 .. MaxOps
    BY <2>1, FramingAssumption DEF Bounded
  <2>4. SmallAfter(pkt', ops', kv, dl)
    BY <2>2 DEF SmallAfter
  <2> QED
    BY <2>3, <2>4 DEF Bounded
<1>5. CASE Write
  <2>1. pkt' = <<>> /\ ops' = ops
    BY <1>5 DEF Write
  <2>2. ops' \in 0 .. MaxOps
    BY <2>1 DEF Bounded
  <2> QED
    BY <1>1, <2>1, <2>2 DEF Bounded
<1>6. CASE UNCHANGED <<pkt, ops>>
  <2>1. pkt' = pkt /\ ops' = ops
    BY <1>6
  <2> QED
    BY <1>1, <2>1 DEF Bounded
<1>7. CASE Extract \/ Stop \/ \E n \in 1 .. Written : ReadCb(n)
  BY <1>6, <1>7 DEF Extract, Stop, ReadCb, sender
<1> QED
  BY <1>1, <1>2, <1>3, <1>4, <1>5, <1>6, <1>7 DEF Next, vars

\* MaxOps calls of addXheader and setData with values of at most kv and data of at
\* most dl bytes wrap no length around, when a uint16_t holds MaxOps headers and a
\* uint32_t the data with them.
THEOREM NoWrap ==
    ASSUME NEW kv, NEW dl, Roomy(kv, dl)
    PROVE  Spec => [][LengthsFit]_vars
<1>1. Init => Bounded(kv, dl)
  BY FramingAssumption DEF Init, Bounded
<1>2. Inv /\ Bounded(kv, dl) /\ [Next]_vars => [LengthsFit]_vars /\ Inv' /\ Bounded(kv, dl)'
  BY BoundedStep, StepInv
<1> QED
  BY <1>1, <1>2, InitInv, PTL DEF Spec
=============================================================================
