------------------------------- MODULE Framing ------------------------------
(***************************************************************************)
(* One TCP session, one way: a node builds packets and writes them; TCP    *)
(* hands the bytes over in chunks of any size; read_cb cuts the packets    *)
(* out of the input buffer with isExtraAllDataNow and hands each to recv.  *)
(* The two nodes run side by side; read_cb runs without interruption in    *)
(* the event loop, and nothing is added to the buffer meanwhile.           *)
(***************************************************************************)
EXTENDS LanSyncPkt

CONSTANTS Type, Key, Value, Data,   \* what packets are built from
          LIMIT,            \* the local variable limit of read_cb
          MaxSent, MaxOps   \* bounds on packets, and on calls that build them

ASSUME FramingAssumption ==
    /\ LIMIT \in Nat /\ MaxSent \in Nat /\ MaxOps \in Nat
    /\ \A v \in Value : v \in Seq(Range(v))
    /\ \A d \in Data : d \in Seq(Range(d)) /\ d # Null

VARIABLES pkt,        \* the packet the sender is building, or <<>>
          ops,
          sent,       \* the packets written to the session
          arrived,    \* bytes that have reached the receiver's buffer
          consumed,   \* bytes that were removed from it
          i, pc,      \* read_cb
          handled     \* the packets given to recv, as they were parsed

vars == <<pkt, ops, sent, arrived, consumed, i, pc, handled>>
sender == <<pkt, ops, sent>>
receiver == <<arrived, consumed, i, pc, handled>>

Init ==
    /\ pkt = <<>> /\ ops = 0 /\ sent = <<>>
    /\ arrived = 0 /\ consumed = 0 /\ i = 0 /\ pc = "idle" /\ handled = <<>>

\* The byte of the stream at which the n-th packet begins.
Start(n) == SumFunctionOnSet([k \in DOMAIN sent |-> sent[k].total_len], 1 .. n - 1)

Written == Start(Len(sent) + 1)
-----------------------------------------------------------------------------
\* The sender.

Begin(type) ==
    /\ pkt = <<>> /\ Len(sent) < MaxSent
    /\ pkt' = NewPkt(type)
    /\ UNCHANGED <<ops, sent, receiver>>

Header(k, v) ==
    /\ pkt # <<>> /\ ops < MaxOps
    /\ pkt' = AddXheader(pkt, k, v) /\ ops' = ops + 1
    /\ UNCHANGED <<sent, receiver>>

Body(d) ==
    /\ pkt # <<>> /\ ops < MaxOps
    /\ pkt' = SetData(pkt, d) /\ ops' = ops + 1
    /\ UNCHANGED <<sent, receiver>>

\* write() into a buffer of total_len bytes, and on to the session.
Write ==
    /\ pkt # <<>>
    /\ sent' = Append(sent, pkt) /\ pkt' = <<>>
    /\ UNCHANGED <<ops, receiver>>
-----------------------------------------------------------------------------
\* The receiver.

\* The packet whose header is at the front of the input buffer.
AtFront == CHOOSE n \in 1 .. Len(sent) : Start(n) = consumed

\* Mutant: the length of the header is taken for that of the packet.
IsExtraHeaderOnly(data_len) ==
    IF data_len < LEN_LAN_SYNC_HEADER_T \/ data_len < sent[AtFront].header_len THEN 0
    ELSE sent[AtFront].header_len

\* Mutant: a packet that fills the buffer is not complete yet.
IsExtraOffByOne(data_len) ==
    IF data_len < LEN_LAN_SYNC_HEADER_T \/ data_len <= sent[AtFront].total_len THEN 0
    ELSE sent[AtFront].total_len

\* isExtraAllDataNow: the length of the packet at the front, once it is there.
IsExtraAllDataNow(data_len) ==
    IF data_len < LEN_LAN_SYNC_HEADER_T \/ data_len < sent[AtFront].total_len THEN 0
    ELSE sent[AtFront].total_len

\* Bytes arrive and read_cb starts.
ReadCb(n) ==
    /\ pc = "idle" /\ arrived < n
    /\ arrived' = n /\ pc' = "loop" /\ i' = 0
    /\ UNCHANGED <<sender, consumed, handled>>

\* One turn of its loop: a packet is removed, parsed and handed to recv.
Extract ==
    /\ pc = "loop"
    /\ LET want == IsExtraAllDataNow(arrived - consumed)
       IN /\ want # 0
          /\ handled' = Append(handled, Parsed(sent[AtFront]))
          /\ consumed' = consumed + want
    /\ i' = i + 1
    /\ pc' = IF i >= LIMIT THEN "idle" ELSE "loop"
    /\ UNCHANGED <<sender, arrived>>

\* No complete packet is left.
Stop ==
    /\ pc = "loop" /\ IsExtraAllDataNow(arrived - consumed) = 0
    /\ pc' = "idle"
    /\ UNCHANGED <<sender, arrived, consumed, i, handled>>

Next ==
    \/ \E t \in Type : Begin(t)
    \/ \E k \in Key, v \in Value : Header(k, v)
    \/ \E d \in Data : Body(d)
    \/ Write \/ Extract \/ Stop
    \/ \E n \in 1 .. Written : ReadCb(n)

Spec == Init /\ [][Next]_vars
-----------------------------------------------------------------------------
\* The buffer that write() allocates has room for everything it prints: however
\* headers and data were added and replaced, the headers fit below header_len
\* and the data fits between header_len and total_len.
WriteFits ==
    pkt # <<>> =>
        /\ LEN_LAN_SYNC_HEADER_T + XheaderBytes(pkt) <= pkt.header_len
        /\ (IF pkt.data = Null THEN 0 ELSE Len(pkt.data)) = pkt.total_len - pkt.header_len

\* The receiver always stands at the beginning of a packet or at the end of
\* what was written, and has taken no byte that has not arrived: the stream never
\* gets out of step, whatever the chunks.
InStep ==
    /\ consumed <= arrived
    /\ \E n \in 1 .. Len(sent) + 1 : consumed = Start(n)

\* The packets handed to recv are the packets sent, in order and each once, with
\* their type and data and the headers whose value has no colon, except for the
\* content of packets whose length reads as too short in the order of the network.
HandledAsSent ==
    /\ Len(handled) <= Len(sent)
    /\ \A n \in DOMAIN handled :
          ~LooksShort(sent[n].total_len) =>
              /\ handled[n].type = sent[n].type
              /\ handled[n].data = IF sent[n].data = Null THEN <<>> ELSE sent[n].data
              /\ \A k \in Key :
                    Len(QueryXheader(sent[n], k)) <= 1 =>
                        QueryXheader(handled[n], k) = QueryXheader(sent[n], k)

\* When read_cb returns, a packet that has arrived completely is left in the
\* buffer only if the call has handled all it may (limit + 1 packets).
NoneLeftBehind ==
    (pc = "idle" /\ i <= LIMIT) =>
        (Len(handled) = Len(sent) \/ arrived < Start(Len(handled) + 2))
-----------------------------------------------------------------------------
\* The integers that hold lengths have room for every sequence of MaxOps calls:
\* what a header costs is at most kv and data has at most dl bytes.
Roomy(kv, dl) ==
    /\ kv \in Nat /\ dl \in Nat
    /\ \A v \in Value : KvLen(v) <= kv
    /\ \A d \in Data : Len(d) <= dl
    /\ LEN_LAN_SYNC_HEADER_T + MaxOps * kv < UshortMod
    /\ LEN_LAN_SYNC_HEADER_T + MaxOps * kv + dl < UintMod
=============================================================================
