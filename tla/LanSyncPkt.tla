----------------------------- MODULE LanSyncPkt -----------------------------
(***************************************************************************)
(* The packets of the protocol: how LanSyncPkt keeps the two lengths of    *)
(* its header while a packet is built, what write() puts on the wire, and  *)
(* what the constructor reads back.                                        *)
(*                                                                         *)
(* A header value is the sequence of the pieces that its colons separate:  *)
(* <<>> is the empty string and <<"a", "b">> is a:b.  Keys and pieces have *)
(* length 1.  Data is a sequence of bytes.                                 *)
(***************************************************************************)
EXTENDS Integers, Sequences, FiniteSets, Functions

CONSTANTS LEN_LAN_SYNC_HEADER_T,   \* sizeof(lan_sync_header_t)
          UshortMod,               \* one more than the largest uint16_t
          UintMod,                 \* one more than the largest uint32_t
          TopByte                  \* 2^24: the weight of the last byte of a uint32_t

ASSUME HeaderAssumption ==
    /\ UshortMod \in Nat /\ UintMod \in Nat /\ UshortMod <= UintMod
    /\ LEN_LAN_SYNC_HEADER_T \in 1 .. UshortMod - 1
    /\ TopByte \in Nat \ {0}

Null == <<"nullptr">>   \* data of a packet that has none
Uninitialised == <<"uninitialised">>

FLAG_KEY_VALUE_SPLIT == 2   \* the colon and the terminating zero

ValueLen(v) == IF v = <<>> THEN 0 ELSE 2 * Len(v) - 1

KvLen(v) == 1 + ValueLen(v) + FLAG_KEY_VALUE_SPLIT

NewPkt(type) ==
    [type |-> type, xheader |-> <<>>, data |-> Null,
     header_len |-> LEN_LAN_SYNC_HEADER_T, total_len |-> LEN_LAN_SYNC_HEADER_T]

\* xheader[key] of a std::map: the empty string where there is no such key.
QueryXheader(pkt, k) == IF k \in DOMAIN pkt.xheader THEN pkt.xheader[k] ELSE <<>>

WithXheader(pkt, k, v) ==
    [x \in DOMAIN pkt.xheader \cup {k} |-> IF x = k THEN v ELSE pkt.xheader[x]]

\* Mutant: the length of the old value is taken off after the new one is stored.
AddXheaderTooLate(pkt, k, v) ==
    LET removed == IF v = <<>> THEN 0 ELSE KvLen(v)
    IN [pkt EXCEPT !.xheader = WithXheader(pkt, k, v),
                   !.header_len = (@ - removed + KvLen(v)) % UshortMod,
                   !.total_len = (@ - removed + KvLen(v)) % UintMod]

\* A value that is replaced gives its length back, unless it is empty, which
\* looks like no value.
KvRemoved(exists_value) == IF exists_value = <<>> THEN 0 ELSE KvLen(exists_value)

AddXheader(pkt, k, v) ==
    LET removed == KvRemoved(QueryXheader(pkt, k))
    IN [pkt EXCEPT !.xheader = WithXheader(pkt, k, v),
                   !.header_len = (@ - removed + KvLen(v)) % UshortMod,
                   !.total_len = (@ - removed + KvLen(v)) % UintMod]

\* setData: data that is replaced gives its length back.
DataRemoved(pkt) == IF pkt.data = Null THEN 0 ELSE pkt.total_len - pkt.header_len

SetData(pkt, d) ==
    [pkt EXCEPT !.data = d, !.total_len = (@ - DataRemoved(pkt) + Len(d)) % UintMod]

\* What write() needs for the headers it prints one after the other.
XheaderBytes(pkt) ==
    SumFunction([k \in DOMAIN pkt.xheader |-> KvLen(pkt.xheader[k])])

\* Mutant: a key and one piece are taken for a header without a value.
ParsedXheaderOffByOne(x) == [k \in {j \in DOMAIN x : Len(x[j]) > 1} |-> <<x[k][1]>>]

\* splitstr with getline: an empty last piece is no piece, so a header without
\* a value is dropped; of a value with colons only the first piece is kept.
ParsedXheader(x) == [k \in {j \in DOMAIN x : x[j] # <<>>} |-> <<x[k][1]>>]

\* The constructor compares total_len with the size of the header before it
\* converts it from the order of the network: on a little-endian machine a
\* multiple of 2^24 reads as a small number.
LooksShort(total_len) == \E k \in 0 .. LEN_LAN_SYNC_HEADER_T - 1 : total_len = k * TopByte

\* Such a packet is not read; recv_tcp still dispatches on the header's type.
NotRead(pkt) ==
    [pkt EXCEPT !.xheader = <<>>, !.data = Uninitialised, !.header_len = 0, !.total_len = 0]

\* write() and, at the other end, the constructor from a header.  Zero bytes
\* between the last header and the data read as empty strings and are skipped.
Parsed(pkt) ==
    IF LooksShort(pkt.total_len) THEN NotRead(pkt)
    ELSE [pkt EXCEPT !.xheader = ParsedXheader(@), !.data = IF @ = Null THEN <<>> ELSE @]
=============================================================================
