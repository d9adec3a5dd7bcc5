---------------------------- MODULE RsLocalManager --------------------------
(***************************************************************************)
(* The resources of this node: the files below resource.home, the table    *)
(* RsLocalManager builds from them, and the comparison of a peer's table   *)
(* with it, which decides what this node fetches.  All operations run in   *)
(* the event loop, one call at a time; files change between the calls.     *)
(*                                                                         *)
(* A uri is the pair of its directory and its file name.  A digest is the  *)
(* pair of its first character and the rest.                               *)
(***************************************************************************)
EXTENDS Integers, SequencesExt

CONSTANTS Uri,       \* pairs of a directory and a file name
          Digest,    \* pairs of a first character and the rest
          Size,
          Absent,    \* the uri is not a key of the table, or there is no file
          Null,      \* the key is there and its pointer is null
          MaxEntries,   \* bound: the resources of a peer's table
          MaxEdits      \* bound on changes of the files

ASSUME SizeAssumption == Size \subseteq Nat

VARIABLES files,   \* the files below resource.home
          table,   \* the map from uri to Resource
          ret,     \* what the operation that was just called returns
          edits

vars == <<files, table, ret, edits>>

Content == [size : Size, hash : Digest]

\* struct Resource; its name is uri[2] and its path is resource.home and the uri.
Resource(u, c) == [uri |-> u, size |-> c.size, hash |-> c.hash]
ResourceType == [uri : Uri, size : Size, hash : Digest]

\* A null pointer is no resource, and what is not there is no file.
ASSUME NoResourceAssumption ==
    Absent \notin ResourceType \cup Content /\ Null \notin ResourceType

\* Tables on the wire: one entry per uri, in the order of the sender's map.
PeerTables ==
    {t \in UNION {[1 .. n -> ResourceType] : n \in 0 .. MaxEntries} :
        \A j, k \in DOMAIN t : t[j].uri = t[k].uri => j = k}

NoCall == [op |-> "none"]

Init ==
    /\ files \in {f \in [Uri -> Content \cup {Absent}] :
                     \A u, v \in Uri : f[u] # Absent /\ f[v] # Absent => u = v}
    /\ table = [u \in Uri |-> Absent]
    /\ ret = NoCall
    /\ edits = 0
-----------------------------------------------------------------------------
\* Mutant: entries of files that are gone, and null entries, stay.
ScanWithoutClear ==
    [u \in Uri |-> IF files[u] = Absent THEN table[u] ELSE Resource(u, files[u])]

\* Mutant: a file that is in the table is not digested again.
ScanOfNewFiles ==
    [u \in Uri |-> IF table[u] \notin {Absent, Null} THEN table[u]
                   ELSE IF files[u] = Absent THEN Absent ELSE Resource(u, files[u])]

\* refreshTable: clear, then walk the directory and digest every file.
Scan == [u \in Uri |-> IF files[u] = Absent THEN Absent ELSE Resource(u, files[u])]

Entries(t) == {t[u] : u \in {v \in Uri : t[v] # Absent}}

\* getTable, for a peer that asks for the table index.
GetTable ==
    /\ ret = NoCall
    /\ table' = Scan
    /\ ret' = [op |-> "getTable", table |-> Entries(table')]
    /\ UNCHANGED <<files, edits>>

\* queryByUri, for a peer that asks for a block: the table is not refreshed and
\* an unknown uri becomes a key with a null pointer.
QueryByUri(u) ==
    /\ ret = NoCall
    /\ table' = [table EXCEPT ![u] = IF @ = Absent THEN Null ELSE @]
    /\ ret' = [op |-> "queryByUri", uri |-> u, rs |-> table'[u]]
    /\ UNCHANGED <<files, edits>>

\* validRes: refresh, then compare the whole digest.
ValidRes(u, h) ==
    /\ ret = NoCall
    /\ table' = [Scan EXCEPT ![u] = IF @ = Absent THEN Null ELSE @]
    /\ ret' = [op |-> "validRes", uri |-> u, hash |-> h,
               valid |-> table'[u] # Null /\ table'[u].hash = h]
    /\ UNCHANGED <<files, edits>>
-----------------------------------------------------------------------------
\* cmpThenRetNeedToSyncTable.  The map filtered is keyed by file name: of the
\* entries with one name the last stays.
Filtered(pt) ==
    {pt[k] : k \in {j \in DOMAIN pt : \A l \in DOMAIN pt : l > j => pt[l].uri[2] # pt[j].uri[2]}}

\* compareChar, which looks at the first character again and again.
CompareChar(l, r) == l[1] = r[1]

\* Mutant: the bigger resource is the one to drop.
KeepsLocalIfSmaller(rs, local_rs) ==
    \/ rs.size > local_rs.size
    \/ rs.size = local_rs.size /\ CompareChar(rs.hash, local_rs.hash)

\* Mutant: files of the same size are not compared further.
KeepsLocalIfNotSmaller(rs, local_rs) == rs.size <= local_rs.size

\* The two cases in which the local file stays as it is.
KeepsLocal(rs, local_rs) ==
    \/ rs.size < local_rs.size
    \/ rs.size = local_rs.size /\ CompareChar(rs.hash, local_rs.hash)

\* Every local file erases the entry of its name if it is to stay as it is.  (The
\* empty entry that filtered[name] inserts for any other name is erased at once.)
NeedToSync(pt, local) ==
    {rs \in Filtered(pt) :
        \A local_rs \in local : local_rs.uri[2] = rs.uri[2] => ~KeepsLocal(rs, local_rs)}

CmpThenRetNeedToSyncTable(pt) ==
    /\ ret = NoCall
    /\ table' = IF pt = <<>> THEN table ELSE Scan
    /\ ret' = [op |-> "cmp", peer_table |-> pt,
               wanted |-> IF pt = <<>> THEN {} ELSE NeedToSync(pt, Entries(table'))]
    /\ UNCHANGED <<files, edits>>
-----------------------------------------------------------------------------
\* The caller has used the result.
Return ==
    /\ ret # NoCall
    /\ ret' = NoCall
    /\ UNCHANGED <<files, table, edits>>

\* A file is replaced, created or removed, by the user or by saveLocal.
Edit(u, c) ==
    /\ ret = NoCall /\ edits < MaxEdits /\ c # files[u]
    /\ files' = [files EXCEPT ![u] = c]
    /\ edits' = edits + 1
    /\ UNCHANGED <<table, ret>>

Next ==
    \/ GetTable \/ Return
    \/ \E u \in Uri :
          \/ QueryByUri(u)
          \/ \E h \in Digest : ValidRes(u, h)
          \/ \E c \in Content \cup {Absent} : Edit(u, c)
    \/ \E pt \in PeerTables : CmpThenRetNeedToSyncTable(pt)

Spec == Init /\ [][Next]_vars
-----------------------------------------------------------------------------
\* The table index a node sends lists exactly its files as they are, without
\* the null entries that queries for unknown uris have left in the map (the
\* sender would dereference them).
TableListsFiles ==
    ret.op = "getTable" =>
        ret.table = {Resource(u, files[u]) : u \in {v \in Uri : files[v] # Absent}}

\* validRes judges the file as it is now, whatever the table of the last scan
\* or an earlier query says.
ValidIsExact ==
    ret.op = "validRes" =>
        (ret.valid <=> files[ret.uri] # Absent /\ files[ret.uri].hash = ret.hash)

\* A resource that is fetched never overwrites a bigger local file
\* (docs/readme.md line 74: the bigger file is kept), although the comparison
\* is by name and the write by uri.
NeverOverwritesBigger ==
    ret.op = "cmp" =>
        \A r \in ret.wanted : files[r.uri] # Absent => files[r.uri].size <= r.size

Missing(r) ==
    \/ files[r.uri] = Absent \/ files[r.uri].size < r.size
    \/ files[r.uri].size = r.size /\ files[r.uri].hash # r.hash

\* The comparison may go by file name and first character when no name occurs
\* in two directories and no two digests begin alike.
Distinguishable(pt) ==
    LET all == ToSet(pt) \cup {Resource(u, files[u]) : u \in {v \in Uri : files[v] # Absent}}
    IN \A r, s \in all :
          /\ r.uri[2] = s.uri[2] => r.uri = s.uri
          /\ r.hash[1] = s.hash[1] => r.hash = s.hash

\* Then it returns exactly the resources that are missing here, smaller here,
\* or of another content at the same size (docs/readme.md lines 74 and 96).
WantedIsExact ==
    (ret.op = "cmp" /\ Distinguishable(ret.peer_table)) =>
        ret.wanted = {r \in ToSet(ret.peer_table) : Missing(r)}
=============================================================================
