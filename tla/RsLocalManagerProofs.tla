------------------------ MODULE RsLocalManagerProofs ------------------------
(***************************************************************************)
(* Proofs about RsLocalManager for every set of uris, sizes and digests    *)
(* and for tables of any length: what an operation returns is computed     *)
(* from the files as they are while the caller uses it.                    *)
(***************************************************************************)
EXTENDS RsLocalManager, TLAPS

\* What each operation has returned is what a scan of the files would give now:
\* files do not change before the caller is done.
RetInv ==
    /\ files \in [Uri -> Content \cup {Absent}]
    /\ ret.op = "getTable" => ret.table = Entries(Scan)
    /\ ret.op = "validRes" =>
           /\ ret.uri \in Uri
           /\ ret.valid <=> Scan[ret.uri] # Absent /\ Scan[ret.uri].hash = ret.hash
    /\ ret.op = "cmp" =>
           /\ ret.peer_table \in PeerTables
           /\ ret.wanted = IF ret.peer_table = <<>> THEN {}
                           ELSE NeedToSync(ret.peer_table, Entries(Scan))
-----------------------------------------------------------------------------
\* A scan finds exactly the files that are there.
LEMMA ScanFinds ==
    ASSUME files \in [Uri -> Content \cup {Absent}], NEW u \in Uri
    PROVE  /\ files[u] = Absent => Scan[u] = Absent
           /\ files[u] # Absent => /\ files[u] \in Content
                                   /\ Scan[u] = Resource(u, files[u])
                                   /\ Scan[u] \in ResourceType /\ Scan[u] # Absent /\ Scan[u] # Null
                                   /\ Scan[u].uri = u /\ Scan[u].size = files[u].size
                                   /\ Scan[u].hash = files[u].hash
<1>1. CASE files[u] = Absent
  BY <1>1 DEF Scan
<1>2. CASE files[u] # Absent
  <2>1. files[u] \in Content /\ Scan[u] = Resource(u, files[u])
    BY <1>2 DEF Scan
  <2>2. Resource(u, files[u]) \in ResourceType
    BY <2>1 DEF Resource, ResourceType, Content
  <2>3. /\ Resource(u, files[u]).uri = u /\ Resource(u, files[u]).size = files[u].size
        /\ Resource(u, files[u]).hash = files[u].hash
    BY DEF Resource
  <2> QED
    BY <1>2, <2>1, <2>2, <2>3, NoResourceAssumption
<1> QED
  BY <1>1, <1>2

\* The entries of a scan are the resources of the files.
LEMMA ScanEntries ==
    ASSUME files \in [Uri -> Content \cup {Absent}]
    PROVE  Entries(Scan) = {Resource(u, files[u]) : u \in {v \in Uri : files[v] # Absent}}
<1>1. {v \in Uri : Scan[v] # Absent} = {v \in Uri : files[v] # Absent}
  BY ScanFinds
<1>2. \A u \in {v \in Uri : files[v] # Absent} : Scan[u] = Resource(u, files[u])
  BY ScanFinds
<1> QED
  BY <1>1, <1>2 DEF Entries

\* No step breaks the invariant.
LEMMA RetStep == RetInv /\ [Next]_vars => RetInv'
<1> SUFFICES ASSUME RetInv, [Next]_vars
             PROVE  RetInv'
  OBVIOUS
<1>0. files \in [Uri -> Content \cup {Absent}]
  BY DEF RetInv
<1>1. ASSUME files' = files
      PROVE  Scan' = Scan
  BY <1>1 DEF Scan
<1>2. CASE GetTable
  <2>1. files' = files /\ ret' = [op |-> "getTable", table |-> Entries(Scan)]
    BY <1>2 DEF GetTable
  <2>2. ret'.op = "getTable" /\ ret'.table = Entries(Scan')
    BY <1>1, <2>1
  <2> QED
    BY <1>0, <2>1, <2>2 DEF RetInv
<1>3. CASE Return
  <2>1. ret' = [op |-> "none"] /\ files' = files
    BY <1>3 DEF Return, NoCall
  <2> QED
    BY <1>0, <2>1 DEF RetInv
<1>4. ASSUME NEW u \in Uri, QueryByUri(u)
      PROVE  RetInv'
  <2>1. ret'.op = "queryByUri" /\ files' = files
    BY <1>4 DEF QueryByUri
  <2> QED
    BY <1>0, <2>1 DEF RetInv
<1>5. ASSUME NEW u \in Uri, NEW h \in Digest, ValidRes(u, h)
      PROVE  RetInv'
  <2>1. PICK t : t = [Scan EXCEPT ![u] = IF @ = Absent THEN Null ELSE @]
    OBVIOUS
  <2>2. files' = files /\ ret' = [op |-> "validRes", uri |-> u, hash |-> h,
                                  valid |-> t[u] # Null /\ t[u].hash = h]
    BY <1>5, <2>1 DEF ValidRes
  <2>3. t[u] = IF Scan[u] = Absent THEN Null ELSE Scan[u]
    BY <2>1 DEF Scan
  <2>4. ret'.op = "validRes" /\ ret'.uri = u /\ ret'.hash = h /\ (ret'.valid <=> t[u] # Null /\ t[u].hash = h)
    BY <2>2, Zenon
  <2>5. (t[u] # Null /\ t[u].hash = h) <=> (Scan[u] # Absent /\ Scan[u].hash = h)
    BY <1>0, <2>3, ScanFinds
  <2>6. Scan' = Scan
    BY <1>1, <2>2
  <2>7. ret'.valid <=> Scan'[ret'.uri] # Absent /\ Scan'[ret'.uri].hash = ret'.hash
    BY <2>4, <2>5, <2>6, Zenon
  <2>8. ret'.op = "validRes" /\ ret'.uri \in Uri /\ files' = files
    BY <2>2, <2>4
  <2> QED
    BY <1>0, <2>7, <2>8 DEF RetInv
<1>6. ASSUME NEW pt \in PeerTables, CmpThenRetNeedToSyncTable(pt)
      PROVE  RetInv'
  <2>1. PICK w : w = IF pt = <<>> THEN {} ELSE NeedToSync(pt, Entries(Scan))
    OBVIOUS
  <2>2. files' = files /\ ret' = [op |-> "cmp", peer_table |-> pt, wanted |-> w]
    BY <1>6, <2>1 DEF CmpThenRetNeedToSyncTable
  <2>3. ret'.op = "cmp" /\ ret'.peer_table = pt /\ ret'.wanted = w
    BY <2>2
  <2>4. Scan' = Scan
    BY <1>1, <2>2
  <2> QED
    BY <1>0, <2>1, <2>2, <2>3, <2>4 DEF RetInv
<1>7. ASSUME NEW u \in Uri, NEW c \in Content \cup {Absent}, Edit(u, c)
      PROVE  RetInv'
  <2>1. ret' = ret /\ ret = [op |-> "none"] /\ files' = [files EXCEPT ![u] = c]
    BY <1>7 DEF Edit, NoCall
  <2> QED
    BY <1>0, <2>1 DEF RetInv
<1>8. CASE UNCHANGED vars
  <2>1. files' = files /\ ret' = ret
    BY <1>8 DEF vars
  <2>2. Scan' = Scan
    BY <1>1, <2>1
  <2> QED
    BY <2>1, <2>2 DEF RetInv
<1> QED
  BY <1>2, <1>3, <1>4, <1>5, <1>6, <1>7, <1>8 DEF Next

\* What was returned stays true of the files until the caller has used it.
THEOREM RetInvariant == Spec => []RetInv
<1>1. Init => RetInv
  BY DEF Init, NoCall, RetInv
<1> QED
  BY <1>1, RetStep, PTL DEF Spec

\* getTable lists exactly the files of the node, whatever an earlier scan or
\* the queries for unknown uris have left in the table.
THEOREM TableExact == Spec => []TableListsFiles
<1>1. RetInv => TableListsFiles
  BY ScanEntries DEF RetInv, TableListsFiles
<1> QED
  BY <1>1, RetInvariant, PTL

\* validRes judges the file as it is, not the entry of an earlier scan.
THEOREM ValidExact == Spec => []ValidIsExact
<1>1. RetInv => ValidIsExact
  <2> SUFFICES ASSUME RetInv, ret.op = "validRes"
               PROVE  ret.valid <=> files[ret.uri] # Absent /\ files[ret.uri].hash = ret.hash
    BY DEF ValidIsExact
  <2>1. /\ ret.uri \in Uri /\ files \in [Uri -> Content \cup {Absent}]
    BY DEF RetInv
  <2>2. ret.valid <=> Scan[ret.uri] # Absent /\ Scan[ret.uri].hash = ret.hash
    BY DEF RetInv
  <2>3. /\ Scan[ret.uri] # Absent <=> files[ret.uri] # Absent
        /\ Scan[ret.uri] # Absent => Scan[ret.uri].hash = files[ret.uri].hash
    BY <2>1, ScanFinds
  <2> QED
    BY <2>2, <2>3
<1> QED
  BY <1>1, RetInvariant, PTL
-----------------------------------------------------------------------------
\* A table from the wire.
LEMMA PeerTable ==
    ASSUME NEW pt \in PeerTables
    PROVE  /\ \E n \in Nat : DOMAIN pt = 1 .. n
           /\ \A k \in DOMAIN pt : pt[k] \in ResourceType
           /\ \A j, k \in DOMAIN pt : pt[j].uri = pt[k].uri => j = k
<1>1. PICK n \in 0 .. MaxEntries : pt \in [1 .. n -> ResourceType]
  BY DEF PeerTables
<1>2. n \in Nat
  OBVIOUS
<1>3. \A j, k \in DOMAIN pt : pt[j].uri = pt[k].uri => j = k
  BY DEF PeerTables
<1> QED
  BY <1>1, <1>2, <1>3

\* A wanted resource comes from the table and beats every local file of its name.
LEMMA Wanted ==
    ASSUME NEW pt, NEW local, NEW r \in NeedToSync(pt, local)
    PROVE  /\ \E k \in DOMAIN pt : r = pt[k]
           /\ \A l \in local : l.uri[2] = r.uri[2] => ~KeepsLocal(r, l)
BY DEF NeedToSync, Filtered

\* cmpThenRetNeedToSyncTable compares by file name and saveLocal writes by uri:
\* still no resource is wanted that is smaller than the local file it replaces.
THEOREM BiggerKept == Spec => []NeverOverwritesBigger
<1>1. RetInv => NeverOverwritesBigger
  <2> SUFFICES ASSUME RetInv, ret.op = "cmp", NEW r \in ret.wanted, files[r.uri] # Absent
               PROVE  files[r.uri].size <= r.size
    BY DEF NeverOverwritesBigger
  <2>1. PICK pt \in PeerTables : pt = ret.peer_table
    BY DEF RetInv
  <2>2. r \in NeedToSync(pt, Entries(Scan)) /\ files \in [Uri -> Content \cup {Absent}]
    BY <2>1 DEF RetInv
  <2>3. r \in ResourceType
    BY <2>1, <2>2, PeerTable, Wanted
  <2>4. r.uri \in Uri /\ r.size \in Size
    BY <2>3 DEF ResourceType
  <2>5. PICK l : l = Scan[r.uri]
    OBVIOUS
  <2>6. l \in Entries(Scan) /\ l \in ResourceType /\ l.uri = r.uri /\ l.size = files[r.uri].size
    BY <2>2, <2>4, <2>5, ScanFinds DEF Entries
  <2>7. ~KeepsLocal(r, l)
    BY <2>2, <2>6, Wanted
  <2>8. l.size \in Nat /\ r.size \in Nat
    BY <2>3, <2>6, SizeAssumption DEF ResourceType
  <2>9. ~(r.size < l.size)
    BY <2>7 DEF KeepsLocal
  <2> QED
    BY <2>6, <2>8, <2>9
<1> QED
  BY <1>1, RetInvariant, PTL

\* When no name occurs in two directories and no two digests begin alike, the
\* comparison wants exactly the resources that are missing, smaller or different
\* here.
THEOREM WantedExact == Spec => []WantedIsExact
<1>1. RetInv => WantedIsExact
  <2> SUFFICES ASSUME RetInv, ret.op = "cmp", Distinguishable(ret.peer_table)
               PROVE  ret.wanted = {r \in ToSet(ret.peer_table) : Missing(r)}
    BY DEF WantedIsExact
  <2>1. PICK pt \in PeerTables : pt = ret.peer_table
    BY DEF RetInv
  <2>2. files \in [Uri -> Content \cup {Absent}]
    BY DEF RetInv
  <2>3. PICK n \in Nat : DOMAIN pt = 1 .. n
    BY PeerTable
  <2>4. \A k \in DOMAIN pt : pt[k] \in ResourceType
    BY PeerTable
  <2>5. ToSet(pt) = {pt[k] : k \in DOMAIN pt}
    BY DEF ToSet
  <2>6. PICK all : all = ToSet(pt) \cup Entries(Scan)
    OBVIOUS
  <2>7. \A r, s \in all : /\ r.uri[2] = s.uri[2] => r.uri = s.uri
                          /\ r.hash[1] = s.hash[1] => r.hash = s.hash
    BY <2>1, <2>2, <2>6, ScanEntries DEF Distinguishable
  <2>8. \A l \in Entries(Scan) : l.uri \in Uri /\ l = Scan[l.uri] /\ files[l.uri] # Absent
    <3>1. SUFFICES ASSUME NEW u \in Uri, Scan[u] # Absent
                   PROVE  Scan[u].uri \in Uri /\ Scan[u] = Scan[Scan[u].uri]
                          /\ files[Scan[u].uri] # Absent
      BY DEF Entries
    <3>2. files[u] # Absent
      BY <2>2, <3>1, ScanFinds
    <3>3. Scan[u].uri = u
      BY <2>2, <3>2, ScanFinds
    <3> QED
      BY <3>2, <3>3
  <2>9. \A r \in ToSet(pt) : r \in ResourceType /\ r.uri \in Uri /\ r.size \in Nat
    BY <2>4, <2>5, SizeAssumption DEF ResourceType
  <2>10. ASSUME NEW r \in ToSet(pt), NEW l \in Entries(Scan), l.uri = r.uri
         PROVE  KeepsLocal(r, l) <=> ~Missing(r)
    <3>1. /\ files[r.uri] # Absent /\ l.size = files[r.uri].size /\ l.hash = files[r.uri].hash
          /\ l \in ResourceType
      BY <2>2, <2>8, <2>10, ScanFinds
    <3>2. l.size \in Nat /\ r.size \in Nat
      BY <2>9, <3>1, SizeAssumption DEF ResourceType
    <3>3. CompareChar(r.hash, l.hash) <=> r.hash = l.hash
      BY <2>6, <2>7 DEF CompareChar
    <3> QED
      BY <3>1, <3>2, <3>3 DEF KeepsLocal, Missing
  <2>11. ASSUME NEW r \in NeedToSync(pt, Entries(Scan))
         PROVE  r \in ToSet(pt) /\ Missing(r)
    <3>1. r \in ToSet(pt)
      BY <2>5, Wanted
    <3>2. CASE files[r.uri] = Absent
      BY <3>1, <3>2 DEF Missing
    <3>3. CASE files[r.uri] # Absent
      <4>1. PICK l \in Entries(Scan) : l.uri = r.uri
        BY <2>2, <2>9, <3>1, <3>3, ScanFinds DEF Entries
      <4>2. ~KeepsLocal(r, l)
        BY <4>1, Wanted
      <4> QED
        BY <2>10, <3>1, <4>1, <4>2
    <3> QED
      BY <3>1, <3>2, <3>3
  <2>12. ASSUME NEW r \in ToSet(pt), Missing(r)
         PROVE  r \in NeedToSync(pt, Entries(Scan))
    <3>1. PICK k \in DOMAIN pt : r = pt[k]
      BY <2>5
    <3>2. ASSUME NEW l \in DOMAIN pt, l > k
          PROVE  pt[l].uri[2] # pt[k].uri[2]
      <4>1. CASE pt[l].uri[2] = pt[k].uri[2]
        <5>1. pt[l].uri = pt[k].uri
          BY <2>5, <2>6, <2>7, <4>1
        <5>2. l = k
          BY <5>1, PeerTable
        <5> QED
          BY <2>3, <3>2, <5>2
      <4> QED
        BY <4>1
    <3>3. r \in Filtered(pt)
      BY <3>1, <3>2 DEF Filtered
    <3>4. ASSUME NEW l \in Entries(Scan), l.uri[2] = r.uri[2]
          PROVE  ~KeepsLocal(r, l)
      <4>1. l.uri = r.uri
        BY <2>6, <2>7, <3>4
      <4> QED
        BY <2>10, <2>12, <4>1
    <3> QED
      BY <3>3, <3>4 DEF NeedToSync
  <2>13. NeedToSync(pt, Entries(Scan)) = {r \in ToSet(pt) : Missing(r)}
    BY <2>11, <2>12
  <2>14. CASE pt = <<>>
    <3>1. ToSet(pt) = {} /\ ret.wanted = {}
      BY <2>1, <2>5, <2>14 DEF RetInv
    <3> QED
      BY <2>1, <3>1
  <2>15. CASE pt # <<>>
    BY <2>1, <2>13, <2>15 DEF RetInv
  <2> QED
    BY <2>14, <2>15
<1> QED
  BY <1>1, RetInvariant, PTL
=============================================================================
