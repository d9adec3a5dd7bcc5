------------------------------- MODULE IoUtil -------------------------------
(***************************************************************************)
(* The file access of both ends of a transfer, one step per system call:   *)
(* readSize and readAll on the node that has the file, writeFile on the    *)
(* node that fetches it.                                                   *)
(*                                                                         *)
(* The byte at offset o of file f is <<f, o>>.  The path of a resource may *)
(* be given another file, cut short or removed by its user between any two *)
(* calls; an open descriptor keeps the file it was opened with.            *)
(***************************************************************************)
EXTENDS SyncRs, RangeHeaders, Sequences, FiniteSets

CONSTANTS File,         \* the files the path of the resource may lead to
          FileSizes,    \* the sizes of those files
          MaxOffset,    \* bound: the offsets of the fetched file
          MaxQueue,     \* bound: requests, and replies, under way
          MaxFaults     \* bound: faults in one behaviour, each of another kind

NoFile == "no_file"     \* the path does not exist
Hole == <<NoFile, 0>>       \* an offset of the fetched file that was never written
Garbage == <<NoFile, 1>>    \* what lies behind the data of a packet in memory

ASSUME FileAssumption == File # {} /\ NoFile \notin File
ASSUME FileSizesAssumption == FileSizes \subseteq Nat
ASSUME MaxOffsetAssumption == MaxOffset \in Nat

VARIABLES path,     \* the file at the path
          fsize,    \* the size of each file
          rd,       \* the call of readSize under way
          replies,  \* what SyncIOReadMonitor sent and the fetching node has not handled
          wr,       \* the call of writeFile under way
          local,    \* the bytes of the fetched file
          faults    \* what went wrong so far

ioVars == <<path, fsize, rd, replies, wr, local, faults>>

\* A fault of a new kind.
Happens(f) ==
    /\ f \notin faults
    /\ faults' = faults \cup {f}
    /\ Cardinality(faults') <= MaxFaults

ONCE_MAX_READ_SIZE == 2 * BLOCK_SIZE

NotReading == [pc |-> "idle", fd |-> NoFile, range |-> [start_pos |-> 0, size |-> 0],
               monitored |-> FALSE, curpos |-> 0, end |-> 0, ret_len |-> 0]

\* The process of the serving node is gone.
ReaderGone == [NotReading EXCEPT !.pc = "gone"]

NotWriting == [pc |-> "idle", offset |-> 0, size |-> 0, data |-> <<>>, curpos |-> 0, fpos |-> 0]

IoInit ==
    /\ path = CHOOSE f \in File : TRUE
    /\ \E n \in FileSizes : fsize = [f \in File |-> n]
    /\ rd = NotReading
    /\ replies = <<>>
    /\ wr = NotWriting
    /\ local = [o \in 0 .. MaxOffset |-> Hole]
    /\ faults = {}
-----------------------------------------------------------------------------
\* readSize opens the file and moves to the offset, which may lie past its end.
\* A missing file ends the call (the caller frees a null pointer).
ReadSize(range, monitored) ==
    /\ rd.pc = "idle"
    /\ rd' = IF path = NoFile THEN NotReading
             ELSE [NotReading EXCEPT !.pc = "open", !.fd = path, !.range = range,
                                     !.monitored = monitored, !.curpos = range.start_pos]

\* readAll asks for the size of the path, then reads that many bytes.  A file
\* that was listed by the scan and is no longer there makes file_size throw,
\* which nothing catches on the way to main.
ReadAll ==
    IF path = NoFile THEN rd.pc = "idle" /\ rd' = ReaderGone
    ELSE ReadSize([start_pos |-> 0, size |-> fsize[path]], FALSE)

\* The digest of a scan, of which only the reading matters here.
MdEncodeWithSHA3_512 == ReadAll /\ UNCHANGED <<path, fsize, replies, wr, local, faults>>

\* Mutant of ReadEnd: the end of the request is not cut at the end of the file.
ReadEndOfRange(range, file_size) == range.start_pos + range.size

\* Mutant of ReadEnd: the file is read to its end.
ReadEndOfFile(range, file_size) == file_size

ReadEnd(range, file_size) == LesserOf(range.start_pos + range.size, file_size)

\* The size of the path, which need not be the file that was opened; without
\* a path file_size throws.  handleReqResource catches it and the descriptor
\* stays open, a digest does not.
FileSize ==
    /\ rd.pc = "open"
    /\ rd' = IF path = NoFile THEN IF rd.monitored THEN NotReading ELSE ReaderGone
             ELSE [rd EXCEPT !.pc = "loop", !.end = ReadEnd(rd.range, fsize[path])]
    /\ UNCHANGED <<path, fsize, replies, wr, local, faults>>

Bytes(f, from, n) == [k \in 1 .. n |-> <<f, from + k - 1>>]

\* SyncIOReadMonitor: one reply for what one read returned, an empty one too.
\* The code's total is rs->size; the receiver uses neither it nor is_last.
Monitor(from_pos, data) ==
    [content_range |-> ContentRangeToString(NewContentRange(from_pos, Len(data), fsize[rd.fd],
                           rd.range.start_pos + rd.range.size = from_pos + Len(data))),
     data |-> data]

\* One round of the loop: n bytes are read, reported and added to the position.
ReadReturns(n) ==
    LET data == Bytes(rd.fd, rd.curpos, n)
    IN /\ rd' = [rd EXCEPT !.curpos = rd.curpos + n, !.ret_len = rd.ret_len + n]
       /\ replies' = IF rd.monitored THEN Append(replies, Monitor(rd.curpos, data)) ELSE replies
       /\ UNCHANGED <<path, fsize, wr, local>>

ExpectedRead == LesserOf(ONCE_MAX_READ_SIZE, rd.end - rd.curpos)

\* What the open file still has; nothing when it was cut short meanwhile.
Available ==
    IF fsize[rd.fd] <= rd.curpos THEN 0 ELSE LesserOf(ExpectedRead, fsize[rd.fd] - rd.curpos)

InReadLoop == rd.pc = "loop" /\ rd.curpos < rd.end /\ Len(replies) < MaxQueue

Read == InReadLoop /\ ReadReturns(Available) /\ UNCHANGED faults

ShortRead ==
    /\ InReadLoop
    /\ \E n \in 1 .. Available - 1 : ReadReturns(n)
    /\ Happens("short_read")

ReadDone ==
    /\ rd.pc = "loop" /\ rd.curpos >= rd.end
    /\ rd' = NotReading
    /\ UNCHANGED <<path, fsize, replies, wr, local, faults>>

\* The user of the serving node: another file takes the path, the file is cut
\* in place, or it is removed.
Replaced ==
    /\ \E f \in File \ {path} :
          /\ path' = f
          /\ \E n \in FileSizes : fsize' = [fsize EXCEPT ![f] = n]
    /\ Happens("changed")
    /\ UNCHANGED <<rd, replies, wr, local>>

Truncated ==
    /\ path # NoFile
    /\ \E n \in FileSizes : n < fsize[path] /\ fsize' = [fsize EXCEPT ![path] = n]
    /\ Happens("truncated")
    /\ UNCHANGED <<path, rd, replies, wr, local>>

Removed ==
    /\ path # NoFile
    /\ path' = NoFile
    /\ Happens("changed")
    /\ UNCHANGED <<fsize, rd, replies, wr, local>>
-----------------------------------------------------------------------------
\* writeFile opens or creates the file and moves to the offset.
WriteFile(offset, size, data) ==
    /\ wr.pc = "idle"
    /\ wr' = [pc |-> "first", offset |-> offset, size |-> size, data |-> data,
              curpos |-> offset, fpos |-> offset]

\* The first write does not depend on the condition of the loop.  The code
\* compares the signed position with an unsigned end: a position of -1 is past it.
WritesNext == wr.pc = "first" \/ (wr.pc = "loop" /\ wr.curpos >= 0 /\ wr.curpos < wr.offset + wr.size)

ExpectedWrite ==
    LesserOf(ONCE_MAX_READ_SIZE,
             IF wr.pc = "first" THEN wr.size ELSE wr.offset + wr.size - wr.curpos)

\* Mutant of WrittenByte: the data starts one byte late.
WrittenByteLate(k) == IF k + 1 <= Len(wr.data) THEN wr.data[k + 1] ELSE Garbage

\* Every write starts with the first byte of the data again: the pointer is not
\* moved on.
WrittenByte(k) == IF k <= Len(wr.data) THEN wr.data[k] ELSE Garbage

\* n bytes go to the position of the descriptor; curpos is the code's own count.
WriteReturns(n) ==
    /\ local' = [o \in DOMAIN local |->
                    IF o \in wr.fpos .. wr.fpos + n - 1 THEN WrittenByte(o - wr.fpos + 1)
                    ELSE local[o]]
    /\ wr' = [wr EXCEPT !.pc = "loop", !.curpos = wr.curpos + n, !.fpos = wr.fpos + n]
    /\ UNCHANGED <<path, fsize, rd, replies>>

Write == WritesNext /\ WriteReturns(ExpectedWrite) /\ UNCHANGED faults

ShortWrite ==
    /\ WritesNext
    /\ \E n \in 1 .. ExpectedWrite - 1 : WriteReturns(n)
    /\ Happens("short_write")

\* write returns -1, which is added to the position like any count.
FailedWrite ==
    /\ WritesNext
    /\ wr' = [wr EXCEPT !.pc = "loop", !.curpos = wr.curpos - 1]
    /\ Happens("failed_write")
    /\ UNCHANGED <<path, fsize, rd, replies, local>>
=============================================================================
