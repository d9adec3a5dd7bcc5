---------------------------- MODULE BlockTransfer ---------------------------
(***************************************************************************)
(* A resource from the entry of the sync table to the bytes on disk: the   *)
(* constructor of SyncRs cuts the announced size, each block is requested  *)
(* (ReqRsTask::sendRsReq), served (SyncService::handleReqResource with     *)
(* IoUtil and SyncIOReadMonitor) and saved (handleReplyResource).          *)
(* Which peer is asked for which block is the matter of module SyncEngine. *)
(***************************************************************************)
EXTENDS SyncRsCtor, IoUtil

VARIABLES todo,     \* the blocks not requested yet
          reqs,     \* requests under way: values of the header range
          saved     \* the blocks that handleReplyResource has reported as saved

transferVars == <<size, num, i, offset, block, pc, path, fsize, rd, replies, wr, local,
                  faults, todo, reqs, saved>>

\* Bound: the other sizes are only cut into blocks.
Transferred == size \in FileSizes

\* The entry has the size that the serving node has announced.
TransferInit ==
    /\ Init
    /\ IoInit
    /\ Transferred => fsize[path] = size
    /\ todo = {} /\ reqs = <<>> /\ saved = {}

Blocks == {block[k] : k \in 1 .. Len(block)}

\* The constructor, whose blocks can then be requested.
Ctor ==
    /\ Next
    /\ todo' = IF pc' = "done" /\ Transferred THEN {block'[k] : k \in 1 .. Len(block')} ELSE {}
    /\ UNCHANGED ioVars /\ UNCHANGED <<reqs, saved>>

tableVars == <<size, num, i, offset, block, pc>>

\* Mutant of SendRsReq: a block is asked for unless its start is 0.
SendRsReqUnlessFirst(b) ==
    /\ pc = "done" /\ b \in todo /\ b.start # 0
    /\ Len(reqs) < MaxQueue
    /\ todo' = todo \ {b}
    /\ reqs' = Append(reqs, RangeToString(NewRange(b.start, b.end - b.start)))
    /\ UNCHANGED <<tableVars, ioVars, saved>>

\* ReqRsTask::run asks for a block unless its end is 0 (the block of an empty file).
SendRsReq(b) ==
    /\ pc = "done" /\ b \in todo /\ b.end # 0
    /\ Len(reqs) < MaxQueue
    /\ todo' = todo \ {b}
    /\ reqs' = Append(reqs, RangeToString(NewRange(b.start, b.end - b.start)))
    /\ UNCHANGED <<tableVars, ioVars, saved>>

HandleReqResource ==
    /\ reqs # <<>>
    /\ ReadSize(RangeFromString(Head(reqs)), TRUE)
    /\ reqs' = Tail(reqs)
    /\ UNCHANGED <<tableVars, path, fsize, replies, wr, local, faults, todo, saved>>

\* The block of a reply, read from its content-range.
ReplyBlock(r) ==
    LET cr == ContentRangeFromString(r.content_range)
    IN Block(cr.start_pos, cr.start_pos + cr.size)

HandleReplyResource ==
    /\ replies # <<>>
    /\ LET b == ReplyBlock(Head(replies))
       IN WriteFile(b.start, b.end - b.start, Head(replies).data)
    /\ UNCHANGED <<tableVars, path, fsize, rd, replies, local, faults, todo, reqs, saved>>

\* saveLocal asks whether an unsigned count is negative: every write succeeds.
BlockSaved ==
    /\ replies' = Tail(replies)
    /\ saved' = saved \cup {ReplyBlock(Head(replies))}

SaveDone ==
    /\ wr.pc = "loop" /\ ~WritesNext
    /\ BlockSaved
    /\ wr' = NotWriting
    /\ UNCHANGED <<tableVars, path, fsize, rd, local, faults, todo, reqs>>

\* The file cannot be opened for writing: writeFile returns 0, a success.
SaveUnopened ==
    /\ wr.pc = "first"
    /\ BlockSaved
    /\ wr' = NotWriting
    /\ Happens("no_open")
    /\ UNCHANGED <<tableVars, path, fsize, rd, local, todo, reqs>>

Server == FileSize \/ Read \/ ReadDone
User == Replaced \/ Truncated \/ Removed
Client == Write
Faulty == ShortRead \/ ShortWrite \/ FailedWrite

TransferNext ==
    \/ Ctor
    \/ \E b \in Blocks : SendRsReq(b)
    \/ HandleReqResource
    \/ HandleReplyResource
    \/ SaveDone
    \/ SaveUnopened
    \/ /\ pc = "done" /\ Transferred
       /\ MdEncodeWithSHA3_512 \/ Server \/ Client \/ Faulty \/ User
       /\ UNCHANGED <<tableVars, todo, reqs, saved>>

\* The event loops of both nodes go on: a block is asked for in the end, a
\* request or reply that has arrived is handled, a system call returns.
TransferFairness ==
    /\ WF_transferVars(Ctor)
    /\ WF_transferVars(\E b \in Blocks : SendRsReq(b))
    /\ SF_transferVars(HandleReqResource)
    /\ WF_transferVars(HandleReplyResource)
    /\ WF_transferVars(SaveDone)
    /\ WF_transferVars(Server /\ UNCHANGED <<tableVars, todo, reqs, saved>>)
    /\ WF_transferVars(Client /\ UNCHANGED <<tableVars, todo, reqs, saved>>)

TransferSpec == TransferInit /\ [][TransferNext]_transferVars /\ TransferFairness
-----------------------------------------------------------------------------
BlockOffsets(b) == b.start .. b.end - 1

\* What is reported as saved was left in the file, whatever happens to the peer's
\* file and however short the reads are.  As long as no write fails, the offsets
\* written are those of the saved blocks and of the one being saved; as long as
\* none comes back short either (writeFile starts again with the first byte of its
\* data, lines 100 to 108), each holds the byte of that offset of a version of the
\* peer's file.
SavedIsExact ==
    faults \cap {"failed_write", "no_open"} = {} =>
        LET done == UNION {BlockOffsets(b) : b \in saved}
            now == wr.offset .. wr.curpos - 1
        IN \A o \in DOMAIN local :
              /\ local[o] # Hole <=> o \in done \cup now
              /\ (o \in done \cup now /\ "short_write" \notin faults)
                     => \E f \in File : local[o] = <<f, o>>

\* readSize never writes past the size bytes it has allocated, although the
\* range comes from the peer and the size of the file from the path.
BufferFits ==
    rd.pc = "loop" =>
        /\ rd.ret_len <= rd.range.size
        /\ rd.curpos < rd.end => rd.ret_len + ExpectedRead <= rd.range.size

\* The replies to one request with undisturbed reads are those of the closed
\* form Transfer, which module SyncEngine uses in place of this module.
RepliesAreTransfer ==
    faults \cap {"truncated", "short_read", "changed"} = {} =>
        \A k \in DOMAIN replies :
            \E b \in Blocks : ReplyBlock(replies[k]) \in Transfer(b.start, b.end, size)

Reading == rd.pc \in {"open", "loop"}

\* A call of readSize ends, also for a range past the end of the file, unless the
\* file was cut or the path left it while it was open: then read may return 0 for
\* ever and every round of the loop sends an empty reply.
ReadsEnd ==
    Reading ~> (~Reading \/ "truncated" \in faults \/ rd.fd # path)

Complete ==
    /\ Blocks \subseteq saved
    /\ \A o \in DOMAIN local : local[o] = IF o < size THEN <<path, o>> ELSE Hole

\* Unless something went wrong on the way, a file that is not empty arrives
\* whole: every block of the entry is reported as saved and the file of the
\* fetching node equals that of the serving node.
FileArrives ==
    (pc = "done" /\ Transferred /\ size > 0) ~> (Complete \/ faults # {})
=============================================================================
