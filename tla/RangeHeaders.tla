----------------------------- MODULE RangeHeaders ---------------------------
(***************************************************************************)
(* The values of the headers range and content-range: the numbers their    *)
(* separators keep apart.  A Range without an end has size 0.              *)
(***************************************************************************)
EXTENDS Integers, Sequences

NewRange(start_pos, size) == [start_pos |-> start_pos, size |-> size]

NewContentRange(start_pos, size, total_size, is_last) ==
    [start_pos |-> start_pos, size |-> size, total_size |-> total_size, is_last |-> is_last]

RangeToString(r) ==
    IF r.size = 0 THEN <<r.start_pos>> ELSE <<r.start_pos, r.start_pos + r.size>>

RangeFromString(s) == NewRange(s[1], IF Len(s) = 1 THEN 0 ELSE s[2] - s[1])

ContentRangeToString(cr) == <<cr.start_pos, cr.start_pos + cr.size, cr.total_size, cr.is_last>>

ContentRangeFromString(s) == NewContentRange(s[1], s[2] - s[1], s[3], s[4])

\* readSize and SyncIOReadMonitor: the content-range of the one reply to a range,
\* since a block is smaller than ONCE_MAX_READ_SIZE; no bytes, no reply.
\* The total is rs->size, here the file's; the receiver uses neither it nor is_last.
Serve(range, file_size) ==
    LET end == IF range.start_pos + range.size < file_size
               THEN range.start_pos + range.size ELSE file_size
        data_len == end - range.start_pos
    IN IF data_len <= 0 THEN {}
       ELSE {ContentRangeToString(NewContentRange(range.start_pos, data_len, file_size,
                                                  range.size = data_len))}

\* From sendRsReq to the block that handleReplyResource saves and closes.
Transfer(start, end, file_size) ==
    LET Closed(s) == LET cr == ContentRangeFromString(s)
                     IN [start |-> cr.start_pos, end |-> cr.start_pos + cr.size]
        range == RangeFromString(RangeToString(NewRange(start, end - start)))
    IN {Closed(s) : s \in Serve(range, file_size)}
=============================================================================
