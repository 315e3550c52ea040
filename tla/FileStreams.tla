----------------------------- MODULE FileStreams -----------------------------
(***************************************************************************)
(* UnifexOutputStream and UnifexInputStream: a file written and then read  *)
(* with two buffers each, one with the client while the other is with      *)
(* io_uring.  Byte k that the client commits has the value k: as the       *)
(* header's comments ask, it calls Next and, with what it did not use,     *)
(* Backup; bytes of a chunk without Backup are not counted as written.     *)
(***************************************************************************)
EXTENDS Naturals, Sequences

CONSTANTS
    BufSize,    \* buffer_size
    MaxBytes    \* bound on the bytes written

VARIABLES
    file,       \* the file's bytes; 0: never written
    short,      \* io_uring transferred less than it was asked to
    out,        \* the output stream
    in,         \* the input stream
    produced,   \* bytes the client has written
    consumed    \* the bytes the client has read or skipped

fsVars == <<file, short, out, in, produced, consumed>>

Idle == [op |-> "none"]
Bufs == 0 .. 1
Other(b) == 1 - b
Least(a, b) == IF a < b THEN a ELSE b
Blank == [i \in 1 .. BufSize |-> 0]

\* span: bytes left in current_span_, which ends where the buffer does.
FsInit ==
    /\ file = <<>>
    /\ short = FALSE
    /\ out = [at |-> "idle", data |-> [b \in Bufs |-> Blank],
              future |-> [b \in Bufs |-> Idle], active |-> 0,
              span |-> BufSize, byteCount |-> 0, offset |-> 0]
    /\ in = [at |-> "unborn", data |-> [b \in Bufs |-> Blank],
             future |-> [b \in Bufs |-> Idle], len |-> [b \in Bufs |-> 0],
             pos |-> [b \in Bufs |-> 0], active |-> 0, chunk |-> 0,
             skip |-> 0, byteCount |-> 0, offset |-> 0]
    /\ produced = 0
    /\ consumed = <<>>

-----------------------------------------------------------------------------
(* Writing.                                                                *)

\* submit_buffer.
Submitted(o, b, size) ==
    IF size = 0 THEN o
    ELSE [o EXCEPT !.future[b] = [op |-> "write", off |-> o.offset,
                                  size |-> size],
                   !.offset = @ + size]

\* wait_for_buffer has nothing to wait for any more.
Written(b) == out.future[b] = Idle

\* A second Next without Backup gives the same chunk again: what was put in
\* the first is not part of the stream.
OutNext ==
    /\ out.at \in {"idle", "chunk"}
    /\ \/ out.span > 0 /\ out' = [out EXCEPT !.at = "chunk"]
       \/ /\ out.span = 0 /\ Written(Other(out.active))
          /\ out' = [Submitted(out, out.active, BufSize) EXCEPT
                       !.byteCount = @ + BufSize, !.active = Other(@),
                       !.span = BufSize, !.at = "chunk"]
    /\ UNCHANGED <<file, short, in, produced, consumed>>

\* The client has filled all but len bytes of the chunk.
OutBackup(len) ==
    LET n == out.span - len
        first == BufSize - out.span
    IN /\ out.at = "chunk" /\ len <= out.span
       /\ produced + n <= MaxBytes
       /\ produced' = produced + n
       /\ out' = [out EXCEPT
            !.data[out.active] = [i \in 1 .. BufSize |->
               IF i \in first + 1 .. first + n THEN produced + i - first
               ELSE @[i]],
            !.span = len, !.at = "idle"]
       /\ UNCHANGED <<file, short, in, consumed>>

OutByteCount == out.byteCount + (BufSize - out.span)

\* Flush, by the client or by the destructor, up to its last waits.
FlushSubmits(at) ==
    LET remaining == BufSize - out.span
    IN /\ out.at = "idle"
       /\ remaining > 0 => Written(Other(out.active))
       /\ out' = [Submitted(out, out.active, remaining) EXCEPT !.at = at]
       /\ UNCHANGED <<file, short, in, produced, consumed>>

\* Mutant: the last waits are forgotten.
FlushReturnsUnwaited ==
    /\ out.at \in {"flushing", "closing"}
    /\ out' = [out EXCEPT !.byteCount = OutByteCount, !.span = BufSize,
                 !.at = IF out.at = "flushing" THEN "idle" ELSE "destroyed"]
    /\ UNCHANGED <<file, short, in, produced, consumed>>

FlushReturns ==
    /\ out.at \in {"flushing", "closing"}
    /\ \A b \in Bufs : Written(b)
    /\ out' = [out EXCEPT !.byteCount = OutByteCount, !.span = BufSize,
                 !.at = IF out.at = "flushing" THEN "idle" ELSE "destroyed"]
    /\ UNCHANGED <<file, short, in, produced, consumed>>

\* async_write_some_at: n bytes, as the buffer holds them now.  The number is
\* not looked at.
WriteDone(b, n) ==
    LET w == out.future[b]
        end == w.off + n
    IN /\ w.op = "write" /\ n \in 1 .. w.size
       /\ file' = [i \in 1 .. IF Len(file) > end THEN Len(file) ELSE end |->
                     IF i \in w.off + 1 .. end THEN out.data[b][i - w.off]
                     ELSE IF i <= Len(file) THEN file[i] ELSE 0]
       /\ out' = [out EXCEPT !.future[b] = Idle]
       /\ short' = (short \/ n < w.size)
       /\ UNCHANGED <<in, produced, consumed>>

\* The wait for it throws, and Save reports an I/O error.
WriteFails(b) ==
    /\ out.future[b].op = "write"
    /\ out' = [out EXCEPT !.at = "failed", !.future[b] = Idle]
    /\ UNCHANGED <<file, short, in, produced, consumed>>

-----------------------------------------------------------------------------
(* Reading.                                                                *)

\* prefetch_buffer.
Prefetched(i, b) ==
    [i EXCEPT !.future[b] = [op |-> "read", off |-> i.offset],
              !.offset = @ + BufSize]

InOpen ==
    /\ in.at = "unborn" /\ out.at = "destroyed"
    /\ in' = [Prefetched(Prefetched(in, 0), 1) EXCEPT !.at = "idle"]
    /\ UNCHANGED <<file, short, out, produced, consumed>>

\* wait_for_buffer_ready, once there is nothing to wait for.
Waited(i, b) ==
    IF i.future[b] = Idle THEN i
    ELSE [i EXCEPT !.len[b] = i.future[b].n, !.pos[b] = 0, !.future[b] = Idle]

Ready(i, b) == i.future[b].op # "read"

\* What is left in the active buffer.
Given(i) ==
    LET n == i.len[i.active] - i.pos[i.active]
    IN [i EXCEPT !.pos[i.active] = i.len[i.active], !.chunk = n,
                 !.byteCount = @ + n, !.at = "chunk"]

Ended(i) == [i EXCEPT !.at = "eof", !.skip = 0]

InNext ==
    LET a == in.active
        i == Waited(in, a)
    IN /\ in.at = "idle" /\ Ready(in, a)
       /\ in' = IF i.pos[a] < i.len[a] THEN Given(i)
                ELSE IF i.len[a] < BufSize THEN Ended(i)
                ELSE [Prefetched(i, a) EXCEPT !.active = Other(a),
                                              !.at = "switched"]
       /\ UNCHANGED <<file, short, out, produced, consumed>>

\* The rest of Next after it has changed buffers.
InNextSwitched ==
    LET a == in.active
        i == Waited(in, a)
    IN /\ in.at = "switched" /\ Ready(in, a)
       /\ in' = IF i.pos[a] < i.len[a] THEN Given(i) ELSE Ended(i)
       /\ UNCHANGED <<file, short, out, produced, consumed>>

\* The client or Skip gives back the last k bytes of the chunk.
InBackup(k) ==
    LET a == in.active
        n == in.chunk - k
        first == in.len[a] - in.chunk
    IN /\ in.at = "chunk" /\ k <= in.chunk
       /\ in.skip > 0 => n = Least(in.skip, in.chunk)
       /\ consumed' = consumed \o SubSeq(in.data[a], first + 1, first + n)
       /\ in' = [in EXCEPT !.pos[a] = @ - k, !.byteCount = @ - k,
                           !.chunk = 0, !.at = "idle",
                           !.skip = IF @ > 0 THEN @ - n ELSE 0]
       /\ UNCHANGED <<file, short, out, produced>>

\* The loop of Skip is InNext and InBackup until skip is 0.
Skip(len) ==
    /\ in.at = "idle" /\ in.skip = 0 /\ len > 0
    /\ in' = [in EXCEPT !.skip = len]
    /\ UNCHANGED <<file, short, out, produced, consumed>>

\* async_read_some_at: n bytes, none at the end of the file.  A cancelled read
\* is taken for the end, too.
ReadDone(b, n) ==
    LET off == in.future[b].off
        there == IF off < Len(file) THEN Least(BufSize, Len(file) - off) ELSE 0
    IN /\ in.future[b].op = "read"
       /\ n <= there
       /\ in' = [in EXCEPT
            !.data[b] = [i \in 1 .. BufSize |->
                           IF i <= n THEN file[off + i] ELSE @[i]],
            !.future[b] = [op |-> "done", n |-> n]]
       /\ short' = (short \/ n < there)
       /\ UNCHANGED <<file, out, produced, consumed>>

\* wait_for_buffer_ready throws for a failed read: Load reports an I/O error
\* and the stream is given up.
ReadFails ==
    /\ in.at \in {"idle", "switched"}
    /\ in.future[in.active].op = "read"
    /\ in' = [in EXCEPT !.at = "failed", !.future = [b \in Bufs |-> Idle]]
    /\ UNCHANGED <<file, short, out, produced, consumed>>

FsNext ==
    \/ OutNext
    \/ \E len \in 0 .. BufSize : OutBackup(len)
    \/ \E at \in {"flushing", "closing"} : FlushSubmits(at)
    \/ FlushReturns
    \/ \E b \in Bufs : WriteFails(b)
    \/ \E b \in Bufs, n \in 0 .. BufSize : WriteDone(b, n) \/ ReadDone(b, n)
    \/ InOpen
    \/ ReadFails
    \/ InNext
    \/ InNextSwitched
    \/ \E k \in 0 .. BufSize : InBackup(k)
    \/ \E len \in 1 .. BufSize + 1 : Skip(len)

-----------------------------------------------------------------------------
Upto(n) == [i \in 1 .. n |-> i]

\* However chunks, flushes and transfers interleave, the file ends up with the
\* bytes the client wrote, in order, and a reader gets these bytes, in order
\* and to the last, with ByteCount right throughout (Next, Backup, Flush, Skip
\* of both streams); if io_uring transferred less than asked, what is read is
\* still a prefix of the file.
BytesInOrder ==
    /\ out.at # "failed" => OutByteCount = produced
    /\ \A i \in DOMAIN consumed : consumed[i] = file[i]
    /\ in.at \in {"idle", "eof"} => in.byteCount = Len(consumed)
    /\ ~short => /\ out.at = "destroyed" => file = Upto(produced)
                 /\ in.at = "eof" => Len(consumed) = produced

=============================================================================
