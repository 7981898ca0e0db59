----------------------------- MODULE SpillBuffer -----------------------------
(***************************************************************************)
(* The spillable byte buffer behind script pipes and captures              *)
(* (crates/sys/oxdock-pipe/src/spill.rs): bytes stay in memory until a     *)
(* threshold, then move to a temporary file that is written at write_pos   *)
(* and read at read_pos, and is truncated only when it has been drained.   *)
(* Every operation runs under the buffer's mutex, so each is one action.   *)
(* The file system may fail any call: a write may stop half way, a read    *)
(* may be short, the truncation may fail after the positions were reset.   *)
(***************************************************************************)
EXTENDS Integers, Sequences

CONSTANTS
    Byte,           \* byte values
    MaxPush,        \* longest slice passed to push_bytes
    MaxRead,        \* largest buffer passed to read_into
    SpillThreshold, \* spill_threshold
    MaxBacklog,     \* max_backlog
    MaxAccepted     \* bound of the model: bytes accepted in a behaviour

ASSUME SpillAssumption ==
    /\ MaxPush \in Nat
    /\ MaxRead \in Nat
    /\ SpillThreshold \in Nat
    /\ MaxBacklog \in Nat
    /\ MaxAccepted \in Nat

VARIABLES
    mode,       \* SpillInner: "Memory" or "Disk"
    mem,        \* the VecDeque
    file,       \* the content of the spill file
    writePos,   \* write_pos
    readPos,    \* read_pos
    accepted,   \* history: every byte a successful push took
    delivered,  \* history: every byte a successful read returned
    consumed    \* history: how many bytes reads removed

bufVars == <<mode, mem, file, writePos, readPos>>
vars == <<mode, mem, file, writePos, readPos, accepted, delivered, consumed>>

-----------------------------------------------------------------------------
(* The data                                                                *)

Data == UNION {[1..n -> Byte] : n \in 0..MaxPush}

\* The file after data was written at offset pos.
Overwrite(f, pos, data) ==
    LET end == pos + Len(data)
    IN  [i \in 1..(IF end > Len(f) THEN end ELSE Len(f)) |->
            IF i > pos /\ i <= end THEN data[i - pos] ELSE f[i]]

\* What a reader would still get.
Unread ==
    IF mode = "Memory" THEN mem ELSE SubSeq(file, readPos + 1, writePos)

\* buffered_bytes
BufferedBytes == IF mode = "Memory" THEN Len(mem) ELSE writePos - readPos

\* Mutated form: the file is re-read from its start for as many bytes as are
\* buffered.
PeekBytesBuffered ==
    IF mode = "Memory" THEN mem ELSE SubSeq(file, 1, writePos - readPos)

\* peek_bytes: the disk variant re-reads the file from offset 0.
PeekBytes == IF mode = "Memory" THEN mem ELSE SubSeq(file, 1, writePos)

-----------------------------------------------------------------------------
Init ==
    /\ mode = "Memory"
    /\ mem = <<>>
    /\ file = <<>>
    /\ writePos = 0
    /\ readPos = 0
    /\ accepted = <<>>
    /\ delivered = <<>>
    /\ consumed = 0

Accept(data) ==
    /\ Len(accepted) + Len(data) =< MaxAccepted
    /\ accepted' = accepted \o data
    /\ UNCHANGED <<delivered, consumed>>

-----------------------------------------------------------------------------
(* push_bytes                                                              *)

PushMemory(data) ==
    /\ mode = "Memory"
    /\ Len(mem) + Len(data) =< SpillThreshold
    /\ mem' = mem \o data
    /\ Accept(data)
    /\ UNCHANGED <<mode, file, writePos, readPos>>

\* Past the threshold create_from_vec moves everything to a new file.
Spill(data) ==
    /\ mode = "Memory"
    /\ Len(mem) + Len(data) > SpillThreshold
    /\ mode' = "Disk"
    /\ file' = mem \o data
    /\ writePos' = Len(mem) + Len(data)
    /\ readPos' = 0
    /\ mem' = <<>>
    /\ Accept(data)

\* create_from_vec failed: the vector is truncated to its original length.
SpillFails(data) ==
    /\ mode = "Memory"
    /\ Len(mem) + Len(data) > SpillThreshold
    /\ mem' = SubSeq(mem \o data, 1, Len(mem))
    /\ UNCHANGED <<mode, file, writePos, readPos, accepted, delivered, consumed>>

WriteBytes(data) ==
    /\ mode = "Disk"
    /\ (writePos - readPos) + Len(data) =< MaxBacklog
    /\ file' = Overwrite(file, writePos, data)
    /\ writePos' = writePos + Len(data)
    /\ Accept(data)
    /\ UNCHANGED <<mode, mem, readPos>>

\* write_all fails after a prefix reached the file; write_pos stays.
WriteBytesFails(data, k) ==
    /\ mode = "Disk"
    /\ (writePos - readPos) + Len(data) =< MaxBacklog
    /\ file' = Overwrite(file, writePos, SubSeq(data, 1, k))
    /\ UNCHANGED <<mode, mem, writePos, readPos, accepted, delivered, consumed>>

-----------------------------------------------------------------------------
(* read_into with a buffer of n bytes                                      *)

\* Mutated form: the bytes copied out are not removed from the vector.
ReadMemoryKeepsBytes(n) ==
    LET k == IF n < Len(mem) THEN n ELSE Len(mem)
    IN  /\ mode = "Memory"
        /\ k > 0
        /\ Len(delivered) < MaxAccepted
        /\ delivered' = delivered \o SubSeq(mem, 1, k)
        /\ mem' = mem
        /\ consumed' = consumed + k
        /\ UNCHANGED <<mode, file, writePos, readPos, accepted>>

ReadMemory(n) ==
    LET k == IF n < Len(mem) THEN n ELSE Len(mem)
    IN  /\ mode = "Memory"
        /\ k > 0
        /\ delivered' = delivered \o SubSeq(mem, 1, k)
        /\ mem' = SubSeq(mem, k + 1, Len(mem))
        /\ consumed' = consumed + k
        /\ UNCHANGED <<mode, file, writePos, readPos, accepted>>

\* The file returns k bytes, at most n and fewer than are available.
ReadBytes(n, k) ==
    /\ mode = "Disk"
    /\ k =< n
    /\ k < writePos - readPos
    /\ delivered' = delivered \o SubSeq(file, readPos + 1, readPos + k)
    /\ readPos' = readPos + k
    /\ consumed' = consumed + k
    /\ UNCHANGED <<mode, mem, file, writePos, accepted>>

\* The read takes all that is available: both positions and the file reset.
ReadLastBytes(n) ==
    /\ mode = "Disk"
    /\ writePos > readPos
    /\ writePos - readPos =< n
    /\ delivered' = delivered \o SubSeq(file, readPos + 1, writePos)
    /\ consumed' = consumed + (writePos - readPos)
    /\ readPos' = 0
    /\ writePos' = 0
    /\ file' = <<>>
    /\ UNCHANGED <<mode, mem, accepted>>

\* As above, but set_len (or the seek after it) fails: the positions were
\* already reset and the caller gets the error instead of the bytes.
ReadLastBytesFails(n) ==
    /\ mode = "Disk"
    /\ writePos > readPos
    /\ writePos - readPos =< n
    /\ consumed' = consumed + (writePos - readPos)
    /\ readPos' = 0
    /\ writePos' = 0
    /\ file' \in {file, <<>>}
    /\ UNCHANGED <<mode, mem, accepted, delivered>>

-----------------------------------------------------------------------------
PushBytes(data) ==
    \/ PushMemory(data)
    \/ Spill(data)
    \/ SpillFails(data)
    \/ WriteBytes(data)
    \/ \E k \in 0..(Len(data) - 1) : WriteBytesFails(data, k)

ReadInto(n) ==
    \/ ReadMemory(n)
    \/ \E k \in 1..MaxRead : ReadBytes(n, k)
    \/ ReadLastBytes(n)
    \/ ReadLastBytesFails(n)

Next ==
    \/ \E data \in Data : PushBytes(data)
    \/ \E n \in 1..MaxRead : ReadInto(n)

Spec == Init /\ [][Next]_vars

-----------------------------------------------------------------------------
(* Properties                                                              *)

\* The values of the variables; the positions are unsigned.
TypeOK ==
    /\ mode \in {"Memory", "Disk"}
    /\ mem \in Seq(Byte)
    /\ file \in Seq(Byte)
    /\ writePos \in Nat
    /\ readPos \in Nat
    /\ accepted \in Seq(Byte)
    /\ delivered \in Seq(Byte)
    /\ consumed \in Nat

\* The unread bytes are exactly the accepted ones that no read removed yet,
\* in order: across the move to disk, failed and half-written pushes, stale
\* bytes left in the file, short reads and the reset of both positions.
Fifo ==
    /\ consumed + BufferedBytes = Len(accepted)
    /\ \A i \in 1..BufferedBytes : Unread[i] = accepted[consumed + i]

\* The positions never leave the written part of the file: write_pos -
\* read_pos in write_bytes and read_bytes cannot underflow, a read never
\* runs past the end of the file, and a drained file starts again at 0.
PositionsInFile ==
    mode = "Disk" =>
        /\ readPos =< writePos
        /\ writePos =< Len(file)
        /\ readPos = writePos => writePos = 0

\* peek_bytes never misses a buffered byte: what it returns ends with the
\* unread bytes, in order.  (On disk, bytes that were already read may come
\* before them.)
PeekEndsWithUnread ==
    LET skip == Len(PeekBytes) - BufferedBytes
    IN  /\ skip >= 0
        /\ \A i \in 1..BufferedBytes : PeekBytes[skip + i] = Unread[i]

\* The buffer implements the abstract byte queue.
Q == INSTANCE ByteQueue WITH queue <- Unread
QueueSpec == Q!Spec

=============================================================================
