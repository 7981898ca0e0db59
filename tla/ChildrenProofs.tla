--------------------------- MODULE ChildrenProofs ---------------------------
(***************************************************************************)
(* Proofs about child processes and the buffers their output goes through. *)
(*                                                                         *)
(* SpillBuffer, for any threshold, cap and slice length: the positions     *)
(* stay in the file, and what is unread is exactly what was accepted and   *)
(* not yet removed.                                                        *)
(*                                                                         *)
(* Process, for any commands, forks, chunks and bindings: a kill misses no *)
(* process, and a RUN that returned has forwarded what its process tree    *)
(* wrote.                                                                  *)
(***************************************************************************)
EXTENDS SpillBuffer, Process, FiniteSetTheorems, TLAPS

-----------------------------------------------------------------------------
(* The spill buffer *)

\* The unread bytes, wherever they are stored.
UnreadAt(i) == IF mode = "Memory" THEN mem[i] ELSE file[readPos + i]

\* Fifo, said of the stored bytes.
StoredFifo ==
    /\ consumed + BufferedBytes = Len(accepted)
    /\ \A i \in 1..BufferedBytes : UnreadAt(i) = accepted[consumed + i]

IInv == TypeOK /\ PositionsInFile /\ StoredFifo

-----------------------------------------------------------------------------
(* Sequences                                                               *)

\* A slice is a sequence of bytes.
LEMMA DataIsSeq ==
    ASSUME NEW data \in Data
    PROVE  data \in Seq(Byte)
  BY SpillAssumption DEF Data

\* A concatenation keeps the first sequence in place and puts the second
\* behind it.
LEMMA Concatenation ==
    ASSUME NEW s \in Seq(Byte), NEW t \in Seq(Byte)
    PROVE  /\ s \o t \in Seq(Byte)
           /\ Len(s \o t) = Len(s) + Len(t)
           /\ \A i \in 1..Len(s) : (s \o t)[i] = s[i]
           /\ \A i \in 1..Len(t) : (s \o t)[Len(s) + i] = t[i]
  OBVIOUS

\* A slice of a sequence.
LEMMA Slice ==
    ASSUME NEW s \in Seq(Byte), NEW m \in Nat, NEW n \in Nat, m =< n, n =< Len(s)
    PROVE  /\ SubSeq(s, m + 1, n) \in Seq(Byte)
           /\ Len(SubSeq(s, m + 1, n)) = n - m
           /\ \A i \in 1..(n - m) : SubSeq(s, m + 1, n)[i] = s[m + i]
  OBVIOUS

\* A write at pos leaves what is before it alone.
LEMMA OverwriteKeepsPrefix ==
    ASSUME NEW f \in Seq(Byte), NEW pos \in 0..Len(f), NEW data \in Seq(Byte)
    PROVE  /\ Overwrite(f, pos, data) \in Seq(Byte)
           /\ Len(Overwrite(f, pos, data)) >= pos + Len(data)
           /\ Len(Overwrite(f, pos, data)) >= Len(f)
           /\ \A i \in 1..pos : Overwrite(f, pos, data)[i] = f[i]
           /\ \A i \in 1..Len(data) : Overwrite(f, pos, data)[pos + i] = data[i]
<1> DEFINE end == pos + Len(data)
           len == IF end > Len(f) THEN end ELSE Len(f)
<1>1. len \in Nat /\ len >= end /\ len >= Len(f)
  OBVIOUS
<1>2. ASSUME NEW i \in 1..len
      PROVE  (IF i > pos /\ i <= end THEN data[i - pos] ELSE f[i]) \in Byte
  BY <1>2
<1>3. Overwrite(f, pos, data) =
        [i \in 1..len |-> IF i > pos /\ i <= end THEN data[i - pos] ELSE f[i]]
  BY Zenon DEF Overwrite
<1>4. Overwrite(f, pos, data) \in [1..len -> Byte]
  BY ZenonT(60), <1>2, <1>3
<1>5. Overwrite(f, pos, data) \in Seq(Byte) /\ Len(Overwrite(f, pos, data)) = len
  BY SMTT(60), <1>1, <1>4
<1> QED
  BY SMTT(60), <1>1, <1>3, <1>5

\* The len bytes of f behind off are the bytes of acc behind c.
InStep(f, off, len, acc, c) == \A i \in 1..len : f[off + i] = acc[c + i]

\* g is f with data stored behind the len bytes behind off.
Stores(g, f, off, len, data) ==
    /\ \A i \in 1..len : g[off + i] = f[off + i]
    /\ \A j \in 1..Len(data) : g[off + len + j] = data[j]

\* Storing data behind the unread bytes keeps them in step with accepted.
LEMMA AppendInStep ==
    ASSUME NEW acc \in Seq(Byte), NEW data \in Seq(Byte), NEW c \in Nat,
           NEW len \in Nat, c + len = Len(acc), NEW off \in Nat, NEW f, NEW g,
           InStep(f, off, len, acc, c), Stores(g, f, off, len, data)
    PROVE  InStep(g, off, len + Len(data), acc \o data, c)
<1> USE DEF InStep, Stores
<1> SUFFICES ASSUME NEW i \in 1..(len + Len(data))
             PROVE  g[off + i] = (acc \o data)[c + i]
  BY Zenon DEF InStep
<1>1. CASE i =< len
  <2>1. i \in 1..len /\ c + i \in 1..Len(acc)
    BY SMTT(60), <1>1
  <2> QED
    BY ZenonT(60), <2>1, Concatenation
<1>2. CASE i > len
  <2>1. i - len \in 1..Len(data) /\ off + i = off + len + (i - len)
    BY SMTT(60), <1>2
  <2>2. g[off + i] = data[i - len]
    BY Zenon, <2>1
  <2>3. (acc \o data)[Len(acc) + (i - len)] = data[i - len]
    BY ZenonT(60), <2>1, Concatenation
  <2>4. Len(acc) + (i - len) = c + i
    <3>1. i \in Int /\ Len(data) \in Nat
      OBVIOUS
    <3> QED
      BY SMTT(60), <3>1
  <2> QED
    BY ZenonT(60), <2>2, <2>3, <2>4
<1> QED
  BY <1>1, <1>2

-----------------------------------------------------------------------------
(* The steps                                                               *)

\* A push that fits in memory.
LEMMA PushMemoryStep ==
    ASSUME IInv, NEW data \in Data, PushMemory(data)
    PROVE  IInv'
<1> USE DEF IInv, PushMemory, Accept
<1>1. TypeOK' /\ PositionsInFile'
  BY ZenonT(60), DataIsSeq, Concatenation DEF TypeOK, PositionsInFile
<1>2. StoredFifo'
  <2>1. /\ data \in Seq(Byte) /\ mem \in Seq(Byte) /\ accepted \in Seq(Byte)
        /\ consumed \in Nat /\ consumed + Len(mem) = Len(accepted)
    BY ZenonT(60), DataIsSeq DEF TypeOK, StoredFifo, BufferedBytes
  <2>2. InStep(mem, 0, Len(mem), accepted, consumed)
    BY SMTT(60), <2>1 DEF StoredFifo, BufferedBytes, UnreadAt, InStep
  <2>3. Stores(mem \o data, mem, 0, Len(mem), data)
    BY SMTT(60), <2>1, Concatenation DEF Stores
  <2>4. InStep(mem \o data, 0, Len(mem) + Len(data), accepted \o data, consumed)
    BY SMTT(60), <2>1, <2>2, <2>3, AppendInStep
  <2>5. BufferedBytes' = Len(mem) + Len(data)
    BY Zenon, <2>1, Concatenation DEF BufferedBytes
  <2>6. \A i \in 1..(Len(mem) + Len(data)) : UnreadAt(i)' = (mem \o data)[0 + i]
    BY <2>1 DEF UnreadAt
  <2>7. consumed' + BufferedBytes' = Len(accepted')
    <3>1. /\ consumed' = consumed /\ Len(accepted') = Len(accepted) + Len(data)
          /\ Len(mem) \in Nat /\ Len(data) \in Nat
      BY SMTT(60), <2>1, Concatenation
    <3>2. consumed + (Len(mem) + Len(data)) = (consumed + Len(mem)) + Len(data)
      BY SMTT(60), <2>1, <3>1
    <3> QED
      BY ZenonT(60), <2>1, <2>5, <3>1, <3>2
  <2>8. \A i \in 1..BufferedBytes' : UnreadAt(i)' = accepted'[consumed' + i]
    BY ZenonT(60), <2>4, <2>5, <2>6 DEF InStep
  <2> QED
    BY ZenonT(60), <2>7, <2>8 DEF StoredFifo
<1> QED
  BY ZenonT(60), <1>1, <1>2

\* The push that moves everything to disk.
LEMMA SpillStep ==
    ASSUME IInv, NEW data \in Data, Spill(data)
    PROVE  IInv'
<1> USE DEF IInv, Spill, Accept
<1>1. TypeOK'
  BY SMTT(60), DataIsSeq, Concatenation DEF TypeOK
<1>2. PositionsInFile'
  BY SMTT(60), DataIsSeq, Concatenation, SpillAssumption DEF TypeOK,
     PositionsInFile
<1>3. StoredFifo'
  <2>1. /\ data \in Seq(Byte) /\ mem \in Seq(Byte) /\ accepted \in Seq(Byte)
        /\ consumed \in Nat /\ consumed + Len(mem) = Len(accepted)
    BY ZenonT(60), DataIsSeq DEF TypeOK, StoredFifo, BufferedBytes
  <2>2. InStep(mem, 0, Len(mem), accepted, consumed)
    BY SMTT(60), <2>1 DEF StoredFifo, BufferedBytes, UnreadAt, InStep
  <2>3. Stores(mem \o data, mem, 0, Len(mem), data)
    BY SMTT(60), <2>1, Concatenation DEF Stores
  <2>4. InStep(mem \o data, 0, Len(mem) + Len(data), accepted \o data, consumed)
    BY SMTT(60), <2>1, <2>2, <2>3, AppendInStep
  <2>5. BufferedBytes' = Len(mem) + Len(data)
    BY SMTT(60), <2>1, Concatenation DEF BufferedBytes
  <2>6. \A i \in 1..(Len(mem) + Len(data)) : UnreadAt(i)' = (mem \o data)[0 + i]
    BY Zenon, <2>1 DEF UnreadAt
  <2>7. consumed' + BufferedBytes' = Len(accepted')
    <3>1. /\ consumed' = consumed /\ Len(accepted') = Len(accepted) + Len(data)
          /\ Len(mem) \in Nat /\ Len(data) \in Nat
      BY SMTT(60), <2>1, Concatenation
    <3>2. consumed + (Len(mem) + Len(data)) = (consumed + Len(mem)) + Len(data)
      BY SMTT(60), <2>1, <3>1
    <3> QED
      BY ZenonT(60), <2>1, <2>5, <3>1, <3>2
  <2>8. \A i \in 1..BufferedBytes' : UnreadAt(i)' = accepted'[consumed' + i]
    BY ZenonT(60), <2>4, <2>5, <2>6 DEF InStep
  <2> QED
    BY ZenonT(60), <2>7, <2>8 DEF StoredFifo
<1> QED
  BY Zenon, <1>1, <1>2, <1>3

\* The vector is truncated back to what it held.
LEMMA SpillFailsStep ==
    ASSUME IInv, NEW data \in Data, SpillFails(data)
    PROVE  IInv'
<1> USE DEF IInv, SpillFails
<1>1. /\ mem' \in Seq(Byte) /\ Len(mem') = Len(mem)
      /\ \A i \in 1..Len(mem) : mem'[i] = mem[i]
  <2>1. mem \o data \in Seq(Byte) /\ Len(mem \o data) = Len(mem) + Len(data)
    BY Zenon, DataIsSeq, Concatenation DEF TypeOK
  <2>2. mem' = SubSeq(mem \o data, 0 + 1, Len(mem)) /\ Len(data) \in Nat
    BY SMTT(60), DataIsSeq
  <2> QED
    BY SMTT(60), <2>1, <2>2, DataIsSeq, Concatenation, Slice DEF TypeOK
<1>2. TypeOK' /\ PositionsInFile'
  BY Zenon, <1>1 DEF TypeOK, PositionsInFile
<1>3. StoredFifo'
  BY ZenonT(60), <1>1 DEF TypeOK, StoredFifo, BufferedBytes, UnreadAt
<1> QED
  BY Zenon, <1>2, <1>3

\* A write behind the unread bytes.
LEMMA WriteBytesStep ==
    ASSUME IInv, NEW data \in Data, WriteBytes(data)
    PROVE  IInv'
<1> USE DEF IInv, WriteBytes, Accept
<1>1. data \in Seq(Byte) /\ writePos \in 0..Len(file)
  BY DataIsSeq DEF TypeOK, PositionsInFile
<1>2. /\ file' \in Seq(Byte) /\ Len(file') >= writePos + Len(data)
      /\ \A i \in 1..writePos : file'[i] = file[i]
      /\ \A i \in 1..Len(data) : file'[writePos + i] = data[i]
  BY ZenonT(60), <1>1, OverwriteKeepsPrefix DEF TypeOK
<1>3. TypeOK' /\ PositionsInFile'
  BY SMTT(60), <1>1, <1>2, Concatenation DEF TypeOK, PositionsInFile
<1>4. StoredFifo'
  <2> DEFINE len == writePos - readPos
  <2>1. /\ accepted \in Seq(Byte) /\ consumed \in Nat /\ readPos \in Nat
        /\ len \in Nat /\ readPos + len = writePos
        /\ consumed + len = Len(accepted) /\ BufferedBytes = len
    BY DEF TypeOK, PositionsInFile, StoredFifo, BufferedBytes
  <2>2. InStep(file, readPos, len, accepted, consumed)
    BY ZenonT(60), <2>1 DEF StoredFifo, UnreadAt, InStep
  <2>3. \A i \in 1..len : readPos + i \in 1..writePos
    BY SMTT(60), <2>1
  <2>4. Stores(file', file, readPos, len, data)
    BY ZenonT(60), <1>2, <2>1, <2>3 DEF Stores
  <2>5. BufferedBytes' = len + Len(data)
    BY SMTT(60), <1>1, <2>1 DEF BufferedBytes
  <2> HIDE DEF len
  <2>6. InStep(file', readPos, len + Len(data), accepted \o data, consumed)
    BY ZenonT(60), <1>1, <2>1, <2>2, <2>4, AppendInStep
  <2>7. \A i \in 1..(len + Len(data)) : UnreadAt(i)' = file'[readPos + i]
    BY ZenonT(60) DEF UnreadAt
  <2>8. consumed' + BufferedBytes' = Len(accepted')
    <3>1. /\ consumed' = consumed /\ Len(accepted') = Len(accepted) + Len(data)
          /\ Len(data) \in Nat
      BY <1>1, <2>1, Concatenation
    <3> QED
      BY SMTT(60), <2>1, <2>5, <3>1
  <2>9. \A i \in 1..BufferedBytes' : UnreadAt(i)' = accepted'[consumed' + i]
    BY ZenonT(60), <2>5, <2>6, <2>7 DEF InStep
  <2> QED
    BY ZenonT(60), <2>8, <2>9 DEF StoredFifo
<1> QED
  BY ZenonT(60), <1>3, <1>4

\* What a failed write left is behind write_pos.
LEMMA WriteBytesFailsStep ==
    ASSUME IInv, NEW data \in Data, NEW k \in 0..(Len(data) - 1),
           WriteBytesFails(data, k)
    PROVE  IInv'
<1> USE DEF IInv, WriteBytesFails
<1>1. SubSeq(data, 1, k) \in Seq(Byte) /\ writePos \in 0..Len(file)
  <2>1. data \in Seq(Byte) /\ k \in Nat /\ k =< Len(data)
    BY SMTT(60), DataIsSeq
  <2>2. SubSeq(data, 0 + 1, k) \in Seq(Byte)
    BY SMTT(60), <2>1, Slice
  <2> QED
    BY SMTT(60), <2>2 DEF TypeOK, PositionsInFile
<1>2. /\ file' \in Seq(Byte) /\ Len(file') >= Len(file)
      /\ \A i \in 1..writePos : file'[i] = file[i]
  BY ZenonT(60), <1>1, OverwriteKeepsPrefix DEF TypeOK
<1>3. TypeOK' /\ PositionsInFile'
  BY <1>1, <1>2 DEF TypeOK, PositionsInFile
<1>4. StoredFifo'
  <2>1. BufferedBytes' = BufferedBytes /\ BufferedBytes = writePos - readPos
    BY ZenonT(60) DEF BufferedBytes
  <2>2. \A i \in 1..BufferedBytes : readPos + i \in 1..writePos
    BY SMTT(60), <2>1 DEF TypeOK, PositionsInFile
  <2>3. \A i \in 1..BufferedBytes : UnreadAt(i)' = UnreadAt(i)
    BY ZenonT(60), <1>2, <2>2 DEF UnreadAt
  <2> QED
    BY Zenon, <2>1, <2>3 DEF StoredFifo
<1> QED
  BY Zenon, <1>3, <1>4

\* A read from memory.
LEMMA ReadMemoryStep ==
    ASSUME IInv, NEW n \in 1..MaxRead, ReadMemory(n)
    PROVE  IInv'
<1> USE DEF IInv
<1> DEFINE k == IF n < Len(mem) THEN n ELSE Len(mem)
<1>1. mem \in Seq(Byte) /\ k \in Nat /\ k =< Len(mem) /\ mode = "Memory"
  BY SMTT(60), SpillAssumption DEF TypeOK, ReadMemory
<1>2. /\ mem' = SubSeq(mem, k + 1, Len(mem)) /\ consumed' = consumed + k
      /\ delivered' = delivered \o SubSeq(mem, 0 + 1, k)
      /\ UNCHANGED <<mode, file, writePos, readPos, accepted>>
  BY SMTT(60) DEF ReadMemory
<1> HIDE DEF k
<1>3. /\ mem' \in Seq(Byte) /\ Len(mem') = Len(mem) - k
      /\ \A i \in 1..(Len(mem) - k) : mem'[i] = mem[k + i]
  BY SMTT(60), <1>1, <1>2, Slice
<1>4. SubSeq(mem, 0 + 1, k) \in Seq(Byte)
  BY SMTT(60), <1>1, Slice
<1>5. TypeOK' /\ PositionsInFile'
  BY SMTT(60), <1>1, <1>2, <1>3, <1>4, Concatenation DEF TypeOK, PositionsInFile
<1>6. StoredFifo'
  <2>1. BufferedBytes = Len(mem) /\ BufferedBytes' = Len(mem) - k
    BY Zenon, <1>1, <1>2, <1>3 DEF BufferedBytes
  <2>2. \A i \in 1..(Len(mem) - k) : k + i \in 1..Len(mem)
    BY SMTT(60), <1>1
  <2>3. \A i \in 1..(Len(mem) - k) : UnreadAt(i)' = accepted[consumed + (k + i)]
    BY Zenon, <1>1, <1>2, <1>3, <2>1, <2>2 DEF StoredFifo, UnreadAt
  <2>4. \A i \in 1..(Len(mem) - k) : consumed' + i = consumed + (k + i)
    BY SMTT(60), <1>1, <1>2 DEF TypeOK
  <2>5. consumed' + BufferedBytes' = Len(accepted')
    <3>1. /\ consumed \in Nat /\ consumed + BufferedBytes = Len(accepted)
          /\ Len(mem) \in Nat
      BY SMTT(60), <1>1 DEF StoredFifo, TypeOK
    <3>2. (consumed + k) + (Len(mem) - k) = consumed + Len(mem)
      BY SMTT(60), <1>1, <3>1
    <3> QED
      BY Zenon, <1>2, <2>1, <3>1, <3>2
  <2>6. \A i \in 1..BufferedBytes' : UnreadAt(i)' = accepted'[consumed' + i]
    BY ZenonT(60), <1>2, <2>1, <2>3, <2>4
  <2> QED
    BY Zenon, <2>5, <2>6 DEF StoredFifo
<1> QED
  BY ZenonT(60), <1>5, <1>6

\* A read from the file that leaves something.
LEMMA ReadBytesStep ==
    ASSUME IInv, NEW n \in 1..MaxRead, NEW k \in 1..MaxRead, ReadBytes(n, k)
    PROVE  IInv'
<1> USE DEF IInv, ReadBytes
<1>1. SubSeq(file, readPos + 1, readPos + k) \in Seq(Byte)
  BY SMTT(60), SpillAssumption, Slice DEF TypeOK, PositionsInFile
<1>2. TypeOK' /\ PositionsInFile'
  BY <1>1, SpillAssumption, Concatenation DEF TypeOK, PositionsInFile
<1>3. StoredFifo'
  <2> DEFINE len == writePos - readPos
  <2>1. /\ BufferedBytes = len /\ BufferedBytes' = len - k
        /\ len \in Nat /\ k \in Nat /\ k < len
    BY SpillAssumption DEF TypeOK, PositionsInFile, BufferedBytes
  <2>2. \A i \in 1..(len - k) :
           k + i \in 1..len /\ readPos' + i = readPos + (k + i)
    BY <2>1 DEF TypeOK
  <2>3. \A i \in 1..(len - k) : UnreadAt(i)' = accepted[consumed + (k + i)]
    BY ZenonT(60), <2>1, <2>2 DEF StoredFifo, UnreadAt
  <2>4. \A i \in 1..(len - k) : consumed' + i = consumed + (k + i)
    BY <2>1 DEF TypeOK
  <2>5. consumed' + BufferedBytes' = Len(accepted')
    <3>1. consumed \in Nat /\ consumed + len = Len(accepted)
      BY ZenonT(60), <2>1 DEF StoredFifo, TypeOK
    <3>2. (consumed + k) + (len - k) = consumed + len
      BY <2>1, <3>1
    <3> QED
      BY ZenonT(60), <2>1, <3>1, <3>2
  <2>6. \A i \in 1..BufferedBytes' : UnreadAt(i)' = accepted'[consumed' + i]
    BY ZenonT(60), <2>1, <2>3, <2>4
  <2> QED
    BY ZenonT(60), <2>5, <2>6 DEF StoredFifo
<1> QED
  BY ZenonT(60), <1>2, <1>3

\* The read that takes all of the rest, and resets the positions.
LEMMA ReadLastStep ==
    ASSUME IInv, NEW n \in 1..MaxRead, ReadLastBytes(n) \/ ReadLastBytesFails(n)
    PROVE  IInv'
<1> USE DEF IInv, ReadLastBytes, ReadLastBytesFails
<1>1. SubSeq(file, readPos + 1, writePos) \in Seq(Byte)
  BY ZenonT(60), Slice DEF TypeOK, PositionsInFile
<1>2. delivered' \in Seq(Byte) /\ consumed' \in Nat /\ file' \in Seq(Byte)
  <2>1. delivered' \in Seq(Byte)
    BY ZenonT(60), <1>1, Concatenation DEF TypeOK
  <2>2. consumed' \in Nat
    BY DEF TypeOK
  <2>3. file' \in Seq(Byte)
    <3>1. (file' = file \/ file' = <<>>) /\ <<>> \in Seq(Byte)
      OBVIOUS
    <3> QED
      BY ZenonT(60), <3>1 DEF TypeOK
  <2> QED
    BY ZenonT(60), <2>1, <2>2, <2>3
<1>3. TypeOK' /\ PositionsInFile'
  BY SMTT(60), <1>2 DEF TypeOK, PositionsInFile
<1>4. StoredFifo'
  BY SMTT(60) DEF TypeOK, PositionsInFile, StoredFifo, BufferedBytes, UnreadAt
<1> QED
  BY ZenonT(60), <1>3, <1>4

-----------------------------------------------------------------------------
(* The theorems                                                            *)

\* Every operation of the buffer preserves the invariant.
LEMMA StepInvariant == IInv /\ [Next]_vars => IInv'
<1> SUFFICES ASSUME IInv, [Next]_vars PROVE IInv'
  BY Zenon
<1>1. ASSUME NEW data \in Data, PushBytes(data) PROVE IInv'
  BY ZenonT(60), <1>1, PushMemoryStep, SpillStep, SpillFailsStep,
     WriteBytesStep,
     WriteBytesFailsStep DEF PushBytes
<1>2. ASSUME NEW n \in 1..MaxRead, ReadInto(n) PROVE IInv'
  BY ZenonT(60), <1>2, ReadMemoryStep, ReadBytesStep, ReadLastStep DEF ReadInto
<1>3. CASE UNCHANGED vars
  BY ZenonT(60), <1>3 DEF vars, IInv, TypeOK, PositionsInFile, StoredFifo,
     BufferedBytes,
     UnreadAt
<1> QED
  BY ZenonT(60), <1>1, <1>2, <1>3 DEF Next

\* IInv is an invariant.
THEOREM Inductive == Spec => []IInv
<1>1. Init => IInv
  BY DEF Init, IInv, TypeOK, PositionsInFile, StoredFifo, BufferedBytes
<1> QED
  BY <1>1, StepInvariant, PTL DEF Spec

\* Every variable keeps its type.
THEOREM TypeCorrect == Spec => []TypeOK
  BY Inductive, PTL DEF IInv

\* For any threshold and cap, write_pos - read_pos never underflows and the
\* reader never runs past what the file holds.
THEOREM PositionsStayInFile == Spec => []PositionsInFile
  BY Inductive, PTL DEF IInv

\* What is unread is stored at UnreadAt.
UnreadIsStored ==
    /\ Unread \in Seq(Byte)
    /\ BufferedBytes \in Nat
    /\ Len(Unread) = BufferedBytes
    /\ \A i \in 1..BufferedBytes : Unread[i] = UnreadAt(i)

\* Unread, a sequence, against the place the bytes are stored at.
LEMMA UnreadBytes == IInv => UnreadIsStored
<1> SUFFICES ASSUME TypeOK, PositionsInFile PROVE UnreadIsStored
  BY ZenonT(60) DEF IInv
<1> USE DEF UnreadIsStored
<1>1. CASE mode = "Memory"
  BY <1>1 DEF TypeOK, Unread, BufferedBytes, UnreadAt
<1>2. CASE mode = "Disk"
  <2>1. /\ file \in Seq(Byte) /\ readPos \in Nat /\ writePos \in Nat
        /\ readPos =< writePos /\ writePos =< Len(file)
    BY Zenon, <1>2 DEF TypeOK, PositionsInFile
  <2> QED
    BY SMTT(60), <1>2, <2>1, Slice DEF Unread, BufferedBytes, UnreadAt
<1> QED
  BY ZenonT(60), <1>1, <1>2 DEF TypeOK

\* The same after a step.
LEMMA UnreadBytesNext == IInv' => UnreadIsStored'
  BY UnreadBytes, PTL

\* Whatever the file system does, push_bytes and read_into keep the buffer
\* first in, first out: no byte is lost, repeated or reordered in it.
THEOREM BufferIsFifo == Spec => []Fifo
<1>1. IInv => Fifo
  BY Zenon, UnreadBytes DEF UnreadIsStored, IInv, StoredFifo, Fifo
<1> QED
  BY <1>1, Inductive, PTL

\* peek_bytes never misses a byte that is still buffered, whatever was read
\* before it and wherever the bytes are.
THEOREM PeekCoversBuffer == Spec => []PeekEndsWithUnread
<1>1. IInv => PeekEndsWithUnread
  <2> SUFFICES ASSUME IInv PROVE PeekEndsWithUnread
    BY Zenon
  <2>1. UnreadIsStored
    BY Zenon, UnreadBytes
  <2>2. CASE mode = "Memory"
    BY <2>1, <2>2 DEF IInv, TypeOK, PeekEndsWithUnread, PeekBytes, BufferedBytes, Unread
  <2>3. CASE mode = "Disk"
    <3>1. /\ file \in Seq(Byte) /\ readPos \in Nat /\ writePos \in Nat
          /\ readPos =< writePos /\ writePos =< Len(file)
      BY Zenon, <2>3 DEF IInv, TypeOK, PositionsInFile
    <3>2. /\ Len(SubSeq(file, 0 + 1, writePos)) = writePos - 0
          /\ \A i \in 1..(writePos - 0) : SubSeq(file, 0 + 1, writePos)[i] = file[0 + i]
      BY <3>1, Slice
    <3>3. /\ PeekBytes = SubSeq(file, 0 + 1, writePos)
          /\ BufferedBytes = writePos - readPos
      BY SMTT(60), <2>3 DEF PeekBytes, BufferedBytes
    <3>4. \A i \in 1..BufferedBytes : Unread[i] = file[readPos + i]
      BY Zenon, <2>1, <2>3 DEF UnreadIsStored, UnreadAt
    <3> QED
      BY <3>1, <3>2, <3>3, <3>4 DEF PeekEndsWithUnread
  <2> QED
    BY Zenon, <2>2, <2>3 DEF IInv, TypeOK
<1> QED
  BY <1>1, Inductive, PTL

-----------------------------------------------------------------------------
(* The buffer implements ByteQueue                                         *)

\* Sequences with the same bytes are equal.
LEMMA SameBytes ==
    ASSUME NEW s \in Seq(Byte), NEW t \in Seq(Byte), Len(s) = Len(t),
           \A i \in 1..Len(s) : s[i] = t[i]
    PROVE  s = t
  BY SMTT(60)

\* A step that keeps the unread bytes and may add some is a push.
LEMMA MapsToPush ==
    ASSUME UnreadIsStored, UnreadIsStored', UNCHANGED delivered,
           BufferedBytes' >= BufferedBytes,
           \A i \in 1..BufferedBytes : UnreadAt(i)' = UnreadAt(i)
    PROVE  Q!Push
<1> DEFINE len == Len(Unread)
<1>1. /\ Unread \in Seq(Byte) /\ Unread' \in Seq(Byte)
      /\ len \in Nat /\ 0 =< len /\ len =< Len(Unread')
      /\ \A i \in 1..len : Unread'[i] = Unread[i]
  BY SMTT(60) DEF UnreadIsStored
<1>2. /\ SubSeq(Unread', 0 + 1, len) \in Seq(Byte)
      /\ Len(SubSeq(Unread', 0 + 1, len)) = len - 0
      /\ \A i \in 1..(len - 0) : SubSeq(Unread', 0 + 1, len)[i] = Unread'[0 + i]
  BY SMTT(60), <1>1, Slice
<1>3. SubSeq(Unread', 1, len) = Unread
  BY SMTT(60), <1>1, <1>2, SameBytes
<1> QED
  BY ZenonT(60), <1>1, <1>3 DEF Q!Push

\* A step that removes the first k unread bytes and delivers them is a take.
LEMMA MapsToTake ==
    ASSUME UnreadIsStored, UnreadIsStored', NEW k \in 1..BufferedBytes,
           BufferedBytes' = BufferedBytes - k,
           \A i \in 1..(BufferedBytes - k) : UnreadAt(i)' = UnreadAt(k + i),
           NEW out \in Seq(Byte), delivered' = delivered \o out, Len(out) = k,
           \A i \in 1..k : out[i] = UnreadAt(i)
    PROVE  Q!Take
<1> DEFINE len == BufferedBytes
<1>1. /\ Unread \in Seq(Byte) /\ Unread' \in Seq(Byte) /\ len \in Nat
      /\ len = Len(Unread) /\ Len(Unread') = len - k /\ k \in Nat /\ k =< len
      /\ \A i \in 1..len : Unread[i] = UnreadAt(i)
      /\ \A i \in 1..(len - k) : Unread'[i] = UnreadAt(i)'
  BY SMTT(60) DEF UnreadIsStored
<1>2. out = SubSeq(Unread, 1, k)
  <2>1. /\ SubSeq(Unread, 0 + 1, k) \in Seq(Byte)
        /\ Len(SubSeq(Unread, 0 + 1, k)) = k - 0
        /\ \A i \in 1..(k - 0) : SubSeq(Unread, 0 + 1, k)[i] = Unread[0 + i]
    BY SMTT(60), <1>1, Slice
  <2>2. \A i \in 1..k : SubSeq(Unread, 1, k)[i] = out[i]
    BY SMTT(60), <1>1, <2>1
  <2> QED
    BY SMTT(60), <1>1, <2>1, <2>2, SameBytes
<1>3. Unread' = SubSeq(Unread, k + 1, len)
  <2>1. /\ SubSeq(Unread, k + 1, len) \in Seq(Byte)
        /\ Len(SubSeq(Unread, k + 1, len)) = len - k
        /\ \A i \in 1..(len - k) : SubSeq(Unread, k + 1, len)[i] = Unread[k + i]
    BY SMTT(60), <1>1, Slice
  <2>2. \A i \in 1..(len - k) : k + i \in 1..len
    BY SMTT(60), <1>1
  <2>3. \A i \in 1..(len - k) : SubSeq(Unread, k + 1, len)[i] = Unread'[i]
    BY SMTT(60), <1>1, <2>1, <2>2
  <2> QED
    BY ZenonT(60), <1>1, <2>1, <2>3, SameBytes
<1> QED
  BY ZenonT(60), <1>1, <1>2, <1>3 DEF Q!Take

\* A step that changes no unread byte and delivers none stutters.
LEMMA MapsToStutter ==
    ASSUME UnreadIsStored, UnreadIsStored', UNCHANGED delivered,
           BufferedBytes' = BufferedBytes,
           \A i \in 1..BufferedBytes : UnreadAt(i)' = UnreadAt(i)
    PROVE  UNCHANGED Q!vars
<1>1. /\ Unread \in Seq(Byte) /\ Unread' \in Seq(Byte)
      /\ Len(Unread') = Len(Unread)
      /\ \A i \in 1..Len(Unread') : Unread'[i] = Unread[i]
  BY Zenon DEF UnreadIsStored
<1>2. Unread' = Unread
  BY Zenon, <1>1, SameBytes
<1> QED
  BY Zenon, <1>2 DEF Q!vars

\* push_bytes appends all of its data or, when it fails, nothing.
LEMMA PushMaps ==
    ASSUME IInv, IInv', UnreadIsStored, UnreadIsStored', NEW data \in Data,
           PushBytes(data)
    PROVE  Q!Next \/ UNCHANGED Q!vars
<1>1. /\ data \in Seq(Byte) /\ Len(data) \in Nat
      /\ mem \in Seq(Byte) /\ file \in Seq(Byte)
      /\ readPos \in Nat /\ writePos \in Nat
  BY SMTT(60), DataIsSeq DEF IInv, TypeOK
<1>2. CASE PushMemory(data) \/ Spill(data)
  <2>1. /\ BufferedBytes = Len(mem) /\ BufferedBytes' = Len(mem) + Len(data)
        /\ UNCHANGED delivered
    BY SMTT(60), <1>1, <1>2, Concatenation DEF PushMemory, Spill, Accept,
       BufferedBytes
  <2>2. \A i \in 1..Len(mem) : UnreadAt(i)' = UnreadAt(i)
    BY SMTT(60), <1>1, <1>2, Concatenation DEF PushMemory, Spill, UnreadAt
  <2> QED
    BY SMTT(60), <1>1, <2>1, <2>2, MapsToPush DEF Q!Next
<1>3. CASE SpillFails(data)
  <2>1. /\ mem \o data \in Seq(Byte) /\ Len(mem) \in Nat /\ Len(mem) =< Len(mem \o data)
        /\ \A i \in 1..Len(mem) : (mem \o data)[i] = mem[i]
    BY SMTT(60), <1>1, Concatenation
  <2>2. /\ Len(SubSeq(mem \o data, 0 + 1, Len(mem))) = Len(mem) - 0
        /\ \A i \in 1..(Len(mem) - 0) :
              SubSeq(mem \o data, 0 + 1, Len(mem))[i] = (mem \o data)[0 + i]
    BY SMTT(60), <2>1, Slice
  <2>3. Len(mem') = Len(mem) /\ \A i \in 1..Len(mem) : mem'[i] = mem[i]
    BY SMTT(60), <1>3, <2>1, <2>2 DEF SpillFails
  <2> QED
    BY Zenon, <1>3, <2>3, MapsToStutter DEF SpillFails, BufferedBytes, UnreadAt
<1>4. ASSUME mode = "Disk", UNCHANGED <<mode, readPos, delivered>>,
             writePos' >= writePos,
             \A i \in 1..writePos : file'[i] = file[i]
      PROVE  /\ BufferedBytes = writePos - readPos
             /\ BufferedBytes' = writePos' - readPos
             /\ \A i \in 1..BufferedBytes : UnreadAt(i)' = UnreadAt(i)
  <2>1. BufferedBytes = writePos - readPos /\ BufferedBytes' = writePos' - readPos
    BY Zenon, <1>4 DEF BufferedBytes
  <2>2. \A i \in 1..(writePos - readPos) : readPos + i \in 1..writePos
    BY SMTT(60), <1>1, <1>4 DEF IInv, PositionsInFile
  <2>3. \A i \in 1..(writePos - readPos) : UnreadAt(i)' = UnreadAt(i)
    BY Zenon, <1>4, <2>2 DEF UnreadAt
  <2> QED
    BY Zenon, <2>1, <2>3
<1>5. writePos \in 0..Len(file) \/ mode = "Memory"
  BY SMTT(60), <1>1 DEF IInv, PositionsInFile, TypeOK
<1>6. CASE WriteBytes(data)
  <2>1. /\ mode = "Disk" /\ UNCHANGED <<mode, readPos, delivered>>
        /\ writePos' = writePos + Len(data)
        /\ file' = Overwrite(file, writePos, data)
    BY ZenonT(60), <1>6 DEF WriteBytes, Accept
  <2>2. \A i \in 1..writePos : file'[i] = file[i]
    BY ZenonT(60), <1>1, <1>5, <2>1, OverwriteKeepsPrefix
  <2>3. writePos' >= writePos
    BY SMTT(60), <1>1, <2>1
  <2>4. /\ BufferedBytes' >= BufferedBytes
        /\ \A i \in 1..BufferedBytes : UnreadAt(i)' = UnreadAt(i)
    BY SMTT(60), <1>1, <1>4, <2>1, <2>2, <2>3
  <2> QED
    BY Zenon, <2>1, <2>4, MapsToPush DEF Q!Next
<1>7. ASSUME NEW k \in 0..(Len(data) - 1), WriteBytesFails(data, k)
      PROVE  UNCHANGED Q!vars
  <2>1. /\ mode = "Disk" /\ UNCHANGED <<mode, readPos, writePos, delivered>>
        /\ file' = Overwrite(file, writePos, SubSeq(data, 0 + 1, k))
    BY SMTT(60), <1>7 DEF WriteBytesFails
  <2>2. SubSeq(data, 0 + 1, k) \in Seq(Byte)
    BY SMTT(60), <1>1, Slice
  <2>3. \A i \in 1..writePos : file'[i] = file[i]
    BY ZenonT(60), <1>1, <1>5, <2>1, <2>2, OverwriteKeepsPrefix
  <2>4. /\ mode = "Disk" /\ UNCHANGED <<mode, readPos, delivered>>
        /\ writePos' = writePos /\ writePos' >= writePos
    BY <1>1, <2>1
  <2>5. /\ BufferedBytes' = BufferedBytes
        /\ \A i \in 1..BufferedBytes : UnreadAt(i)' = UnreadAt(i)
    BY ZenonT(60), <1>1, <1>4, <2>3, <2>4
  <2> QED
    BY ZenonT(60), <2>1, <2>5, MapsToStutter
<1> QED
  BY Zenon, <1>2, <1>3, <1>6, <1>7 DEF PushBytes

\* read_into takes a prefix; when it fails it has emptied the buffer.
LEMMA ReadMaps ==
    ASSUME IInv, IInv', UnreadIsStored, UnreadIsStored', NEW n \in 1..MaxRead,
           ReadInto(n)
    PROVE  Q!Next
<1>1. /\ mem \in Seq(Byte) /\ file \in Seq(Byte) /\ n \in Nat
      /\ readPos \in Nat /\ writePos \in Nat /\ Len(mem) \in Nat
  BY SMTT(60), SpillAssumption DEF IInv, TypeOK
<1>2. CASE ReadMemory(n)
  <2> DEFINE k == IF n < Len(mem) THEN n ELSE Len(mem)
  <2>1. /\ k \in Nat /\ 0 < k /\ k =< Len(mem) /\ mode = "Memory" /\ mode' = mode
        /\ mem' = SubSeq(mem, k + 1, Len(mem))
        /\ delivered' = delivered \o SubSeq(mem, 0 + 1, k)
    BY SMTT(60), <1>1, <1>2 DEF ReadMemory
  <2> HIDE DEF k
  <2>2. /\ Len(mem') = Len(mem) - k
        /\ \A i \in 1..(Len(mem) - k) : mem'[i] = mem[k + i]
    BY SMTT(60), <1>1, <2>1, Slice
  <2>3. /\ SubSeq(mem, 0 + 1, k) \in Seq(Byte)
        /\ Len(SubSeq(mem, 0 + 1, k)) = k - 0
        /\ \A i \in 1..(k - 0) : SubSeq(mem, 0 + 1, k)[i] = mem[0 + i]
    BY SMTT(60), <1>1, <2>1, Slice
  <2>4. /\ BufferedBytes = Len(mem) /\ BufferedBytes' = BufferedBytes - k
        /\ k \in 1..BufferedBytes
    BY SMTT(60), <1>1, <2>1, <2>2 DEF BufferedBytes
  <2>5. \A i \in 1..(BufferedBytes - k) : UnreadAt(i)' = UnreadAt(k + i)
    BY ZenonT(60), <2>1, <2>2, <2>4 DEF UnreadAt
  <2>6. /\ Len(SubSeq(mem, 0 + 1, k)) = k
        /\ \A i \in 1..k : SubSeq(mem, 0 + 1, k)[i] = UnreadAt(i)
    BY SMTT(60), <2>1, <2>3 DEF UnreadAt
  <2> QED
    BY ZenonT(60), <2>1, <2>3, <2>4, <2>5, <2>6, MapsToTake DEF Q!Next
<1>3. ASSUME mode = "Disk", NEW k \in Nat, k =< writePos - readPos
      PROVE  /\ BufferedBytes = writePos - readPos
             /\ SubSeq(file, readPos + 1, readPos + k) \in Seq(Byte)
             /\ Len(SubSeq(file, readPos + 1, readPos + k)) = k
             /\ \A i \in 1..k :
                   SubSeq(file, readPos + 1, readPos + k)[i] = UnreadAt(i)
  <2>1. readPos + k \in Nat /\ readPos =< readPos + k /\ readPos + k =< Len(file)
    BY SMTT(60), <1>1, <1>3 DEF IInv, PositionsInFile
  <2>2. (readPos + k) - readPos = k
    BY SMTT(60), <1>1
  <2> DEFINE out == SubSeq(file, readPos + 1, readPos + k)
  <2>3. /\ out \in Seq(Byte) /\ Len(out) = (readPos + k) - readPos
        /\ \A i \in 1..((readPos + k) - readPos) : out[i] = file[readPos + i]
    BY ZenonT(60), <1>1, <2>1, Slice
  <2>4. Len(out) = k /\ \A i \in 1..k : out[i] = file[readPos + i]
    BY Zenon, <2>2, <2>3
  <2> HIDE DEF out
  <2>5. Len(out) = k /\ \A i \in 1..k : out[i] = UnreadAt(i)
    BY Zenon, <1>3, <2>4 DEF UnreadAt
  <2> QED
    BY ZenonT(60), <1>3, <2>3, <2>5 DEF BufferedBytes, out
<1>4. ASSUME NEW k \in 1..MaxRead, ReadBytes(n, k) PROVE Q!Next
  <2>1. /\ mode = "Disk" /\ k \in Nat /\ 0 < k /\ k < writePos - readPos
        /\ delivered' = delivered \o SubSeq(file, readPos + 1, readPos + k)
        /\ readPos' = readPos + k /\ UNCHANGED <<mode, file, writePos>>
    BY SMTT(60), <1>4, SpillAssumption DEF ReadBytes
  <2>2. /\ BufferedBytes = writePos - readPos
        /\ BufferedBytes' = BufferedBytes - k /\ k \in 1..BufferedBytes
    BY SMTT(60), <1>1, <2>1 DEF BufferedBytes
  <2>3. \A i \in 1..(BufferedBytes - k) : readPos' + i = readPos + (k + i)
    BY SMTT(60), <1>1, <2>1, <2>2
  <2>4. \A i \in 1..(BufferedBytes - k) : UnreadAt(i)' = UnreadAt(k + i)
    BY ZenonT(60), <2>1, <2>3 DEF UnreadAt
  <2> DEFINE out == SubSeq(file, readPos + 1, readPos + k)
  <2>5. out \in Seq(Byte) /\ Len(out) = k /\ \A i \in 1..k : out[i] = UnreadAt(i)
    <3>1. mode = "Disk" /\ k \in Nat /\ k =< writePos - readPos
      BY SMTT(60), <1>1, <2>1
    <3>2. /\ SubSeq(file, readPos + 1, readPos + k) \in Seq(Byte)
          /\ Len(SubSeq(file, readPos + 1, readPos + k)) = k
          /\ \A i \in 1..k :
                SubSeq(file, readPos + 1, readPos + k)[i] = UnreadAt(i)
      BY ZenonT(60), <1>3, <3>1
    <3> QED
      BY ZenonT(60), <3>2
  <2>6. delivered' = delivered \o out
    BY ZenonT(60), <2>1
  <2> HIDE DEF out
  <2> QED
    BY ZenonT(60), <2>2, <2>4, <2>5, <2>6, MapsToTake DEF Q!Next
<1>5. ASSUME mode = "Disk", mode' = mode, writePos > readPos,
             readPos' = 0, writePos' = 0
      PROVE  BufferedBytes' = 0 /\ Unread' = <<>> /\ Unread # <<>>
  <2>1. BufferedBytes' = 0 /\ Len(Unread') = 0 /\ Len(Unread) # 0
    BY SMTT(60), <1>1, <1>5 DEF UnreadIsStored, BufferedBytes
  <2> QED
    BY SMTT(60), <2>1 DEF UnreadIsStored
<1>6. CASE ReadLastBytes(n)
  <2> DEFINE k == writePos - readPos
  <2>1. /\ mode = "Disk" /\ mode' = mode /\ writePos > readPos
        /\ readPos' = 0 /\ writePos' = 0 /\ k \in Nat /\ readPos + k = writePos
        /\ delivered' = delivered \o SubSeq(file, readPos + 1, writePos)
    BY SMTT(60), <1>1, <1>6 DEF ReadLastBytes
  <2>2. /\ BufferedBytes = k /\ BufferedBytes' = BufferedBytes - k
        /\ k \in 1..BufferedBytes
    BY SMTT(60), <1>1, <1>5, <2>1 DEF BufferedBytes
  <2>3. \A i \in 1..(BufferedBytes - k) : UnreadAt(i)' = UnreadAt(k + i)
    BY SMTT(60), <2>2
  <2>4. delivered' = delivered \o SubSeq(file, readPos + 1, readPos + k)
    BY ZenonT(60), <2>1
  <2> HIDE DEF k
  <2>5. k =< writePos - readPos
    BY SMTT(60), <2>1 DEF k
  <2> QED
    BY ZenonT(60), <1>1, <1>3, <2>1, <2>2, <2>3, <2>4, <2>5, MapsToTake
       DEF Q!Next
<1>7. CASE ReadLastBytesFails(n)
  BY ZenonT(60), <1>5, <1>7 DEF ReadLastBytesFails, Q!TakeAllFails, Q!Next
<1> QED
  BY ZenonT(60), <1>2, <1>4, <1>6, <1>7 DEF ReadInto

\* The buffer implements the byte queue: its moves between memory and disk,
\* its failed writes and its truncations are invisible to its users.
THEOREM BufferIsAQueue == Spec => QueueSpec
<1>1. Init => Q!Init
  BY Zenon DEF Init, Q!Init, Unread
<1>2. IInv /\ IInv' /\ [Next]_vars => [Q!Next]_(Q!vars)
  <2> SUFFICES ASSUME IInv, IInv', [Next]_vars
               PROVE  Q!Next \/ UNCHANGED Q!vars
    BY ZenonT(60)
  <2>1. UnreadIsStored /\ UnreadIsStored'
    BY ZenonT(60), UnreadBytes, UnreadBytesNext
  <2>2. CASE UNCHANGED vars
    BY ZenonT(60), <2>2 DEF vars, Q!vars, Unread
  <2> QED
    BY ZenonT(60), <2>1, <2>2, PushMaps, ReadMaps DEF Next
<1> QED
  BY <1>1, <1>2, Inductive, PTL DEF Spec, QueueSpec, Q!Spec

-----------------------------------------------------------------------------
(* Child processes *)

Threads == Killers \cup {Runner}

Leaders == {"none", "running", "dying", "zombie", "reaped"}

Child ==
    [leader : Leaders, code : Nat, kids : SUBSET Kids, forked : SUBSET Kids,
     taken : BOOLEAN, lock : {None, Runner}, killed : BOOLEAN, reaped : BOOLEAN,
     pid : BOOLEAN, pumps : SUBSET Streams, written : [Streams -> Nat],
     sunk : [Streams -> Nat], reused : BOOLEAN]

ProcessTypeOK ==
    /\ SetupOK(setup)
    /\ cur \in 1..setup.last /\ slot \in Commands \cup {0}
    /\ child \in [Commands -> Child]
    /\ kill \in [Threads -> [pc : {"idle", "slot", "load", "flag", "signal", "end",
                                   "join", "done"}, on : Commands \cup {None}]]
    /\ \A a \in Threads : kill[a].pc \in {"load", "flag", "signal"} => kill[a].on \in Commands
    /\ feeder \in [Commands -> {"off", "reading", "holding"}]
    /\ input \in [arrived : Nat, taken : Nat, lost : Nat]

\* A command beyond the current one, and the current one until its spawn, has
\* no process; from its spawn on the current one has.
Fresh ==
    /\ \A i \in Commands : i > cur \/ (i = cur /\ pc \in {"start", "checked"}) =>
          child[i].leader = "none"
    /\ pc \in {"spawned", "registered", "selfkill", "wait", "oswait", "relock", "join",
              "clear", "return", "ok"} => child[cur].leader # "none"
    /\ \A i \in Commands : child[i].reaped => child[i].leader # "none"

\* From the spawn to the end of the wait the handle has its pid, and once
\* registered a background command is in active_process.
Registered ==
    /\ pc \in {"spawned", "registered", "wait", "oswait"} => child[cur].pid
    /\ setup.background /\ pc \in {"registered", "wait", "oswait"} => slot = cur

\* Nobody kills before the token is set, nor a step that is not cancellable.
KillersFire ==
    \A k \in Killers : kill[k].pc # "idle" => token /\ setup.background

\* A killer that has not yet looked at active_process will find the command;
\* one that found it has signalled its leader or is about to.
OnTarget(k) ==
    \/ kill[k].pc \in {"idle", "slot"}
    \/ kill[k].pc \in {"load", "flag", "signal"} /\ kill[k].on = cur
    \/ child[cur].leader # "running"

Targeted ==
    setup.background /\ pc \in {"wait", "oswait"} => \A k \in Killers : OnTarget(k)

\* A pump that is gone left an empty pipe that nobody can write to.
Pumped ==
    \A i \in Commands : child[i].leader # "none" =>
        \A s \in Piped \ setup.broken :
            s \in child[i].pumps \/ (~TreeAlive(i) /\ child[i].sunk[s] = child[i].written[s])

\* A RUN that returned has joined its pumps.
Joined ==
    \A i \in Commands :
        i < cur \/ (i = cur /\ pc \in {"clear", "return", "ok"}) =>
            child[i].pumps = {} /\ child[i].leader # "none"

\* The commands whose feeder is through.
Unfed == {i \in 1..setup.last : feeder[i] = "off" /\ child[i].leader # "none"}

Fed ==
    /\ \A i \in Commands : feeder[i] # "off" => child[i].leader # "none" /\ i \in 1..setup.last
    /\ FeederStops

PInv ==
    /\ ProcessTypeOK /\ Fresh /\ Registered /\ KillersFire /\ Targeted
    /\ Pumped /\ Joined /\ Fed

-----------------------------------------------------------------------------
(* What a step does to the handle and the processes of a command *)

Gone(c) == c.leader \notin {"running", "dying"} /\ c.kids = {}

\* The processes of a command only end, a stream nobody pumps stands still,
\* and a pump stops at the end of its stream or at a sink that fails.
Goes(c, d) ==
    /\ d.leader = "none" <=> c.leader = "none"
    /\ d.leader = "running" => c.leader = "running"
    /\ Gone(c) => Gone(d)
    /\ d.pumps \subseteq c.pumps
    /\ \A s \in Streams \ c.pumps : d.written[s] = c.written[s] /\ d.sunk[s] = c.sunk[s]
    /\ \A s \in c.pumps \ d.pumps :
          s \in setup.broken \/ (Gone(d) /\ d.sunk[s] = d.written[s])
    /\ d.pid = c.pid \/ pc = "relock"
    /\ d.reaped => c.reaped \/ c.leader # "none"

Moves ==
    /\ child' \in [Commands -> Child]
    /\ \A i \in Commands : Goes(child[i], child'[i])

\* A step that changes one command's record moves as that record does.
LEMMA Updates ==
    ASSUME child \in [Commands -> Child], NEW j \in Commands, NEW d \in Child,
           Goes(child[j], d), child' = [child EXCEPT ![j] = d]
    PROVE  Moves
<1>1. child' \in [Commands -> Child]
  BY Zenon
<1>2. ASSUME NEW i \in Commands PROVE Goes(child[i], child'[i])
  <2>1. CASE i = j
    BY ZenonT(60), <2>1
  <2>2. CASE i # j
    BY ZenonT(60), <2>2 DEF Goes
  <2> QED
    BY ZenonT(60), <2>1, <2>2
<1> QED
  BY ZenonT(60), <1>1, <1>2 DEF Moves

\* Nothing moves.
LEMMA Stands ==
    ASSUME child \in [Commands -> Child], child' = child
    PROVE  Moves
BY ZenonT(60) DEF Moves, Goes

\* The worker's own steps.
LEMMA RunnerMoves ==
    ASSUME ProcessTypeOK, Fresh, RunnerStep, ~Spawn
    PROVE  Moves
<1> DEFINE c == child[cur]
<1>c. child \in [Commands -> Child] /\ cur \in Commands /\ c \in Child
  BY ZenonT(60) DEF ProcessTypeOK, SetupOK
<1>1. CASE WaitTakes
  <2>1. child' = [child EXCEPT ![cur] = [c EXCEPT !.taken = TRUE]]
    BY ZenonT(60), <1>1 DEF WaitTakes
  <2>2. [c EXCEPT !.taken = TRUE] \in Child /\ Goes(c, [c EXCEPT !.taken = TRUE])
    BY ZenonT(60), <1>c DEF Child, Goes, Gone
  <2> QED
    BY ZenonT(60), <1>c, <2>1, <2>2, Updates
<1>2. CASE WaitReaps
  <2>1. child' = [child EXCEPT ![cur] = [c EXCEPT !.leader = "reaped"]]
    BY ZenonT(60), <1>2 DEF WaitReaps
  <2>2. [c EXCEPT !.leader = "reaped"] \in Child /\ Goes(c, [c EXCEPT !.leader = "reaped"])
    BY ZenonT(60), <1>c, <1>2 DEF Child, Goes, Gone, Leaders, WaitReaps
  <2> QED
    BY ZenonT(60), <1>c, <2>1, <2>2, Updates
<1>3. CASE WaitSweeps
  <2> DEFINE d == [Sweep(c) EXCEPT !.lock = Runner, !.pid = FALSE]
  <2>1. child' = [child EXCEPT ![cur] = d]
    BY ZenonT(60), <1>3 DEF WaitSweeps
  <2>2. d \in Child /\ Goes(c, d)
    BY ZenonT(60), <1>c, <1>3 DEF Child, Goes, Gone, Sweep, WaitSweeps
  <2> QED
    BY ZenonT(60), <1>c, <2>1, <2>2, Updates
<1>4. CASE WaitJoins
  <2> DEFINE d == [c EXCEPT !.reaped = TRUE, !.lock = None]
  <2>1. child' = [child EXCEPT ![cur] = d]
    BY ZenonT(60), <1>4, <1>c DEF WaitJoins, Child
  <2>2. d \in Child /\ Goes(c, d)
    BY ZenonT(60), <1>c, <1>4 DEF Child, Goes, Gone, WaitJoins, Fresh
  <2> QED
    BY ZenonT(60), <1>c, <2>1, <2>2, Updates
<1>5. CASE DropStarts
  <2>1. CASE c.leader = "zombie"
    <3> DEFINE d == [c EXCEPT !.lock = Runner, !.leader = "reaped"]
    <3>1. child' = [child EXCEPT ![cur] = d]
      BY ZenonT(60), <1>5, <1>c, <2>1 DEF DropStarts, Child
    <3>2. d \in Child /\ Goes(c, d)
      BY ZenonT(60), <1>c, <2>1 DEF Child, Goes, Gone, Leaders
    <3> QED
      BY ZenonT(60), <1>c, <3>1, <3>2, Updates
  <2>2. CASE c.leader # "zombie"
    <3> DEFINE l == IF c.leader = "running" THEN "dying" ELSE c.leader
               d == [c EXCEPT !.leader = l, !.kids = {}, !.lock = Runner, !.killed = TRUE]
    <3>1. child' = [child EXCEPT ![cur] = d]
      BY ZenonT(60), <1>5, <1>c, <2>2 DEF DropStarts, KillTree, Child
    <3>2. d \in Child /\ Goes(c, d)
      BY ZenonT(60), <1>c DEF Child, Goes, Gone, Leaders
    <3> QED
      BY ZenonT(60), <1>c, <3>1, <3>2, Updates
  <2> QED
    BY ZenonT(60), <2>1, <2>2
<1>6. CASE DropEnds
  <2> DEFINE d == [Sweep(c) EXCEPT !.leader = "reaped", !.lock = None, !.reaped = TRUE]
  <2>1. child' = [child EXCEPT ![cur] = d]
    BY ZenonT(60), <1>6 DEF DropEnds
  <2>2. d \in Child /\ Goes(c, d)
    BY ZenonT(60), <1>c, <1>6 DEF Child, Goes, Gone, Leaders, Sweep, DropEnds
  <2> QED
    BY ZenonT(60), <1>c, <2>1, <2>2, Updates
<1>7. CASE RefuseWhenCancelled \/ SpawnFails \/ Register \/ Recheck \/ SelfKilled
           \/ ClearRegistration \/ Return
  BY Zenon, <1>c, <1>7, Stands DEF RefuseWhenCancelled, SpawnFails, Register,
     Recheck,
     SelfKilled, ClearRegistration, Return
<1> QED
  BY ZenonT(60), <1>1, <1>2, <1>3, <1>4, <1>5, <1>6, <1>7 DEF RunnerStep

\* The killing threads: the flag of the handle and the signal to the group.
LEMMA KillMoves ==
    ASSUME ProcessTypeOK, NEW a \in Threads, KillStep(a)
    PROVE  Moves
<1> DEFINE j == kill[a].on
           c == child[j]
<1>c. child \in [Commands -> Child] /\ j \in Commands /\ c \in Child
  BY ZenonT(60) DEF ProcessTypeOK, KillStep, KillLoads, KillFlags, KillSignals
<1>1. CASE KillLoads(a)
  BY ZenonT(60), <1>c, <1>1, Stands DEF KillLoads
<1>2. CASE KillFlags(a)
  <2>1. child' = [child EXCEPT ![j] = [c EXCEPT !.killed = TRUE]]
    BY ZenonT(60), <1>2 DEF KillFlags
  <2>2. [c EXCEPT !.killed = TRUE] \in Child /\ Goes(c, [c EXCEPT !.killed = TRUE])
    BY ZenonT(60), <1>c DEF Child, Goes, Gone
  <2> QED
    BY ZenonT(60), <1>c, <2>1, <2>2, Updates
<1>3. CASE KillSignals(a)
  <2> DEFINE l == IF c.leader = "running" THEN "dying" ELSE c.leader
             d == [c EXCEPT !.leader = l, !.kids = {}]
  <2>1. child' = [child EXCEPT ![j] = d]
    BY ZenonT(60), <1>3, <1>c DEF KillSignals, KillTree, Child
  <2>2. d \in Child /\ Goes(c, d)
    BY ZenonT(60), <1>c DEF Child, Goes, Gone, Leaders
  <2> QED
    BY ZenonT(60), <1>c, <2>1, <2>2, Updates
<1> QED
  BY ZenonT(60), <1>1, <1>2, <1>3 DEF KillStep

\* A pump forwards, or ends as Goes says.
LEMMA PumpMoves ==
    ASSUME ProcessTypeOK, NEW i \in Commands, PumpStep(i)
    PROVE  Moves
<1> DEFINE c == child[i]
<1>c. child \in [Commands -> Child] /\ c \in Child
  BY ZenonT(60) DEF ProcessTypeOK
<1>1. PICK s \in Streams : PumpEof(i, s) \/ PumpCopies(i, s)
  BY ZenonT(60) DEF PumpStep
<1>2. CASE PumpEof(i, s)
  <2> DEFINE d == [c EXCEPT !.pumps = c.pumps \ {s}]
  <2>1. child' = [child EXCEPT ![i] = d]
    BY ZenonT(60), <1>2 DEF PumpEof
  <2>2. c.sunk[s] = c.written[s] /\ Gone(c)
    <3>1. c.sunk[s] \in Nat /\ c.written[s] \in Nat
      BY ZenonT(60), <1>c DEF Child
    <3>2. c.written[s] - c.sunk[s] = 0 /\ ~TreeAlive(i)
      BY ZenonT(60), <1>2 DEF PumpEof, InPipe
    <3> QED
      BY SMTT(60), <3>1, <3>2 DEF TreeAlive, Alive, Gone
  <2>3. d \in Child /\ Goes(c, d)
    BY ZenonT(60), <1>c, <2>2 DEF Child, Goes, Gone
  <2> QED
    BY ZenonT(60), <1>c, <2>1, <2>3, Updates
<1>3. CASE PumpCopies(i, s) /\ s \in setup.broken
  <2> DEFINE d == [c EXCEPT !.pumps = c.pumps \ {s}]
  <2>1. child' = [child EXCEPT ![i] = d]
    BY ZenonT(60), <1>3 DEF PumpCopies
  <2>2. d \in Child /\ Goes(c, d)
    BY ZenonT(60), <1>c, <1>3 DEF Child, Goes, Gone
  <2> QED
    BY ZenonT(60), <1>c, <2>1, <2>2, Updates
<1>4. CASE PumpCopies(i, s) /\ s \notin setup.broken
  <2> DEFINE f == [c.sunk EXCEPT ![s] = c.sunk[s] + 1]
             d == [c EXCEPT !.sunk = f]
  <2>1. child' = [child EXCEPT ![i] = d] /\ s \in c.pumps
    BY ZenonT(60), <1>4 DEF PumpCopies
  <2>2. f \in [Streams -> Nat] /\ \A q \in Streams \ {s} : f[q] = c.sunk[q]
    BY SMTT(60), <1>c DEF Child
  <2> HIDE DEF f
  <2>3. d \in Child
    BY ZenonT(60), <1>c, <2>2 DEF Child
  <2>4. Goes(c, d)
    BY Zenon, <1>c, <2>1, <2>2 DEF Child, Goes, Gone
  <2> QED
    BY ZenonT(60), <1>c, <2>1, <2>3, <2>4, Updates
<1> QED
  BY Zenon, <1>1, <1>2, <1>3, <1>4

\* The processes fork, write and end.
LEMMA SystemMoves ==
    ASSUME ProcessTypeOK, SystemStep
    PROVE  Moves
<1>c. child \in [Commands -> Child] /\ SetupOK(setup)
  BY ZenonT(60) DEF ProcessTypeOK
<1>1. CASE InputArrives
  BY ZenonT(60), <1>c, <1>1, Stands DEF InputArrives
<1>2. ASSUME NEW i \in Commands, NEW k \in Kids, LeaderForks(i, k) PROVE Moves
  <2> DEFINE c == child[i]
             d == [c EXCEPT !.kids = c.kids \cup {k}, !.forked = c.forked \cup {k}]
  <2>1. child' = [child EXCEPT ![i] = d] /\ ~Gone(c) /\ c \in Child
    BY ZenonT(60), <1>c, <1>2 DEF LeaderForks, Gone, Alive, Child
  <2>2. d \in Child /\ Goes(c, d)
    BY ZenonT(60), <2>1 DEF Child, Goes, Gone
  <2> QED
    BY ZenonT(60), <1>c, <2>1, <2>2, Updates
<1>3. ASSUME NEW i \in Commands, NEW k \in Kids, KidExits(i, k) PROVE Moves
  <2> DEFINE c == child[i]
             d == [c EXCEPT !.kids = c.kids \ {k}]
  <2>1. child' = [child EXCEPT ![i] = d] /\ c \in Child
    BY ZenonT(60), <1>c, <1>3 DEF KidExits
  <2>2. d \in Child /\ Goes(c, d)
    BY ZenonT(60), <2>1 DEF Child, Goes, Gone
  <2> QED
    BY ZenonT(60), <1>c, <2>1, <2>2, Updates
<1>4. ASSUME NEW i \in Commands, NEW code \in {0, 1},
             LeaderExits(i, code) \/ (code = 1 /\ LeaderDies(i))
      PROVE  Moves
  <2> DEFINE c == child[i]
             d == [c EXCEPT !.leader = "zombie", !.code = code]
  <2>1. child' = [child EXCEPT ![i] = d] /\ c \in Child /\ c.leader \in {"running", "dying"}
    BY ZenonT(60), <1>c, <1>4 DEF LeaderExits, LeaderDies, Child
  <2>2. code \in Nat
    OBVIOUS
  <2>3. d \in Child
    BY ZenonT(60), <2>1, <2>2 DEF Child, Leaders
  <2>4. Goes(c, d)
    BY ZenonT(60), <2>1 DEF Child, Goes, Gone
  <2> QED
    BY ZenonT(60), <1>c, <2>1, <2>3, <2>4, Updates
<1>5. ASSUME NEW i \in Commands, PidReused(i) PROVE Moves
  <2> DEFINE c == child[i]
             d == [c EXCEPT !.reused = TRUE]
  <2>1. child' = [child EXCEPT ![i] = d] /\ c \in Child
    BY ZenonT(60), <1>c, <1>5 DEF PidReused
  <2>2. d \in Child /\ Goes(c, d)
    BY ZenonT(60), <2>1 DEF Child, Goes, Gone
  <2> QED
    BY ZenonT(60), <1>c, <2>1, <2>2, Updates
<1>6. ASSUME NEW i \in Commands, NEW s \in Streams, ProcessWrites(i, s) PROVE Moves
  <2> DEFINE c == child[i]
             d == [c EXCEPT !.written = [c.written EXCEPT ![s] = c.written[s] + 1]]
  <2>1. child' = [child EXCEPT ![i] = d] /\ c \in Child /\ s \in c.pumps
    BY ZenonT(60), <1>c, <1>6 DEF ProcessWrites
  <2>2. d \in Child /\ Goes(c, d)
    BY SMTT(60), <2>1 DEF Child, Goes, Gone
  <2> QED
    BY ZenonT(60), <1>c, <2>1, <2>2, Updates
<1> QED
  <2>1. ASSUME NEW i \in Commands, LeaderDies(i) PROVE Moves
    BY Zenon, <1>4, <2>1
  <2> QED
    BY Zenon, <1>1, <1>2, <1>3, <1>4, <1>5, <1>6, <2>1 DEF SystemStep

-----------------------------------------------------------------------------
(* The invariant *)

\* Whatever the processes do, what left a stream stays complete.
LEMMA PumpedStays ==
    ASSUME ProcessTypeOK, Pumped, Moves, setup' = setup
    PROVE  Pumped'
<1> SUFFICES ASSUME NEW i \in Commands, child'[i].leader # "none",
                    NEW s \in Piped \ setup.broken, s \notin child'[i].pumps
             PROVE  ~TreeAlive(i)' /\ child'[i].sunk[s] = child'[i].written[s]
  BY ZenonT(60) DEF Pumped, Piped
<1>1. Goes(child[i], child'[i]) /\ s \in Streams
  BY Zenon DEF Moves, Piped
<1>2. Gone(child'[i]) /\ child'[i].sunk[s] = child'[i].written[s]
  <2>1. CASE s \in child[i].pumps
    BY Zenon, <1>1, <2>1 DEF Goes
  <2>2. CASE s \notin child[i].pumps
    <3>1. ~TreeAlive(i) /\ child[i].sunk[s] = child[i].written[s]
      BY ZenonT(60), <1>1, <2>2 DEF Pumped, Goes
    <3> QED
      BY Zenon, <1>1, <2>2, <3>1 DEF Goes, Gone, TreeAlive, Alive
  <2> QED
    BY Zenon, <2>1, <2>2
<1> QED
  BY Zenon, <1>2 DEF Gone, TreeAlive, Alive

\* A step that leaves the worker where it is keeps what depends on it.
LEMMA WorkerStands ==
    ASSUME PInv, Moves, UNCHANGED <<setup, cur, pc, slot>>
    PROVE  Fresh' /\ Registered' /\ Joined' /\ Pumped'
<1> USE DEF PInv
<1>1. cur \in Commands
  BY ZenonT(60) DEF ProcessTypeOK, SetupOK
<1>2. Fresh'
  BY ZenonT(60), <1>1 DEF Fresh, Moves, Goes
<1>3. Registered'
  BY ZenonT(60), <1>1 DEF Registered, Moves, Goes
<1>4. Joined'
  BY ZenonT(60), <1>1 DEF Joined, Moves, Goes
<1> QED
  BY ZenonT(60), <1>2, <1>3, <1>4, PumpedStays

\* A killer on target stays on target as long as its own state does.
LEMMA TargetStands ==
    ASSUME PInv, Moves, UNCHANGED <<setup, cur, pc>>, NEW k \in Killers,
           kill'[k] = kill[k], OnTarget(k)
    PROVE  OnTarget(k)'
<1>1. cur \in Commands
  BY Zenon DEF PInv, ProcessTypeOK, SetupOK
<1> QED
  BY Zenon, <1>1 DEF OnTarget, Moves, Goes

\* The count of feeders that are through does not fall.
LEMMA UnfedGrows ==
    ASSUME PInv, setup' = setup, Unfed \subseteq Unfed'
    PROVE  /\ Cardinality(Unfed) \in Nat /\ Cardinality(Unfed') \in Nat
           /\ Cardinality(Unfed) =< Cardinality(Unfed')
<1>1. setup.last \in Nat
  BY ZenonT(60) DEF PInv, ProcessTypeOK, SetupOK
<1>2. IsFiniteSet(1..setup.last)
  BY SMTT(60), <1>1, FS_Interval
<1>3. IsFiniteSet(Unfed) /\ IsFiniteSet(Unfed')
  BY ZenonT(60), <1>2, FS_Subset DEF Unfed
<1> QED
  BY Zenon, <1>3, FS_CardinalityType, FS_Subset

\* A step that leaves the feeders and the input alone.
LEMMA FedStands ==
    ASSUME PInv, Moves, UNCHANGED <<setup, feeder, input>>
    PROVE  Fed'
<1>1. 1..setup.last \subseteq Commands
  BY ZenonT(60) DEF PInv, ProcessTypeOK, SetupOK
<1>2. Unfed' = Unfed
  BY ZenonT(60), <1>1 DEF Unfed, Moves, Goes
<1> QED
  BY ZenonT(60), <1>2 DEF PInv, Fed, Moves, Goes, FeederStops, Unfed

\* The spawn: the pumps of the command start, and nobody has a kill under way
\* that the command would not see.
LEMMA SpawnKeeps == PInv /\ Spawn => PInv'
<1> SUFFICES ASSUME PInv, Spawn PROVE PInv'
  BY ZenonT(60)
<1> DEFINE c == child[cur]
           d == [c EXCEPT !.leader = "running", !.pid = TRUE, !.pumps = Piped]
<1>c. /\ child \in [Commands -> Child] /\ cur \in Commands /\ c \in Child
      /\ cur \in 1..setup.last /\ 1..setup.last \subseteq Commands
      /\ cur \in Nat
  BY SMTT(60) DEF PInv, ProcessTypeOK, SetupOK
<1>u. /\ UNCHANGED <<setup, token, slot, slotLock, cur, kill, input, foreign>>
      /\ pc = "checked" /\ pc' = IF setup.background THEN "spawned" ELSE "wait"
      /\ c.leader = "none"
  BY Zenon, <1>c DEF Spawn, PInv, Fresh
<1>1. child' = [child EXCEPT ![cur] = d]
  BY ZenonT(60), <1>c DEF Spawn, Child
<1>2. d \in Child /\ d.leader = "running" /\ d.pid /\ d.pumps = Piped /\ d.reaped = c.reaped
  BY ZenonT(60), <1>c DEF Child, Leaders, Piped
<1> HIDE DEF d
<1>3. child'[cur] = d /\ \A i \in Commands : i # cur => child'[i] = child[i]
  BY Zenon, <1>1, <1>c
<1>4. child' \in [Commands -> Child]
  BY ZenonT(60), <1>1, <1>2, <1>c
<1>5. /\ feeder' \in [Commands -> {"off", "reading", "holding"}]
      /\ \A i \in Commands : i # cur => feeder'[i] = feeder[i]
  BY ZenonT(60), <1>c DEF Spawn, PInv, ProcessTypeOK
<1>6. ProcessTypeOK'
  BY ZenonT(60), <1>u, <1>4, <1>5 DEF PInv, ProcessTypeOK
<1>7. Fresh'
  BY SMTT(60), <1>c, <1>u, <1>2, <1>3 DEF PInv, Fresh
<1>8. Registered' /\ KillersFire' /\ Targeted'
  <2>1. KillersFire'
    BY Zenon, <1>u DEF PInv, KillersFire
  <2> QED
    BY Zenon, <1>u, <1>2, <1>3, <2>1 DEF Registered, Targeted
<1>9. Pumped'
  <2>1. Piped' = Piped
    BY Zenon, <1>u DEF Piped
  <2>2. \A i \in Commands : i # cur => TreeAlive(i)' = TreeAlive(i)
    BY Zenon, <1>3 DEF TreeAlive, Alive
  <2> QED
    BY SMTT(60), <1>u, <1>2, <1>3, <2>1, <2>2 DEF PInv, Pumped
<1>10. Joined'
  BY Zenon, <1>c, <1>u, <1>3 DEF PInv, Joined
<1>11. Fed'
  <2>1. Unfed \subseteq Unfed'
    BY Zenon, <1>c, <1>u, <1>3, <1>5 DEF Unfed
  <2>2. Cardinality(Unfed) =< Cardinality(Unfed') /\ Cardinality(Unfed) \in Nat
        /\ Cardinality(Unfed') \in Nat
    BY ZenonT(60), <1>u, <2>1, UnfedGrows
  <2>3. input.lost =< Cardinality(Unfed) /\ input.lost \in Nat
    BY ZenonT(60) DEF PInv, Fed, FeederStops, Unfed, ProcessTypeOK
  <2>4. input'.lost =< Cardinality(Unfed')
    BY SMTT(60), <1>u, <2>2, <2>3
  <2> QED
    BY ZenonT(60), <1>c, <1>u, <1>2, <1>3, <1>5, <2>4 DEF PInv, Fed,
       FeederStops, Unfed
<1> QED
  BY ZenonT(60), <1>6, <1>7, <1>8, <1>9, <1>10, <1>11 DEF PInv

\* The other steps of the worker.
LEMMA RunnerKeeps == PInv /\ RunnerStep /\ ~Spawn => PInv'
<1> SUFFICES ASSUME PInv, RunnerStep, ~Spawn PROVE PInv'
  BY ZenonT(60)
<1>m. Moves
  BY ZenonT(60), RunnerMoves DEF PInv
<1>c. /\ cur \in Commands /\ cur \in 1..setup.last /\ 1..setup.last \subseteq Commands
      /\ cur \in Nat /\ setup.last \in Nat /\ cur # 0
  BY SMTT(60) DEF PInv, ProcessTypeOK, SetupOK
<1>u. /\ UNCHANGED <<setup, token, feeder, input>>
      /\ \A k \in Killers : kill'[k] = kill[k]
  <2>1. Runner \notin Killers
    BY Zenon DEF Runner, Killers
  <2> QED
    BY ZenonT(60), <2>1 DEF RunnerStep, RefuseWhenCancelled, SpawnFails,
       Register, Recheck,
       SelfKilled, ClearRegistration, Return, WaitTakes, WaitReaps, WaitSweeps,
       WaitJoins, DropStarts, DropEnds, PInv, ProcessTypeOK, Threads
<1>k. kill' \in [Threads -> [pc : {"idle", "slot", "load", "flag", "signal", "end",
                                   "join", "done"}, on : Commands \cup {None}]]
      /\ \A a \in Threads : kill'[a].pc \in {"load", "flag", "signal"} => kill'[a].on \in Commands
  <2>1. CASE Recheck \/ SelfKilled
    BY SMTT(60), <1>c, <2>1 DEF Recheck, SelfKilled, PInv, ProcessTypeOK,
       Threads
  <2>2. CASE UNCHANGED kill
    BY Zenon, <2>2 DEF PInv, ProcessTypeOK
  <2> QED
    BY Zenon, <2>1, <2>2 DEF RunnerStep, RefuseWhenCancelled, SpawnFails,
       Register,
       ClearRegistration, Return, WaitTakes, WaitReaps, WaitSweeps, WaitJoins,
       DropStarts, DropEnds
<1>1. cur' \in 1..setup.last /\ slot' \in Commands \cup {0}
  <2>1. cur' = cur \/ (cur < setup.last /\ cur' = cur + 1)
    BY Zenon DEF RunnerStep, RefuseWhenCancelled, SpawnFails, Register,
       Recheck,
       SelfKilled, ClearRegistration, Return, WaitTakes, WaitReaps, WaitSweeps,
       WaitJoins, DropStarts, DropEnds
  <2>2. slot' \in {slot, cur, 0}
    BY Zenon DEF RunnerStep, RefuseWhenCancelled, SpawnFails, Register,
       Recheck,
       SelfKilled, ClearRegistration, Return, WaitTakes, WaitReaps, WaitSweeps,
       WaitJoins, DropStarts, DropEnds
  <2> QED
    BY SMTT(60), <1>c, <2>1, <2>2 DEF PInv, ProcessTypeOK
<1>2. ProcessTypeOK'
  BY ZenonT(60), <1>m, <1>u, <1>k, <1>1 DEF PInv, ProcessTypeOK, Moves
<1>3. KillersFire'
  BY ZenonT(60), <1>u DEF PInv, KillersFire
<1>4. Fed'
  BY ZenonT(60), <1>m, <1>u, FedStands
<1>5. Pumped'
  BY ZenonT(60), <1>m, <1>u, PumpedStays DEF PInv
<1>6. Fresh'
  <2>1. CASE Return /\ pc' = "start"
    BY SMTT(60), <1>c, <1>m, <2>1 DEF PInv, Fresh, Moves, Goes, Return
  <2>2. CASE cur' = cur
    <3>1. pc' \in {"start", "checked"} => pc \in {"start", "checked"}
      BY SMTT(60), <1>c, <2>2 DEF RunnerStep, RefuseWhenCancelled, SpawnFails,
         Register, Recheck,
         SelfKilled, ClearRegistration, Return, WaitTakes, WaitReaps, WaitSweeps,
         WaitJoins, DropStarts, DropEnds
    <3>2. pc' \in {"spawned", "registered", "selfkill", "wait", "oswait", "relock", "join",
                   "clear", "return", "ok"} =>
          pc \in {"spawned", "registered", "selfkill", "wait", "oswait", "relock", "join",
                  "clear", "return", "ok"}
      BY ZenonT(60) DEF RunnerStep, RefuseWhenCancelled, SpawnFails, Register,
         Recheck,
         SelfKilled, ClearRegistration, Return, WaitTakes, WaitReaps, WaitSweeps,
         WaitJoins, DropStarts, DropEnds
    <3> QED
      BY ZenonT(60), <1>c, <1>m, <2>2, <3>1, <3>2 DEF PInv, Fresh, Moves, Goes
  <2> QED
    BY ZenonT(60), <2>1, <2>2 DEF RunnerStep, RefuseWhenCancelled, SpawnFails,
       Register, Recheck,
       SelfKilled, ClearRegistration, Return, WaitTakes, WaitReaps, WaitSweeps,
       WaitJoins, DropStarts, DropEnds
<1>7. Registered'
  BY ZenonT(60), <1>c, <1>m, <1>u DEF PInv, Registered, Moves, Goes, RunnerStep,
     RefuseWhenCancelled, SpawnFails, Register, Recheck, SelfKilled, ClearRegistration,
     Return, WaitTakes, WaitReaps, WaitSweeps, WaitJoins, DropStarts, DropEnds
<1>8. Targeted'
  <2>1. CASE Recheck /\ ~token
    BY ZenonT(60), <1>u, <2>1 DEF Targeted, OnTarget, PInv, KillersFire
  <2>2. CASE WaitTakes
    <3>1. cur' = cur /\ pc = "wait"
      BY Zenon, <2>2 DEF WaitTakes
    <3> QED
      BY ZenonT(60), <1>c, <1>m, <1>u, <3>1 DEF PInv, Targeted, OnTarget, Moves,
         Goes
  <2>3. CASE pc' \notin {"wait", "oswait"}
    BY Zenon, <2>3 DEF Targeted
  <2> QED
    BY ZenonT(60), <2>1, <2>2, <2>3 DEF RunnerStep, RefuseWhenCancelled,
       SpawnFails, Register, Recheck,
       SelfKilled, ClearRegistration, Return, WaitTakes, WaitReaps, WaitSweeps,
       WaitJoins, DropStarts, DropEnds
<1>9. Joined'
  <2>1. CASE Return
    <3>1. /\ pc = "return" /\ cur' \in {cur, cur + 1}
          /\ cur' = cur + 1 => pc' = "start"
      BY SMTT(60), <1>c, <2>1 DEF Return
    <3> QED
      BY SMTT(60), <1>c, <1>m, <3>1 DEF PInv, Joined, Moves, Goes,
         ProcessTypeOK, SetupOK, Commands
  <2>2. CASE WaitJoins
    <3>1. child[cur].pumps = {} /\ pc = "join" /\ cur' = cur
      BY Zenon, <2>2 DEF WaitJoins
    <3> QED
      BY SMTT(60), <1>c, <1>m, <3>1 DEF PInv, Joined, Fresh, Moves, Goes
  <2>3. CASE ClearRegistration
    <3>1. pc = "clear" /\ cur' = cur
      BY Zenon, <2>3 DEF ClearRegistration
    <3> QED
      BY ZenonT(60), <1>c, <1>m, <3>1 DEF PInv, Joined, Moves, Goes
  <2>4. CASE pc' \notin {"clear", "return", "ok"} /\ cur' = cur
    BY ZenonT(60), <1>c, <1>m, <2>4 DEF PInv, Joined, Moves, Goes
  <2> QED
    BY ZenonT(60), <2>1, <2>2, <2>3, <2>4 DEF RunnerStep, RefuseWhenCancelled,
       SpawnFails, Register, Recheck,
       SelfKilled, ClearRegistration, Return, WaitTakes, WaitReaps, WaitSweeps,
       WaitJoins, DropStarts, DropEnds
<1> QED
  BY ZenonT(60), <1>2, <1>3, <1>4, <1>5, <1>6, <1>7, <1>8, <1>9 DEF PInv

\* The type of kill survives a change of one thread's entry.
LEMMA KillTyped ==
    ASSUME ProcessTypeOK, NEW a \in Threads,
           NEW e \in [pc : {"idle", "slot", "load", "flag", "signal", "end", "join", "done"},
                      on : Commands \cup {None}],
           e.pc \in {"load", "flag", "signal"} => e.on \in Commands,
           kill' = [kill EXCEPT ![a] = e],
           UNCHANGED <<setup, cur, slot, feeder, input>>, Moves
    PROVE  ProcessTypeOK' /\ kill'[a] = e /\ \A b \in Threads : b # a => kill'[b] = kill[b]
BY ZenonT(60) DEF ProcessTypeOK, Moves

\* A kill in progress ends with the leader signalled.
LEMMA KillKeeps ==
    ASSUME PInv, NEW a \in Threads, KillStep(a)
    PROVE  PInv'
<1>m. Moves
  BY ZenonT(60), KillMoves DEF PInv
<1>u. UNCHANGED <<setup, token, slot, cur, pc, feeder, input>>
  BY ZenonT(60) DEF KillStep, KillLoads, KillFlags, KillSignals
<1>c. cur \in Commands /\ kill[a].on \in Commands /\ child \in [Commands -> Child]
  BY ZenonT(60) DEF PInv, ProcessTypeOK, SetupOK, KillStep, KillLoads,
     KillFlags, KillSignals
<1>1. PICK p \in {"flag", "end", "signal"} : kill' = [kill EXCEPT ![a].pc = p]
  BY ZenonT(60) DEF KillStep, KillLoads, KillFlags, KillSignals
<1> DEFINE e == [kill[a] EXCEPT !.pc = p]
<1>2. /\ e \in [pc : {"idle", "slot", "load", "flag", "signal", "end", "join", "done"},
                on : Commands \cup {None}]
      /\ e.pc = p /\ e.on = kill[a].on
      /\ kill' = [kill EXCEPT ![a] = e]
  BY ZenonT(60), <1>1 DEF PInv, ProcessTypeOK
<1> HIDE DEF e
<1>3. ProcessTypeOK' /\ kill'[a] = e /\ \A b \in Threads : b # a => kill'[b] = kill[b]
  BY ZenonT(60), <1>m, <1>u, <1>c, <1>2, KillTyped DEF PInv
<1>4. Fresh' /\ Registered' /\ Joined' /\ Pumped'
  BY ZenonT(60), <1>m, <1>u, WorkerStands
<1>5. Fed'
  BY ZenonT(60), <1>m, <1>u, FedStands
<1>6. KillersFire'
  <2>1. kill[a].pc # "idle"
    BY ZenonT(60) DEF KillStep, KillLoads, KillFlags, KillSignals
  <2> QED
    BY ZenonT(60), <1>u, <1>3, <2>1 DEF PInv, KillersFire, Threads
<1>7. Targeted'
  <2> SUFFICES ASSUME setup.background, pc \in {"wait", "oswait"}, NEW k \in Killers
               PROVE  OnTarget(k)'
    BY ZenonT(60), <1>u DEF Targeted
  <2>1. OnTarget(k) /\ k \in Threads
    BY ZenonT(60) DEF PInv, Targeted, Threads
  <2>2. CASE k # a
    BY ZenonT(60), <1>m, <1>u, <1>3, <2>1, <2>2, TargetStands
  <2>3. CASE k = a /\ child[cur].leader # "running"
    BY ZenonT(60), <1>c, <1>m, <1>u, <2>3 DEF OnTarget, Moves, Goes
  <2>4. CASE k = a /\ child[cur].leader = "running"
    <3>1. kill[a].on = cur /\ child[cur].pid
      BY ZenonT(60), <2>1, <2>4 DEF OnTarget, PInv, Registered, KillStep,
         KillLoads, KillFlags,
         KillSignals
    <3>2. CASE KillLoads(a)
      <4>1. p = "flag"
        BY SMTT(60), <1>2, <1>3, <3>1, <3>2 DEF KillLoads, PInv, ProcessTypeOK
      <4> QED
        BY ZenonT(60), <1>2, <1>3, <1>u, <2>4, <3>1, <4>1 DEF OnTarget
    <3>3. CASE KillFlags(a)
      <4>1. p = "signal"
        BY SMTT(60), <1>2, <1>3, <3>3 DEF KillFlags, PInv, ProcessTypeOK
      <4> QED
        BY ZenonT(60), <1>2, <1>3, <1>u, <2>4, <3>1, <4>1 DEF OnTarget
    <3>4. CASE KillSignals(a)
      <4>1. child'[cur].leader # "running"
        BY ZenonT(60), <1>c, <3>1, <3>4 DEF KillSignals, KillTree, Child
      <4> QED
        BY Zenon, <1>u, <4>1 DEF OnTarget
    <3> QED
      BY ZenonT(60), <3>2, <3>3, <3>4 DEF KillStep
  <2> QED
    BY ZenonT(60), <2>2, <2>3, <2>4
<1> QED
  BY ZenonT(60), <1>3, <1>4, <1>5, <1>6, <1>7 DEF PInv

\* The killing threads around their kill: set the token, look at
\* active_process under its lock, release it, join.
LEMMA KillerKeeps ==
    ASSUME PInv, NEW k \in Killers, KillerFires(k) \/ KillerStep(k)
    PROVE  PInv'
<1>u. UNCHANGED <<setup, slot, cur, pc, child, feeder, input>> /\ (token => token')
  BY SMTT(60) DEF KillerStep, KillerFires, KillerLooks, KillerReleases,
     KillerJoins
<1>m. Moves
  BY Zenon, <1>u, Stands DEF PInv, ProcessTypeOK
<1>c. cur \in Commands /\ cur # 0 /\ k \in Threads /\ slot \in Commands \cup {0}
  BY SMTT(60) DEF PInv, ProcessTypeOK, SetupOK, Threads
<1>1. PICK p \in {"slot", "load", "join", "done"}, o \in Commands \cup {None} :
          /\ kill' = [kill EXCEPT ![k] = [pc |-> p, on |-> o]]
          /\ p = "load" => kill[k].pc = "slot" /\ o = slot /\ slot # 0
          /\ p = "slot" => KillerFires(k)
          /\ p \in {"join", "done"} =>
                \/ kill[k].pc \in {"end", "join"}
                \/ kill[k].pc = "slot" /\ slot = 0
  <2>1. /\ kill[k].on \in Commands \cup {None}
        /\ \A q : [kill EXCEPT ![k].pc = q] = [kill EXCEPT ![k] = [pc |-> q, on |-> kill[k].on]]
    BY SMTT(60), <1>c DEF PInv, ProcessTypeOK
  <2>2. CASE KillerFires(k)
    <3>1. kill' = [kill EXCEPT ![k].pc = "slot"]
      BY Zenon, <2>2 DEF KillerFires
    <3> QED
      BY ZenonT(60), <2>1, <2>2, <3>1
  <2>3. CASE KillerLooks(k) /\ slot = 0
    <3>1. kill' = [kill EXCEPT ![k].pc = Joins(k)] /\ Joins(k) \in {"join", "done"}
      BY Zenon, <2>3 DEF KillerLooks, Joins
    <3>2. kill[k].pc = "slot"
      BY Zenon, <2>3 DEF KillerLooks
    <3> QED
      BY ZenonT(60), <2>1, <2>3, <3>1, <3>2
  <2>4. CASE KillerLooks(k) /\ slot # 0
    BY Zenon, <2>4, <1>c DEF KillerLooks
  <2>5. CASE KillerReleases(k)
    <3>1. kill' = [kill EXCEPT ![k].pc = Joins(k)] /\ Joins(k) \in {"join", "done"}
      BY ZenonT(60), <2>5 DEF KillerReleases, Joins
    <3>2. kill[k].pc = "end"
      BY ZenonT(60), <2>5 DEF KillerReleases
    <3> QED
      BY ZenonT(60), <2>1, <3>1, <3>2
  <2>6. CASE KillerJoins(k)
    <3>1. kill' = [kill EXCEPT ![k].pc = "done"] /\ kill[k].pc = "join"
      BY ZenonT(60), <2>6 DEF KillerJoins
    <3> QED
      BY ZenonT(60), <2>1, <3>1
  <2> QED
    BY Zenon, <2>2, <2>3, <2>4, <2>5, <2>6 DEF KillerStep
<1> DEFINE e == [pc |-> p, on |-> o]
<1>2. /\ e \in [pc : {"idle", "slot", "load", "flag", "signal", "end", "join", "done"},
                on : Commands \cup {None}]
      /\ e.pc = p /\ e.on = o
      /\ e.pc \in {"load", "flag", "signal"} => e.on \in Commands
  BY ZenonT(60), <1>1, <1>c
<1> HIDE DEF e
<1>3. ProcessTypeOK' /\ kill'[k] = e /\ \A b \in Threads : b # k => kill'[b] = kill[b]
  BY ZenonT(60), <1>m, <1>u, <1>c, <1>1, <1>2, KillTyped DEF PInv, e
<1>4. Fresh' /\ Registered' /\ Joined' /\ Pumped'
  BY ZenonT(60), <1>m, <1>u, WorkerStands
<1>5. Fed'
  BY ZenonT(60), <1>m, <1>u, FedStands
<1>6. KillersFire'
  <2>1. token' /\ setup.background
    <3>1. CASE KillerFires(k)
      BY ZenonT(60), <3>1 DEF KillerFires, PInv, ProcessTypeOK, SetupOK
    <3>2. CASE KillerStep(k)
      BY ZenonT(60), <1>u, <3>2 DEF KillerStep, KillerLooks, KillerReleases,
         KillerJoins, PInv, KillersFire
    <3> QED
      BY ZenonT(60), <3>1, <3>2
  <2> QED
    BY ZenonT(60), <1>u, <2>1 DEF KillersFire
<1>7. Targeted'
  <2> SUFFICES ASSUME setup.background, pc \in {"wait", "oswait"}, NEW j \in Killers
               PROVE  OnTarget(j)'
    BY ZenonT(60), <1>u DEF Targeted
  <2>1. OnTarget(j) /\ OnTarget(k) /\ j \in Threads /\ slot = cur
    BY ZenonT(60) DEF PInv, Targeted, Threads, Registered
  <2>2. CASE j # k
    BY ZenonT(60), <1>m, <1>u, <1>3, <2>1, <2>2, TargetStands
  <2>3. CASE j = k
    BY ZenonT(60), <1>u, <1>c, <1>1, <1>2, <1>3, <2>1, <2>3 DEF OnTarget
  <2> QED
    BY ZenonT(60), <2>2, <2>3
<1> QED
  BY Zenon, <1>3, <1>4, <1>5, <1>6, <1>7 DEF PInv

\* A feeder that ends counts among those that are through.
LEMMA FeederKeeps ==
    ASSUME PInv, NEW i \in Commands, FeederStep(i)
    PROVE  PInv'
<1>u. UNCHANGED <<setup, token, slot, cur, pc, child, kill>>
  BY ZenonT(60) DEF FeederStep, FeederReads, FeederWrites
<1>m. Moves
  BY ZenonT(60), <1>u, Stands DEF PInv, ProcessTypeOK
<1>1. Fresh' /\ Registered' /\ Joined' /\ Pumped'
  BY ZenonT(60), <1>m, <1>u, WorkerStands
<1>2. KillersFire' /\ Targeted'
  BY ZenonT(60), <1>u DEF PInv, KillersFire, Targeted, OnTarget
<1>3. PICK f \in {"off", "reading", "holding"} :
          /\ feeder' = [feeder EXCEPT ![i] = f]
          /\ feeder[i] # "off"
          /\ input' \in [arrived : Nat, taken : Nat, lost : Nat]
          /\ f # "off" => input'.lost = input.lost
          /\ f = "off" => input'.lost = input.lost + 1
  BY SMTT(60) DEF FeederStep, FeederReads, FeederWrites, PInv, ProcessTypeOK
<1>4. ProcessTypeOK'
  BY Zenon, <1>u, <1>3 DEF PInv, ProcessTypeOK
<1>5. /\ \A j \in Commands : feeder'[j] = IF j = i THEN f ELSE feeder[j]
      /\ i \in 1..setup.last /\ child[i].leader # "none" /\ 1..setup.last \subseteq Commands
  BY ZenonT(60), <1>3 DEF PInv, ProcessTypeOK, SetupOK, Fed
<1>6. input.lost =< Cardinality(Unfed) /\ input.lost \in Nat
  BY Zenon DEF PInv, Fed, FeederStops, Unfed, ProcessTypeOK
<1>7. IsFiniteSet(Unfed)
  <2>1. IsFiniteSet(1..setup.last)
    <3>1. setup.last \in Nat
      BY Zenon DEF PInv, ProcessTypeOK, SetupOK
    <3> QED
      BY SMTT(60), <3>1, FS_Interval
  <2> QED
    BY ZenonT(60), <2>1, FS_Subset DEF Unfed
<1>8. input'.lost =< Cardinality(Unfed')
  <2>1. CASE f # "off"
    <3>1. Unfed' = Unfed
      BY ZenonT(60), <1>u, <1>3, <1>5, <2>1 DEF Unfed
    <3> QED
      BY Zenon, <1>3, <1>6, <2>1, <3>1
  <2>2. CASE f = "off"
    <3>1. Unfed' = Unfed \cup {i} /\ i \notin Unfed
      BY SMTT(60), <1>u, <1>3, <1>5, <2>2 DEF Unfed
    <3>2. Cardinality(Unfed') = Cardinality(Unfed) + 1 /\ Cardinality(Unfed) \in Nat
      BY ZenonT(60), <1>7, <3>1, FS_AddElement, FS_CardinalityType
    <3> QED
      BY SMTT(60), <1>3, <1>6, <2>2, <3>2
  <2> QED
    BY Zenon, <2>1, <2>2
<1>9. Fed'
  BY ZenonT(60), <1>u, <1>3, <1>5, <1>8 DEF PInv, Fed, FeederStops, Unfed
<1> QED
  BY ZenonT(60), <1>1, <1>2, <1>4, <1>9 DEF PInv

\* Pumps and processes.
LEMMA OutsideKeeps ==
    ASSUME PInv, SystemStep \/ \E i \in Commands : PumpStep(i)
    PROVE  PInv'
<1>m. Moves
  BY ZenonT(60), PumpMoves, SystemMoves DEF PInv
<1>u. /\ UNCHANGED <<setup, token, slot, cur, pc, kill, feeder>>
      /\ input' \in [arrived : Nat, taken : Nat, lost : Nat] /\ input'.lost = input.lost
  <2>i. input \in [arrived : Nat, taken : Nat, lost : Nat]
    BY Zenon DEF PInv, ProcessTypeOK
  <2>1. CASE InputArrives
    BY SMTT(60), <2>i, <2>1 DEF InputArrives
  <2>2. ASSUME NEW i \in Commands, PumpStep(i)
        PROVE  UNCHANGED <<setup, token, slot, cur, pc, kill, feeder, input>>
    BY Zenon, <2>2 DEF PumpStep, PumpEof, PumpCopies
  <2>3. CASE SystemStep /\ ~InputArrives
    <3>1. UNCHANGED <<setup, token, slot, cur, pc, kill, feeder, input>>
      BY ZenonT(60), <2>3 DEF SystemStep, LeaderForks, KidExits, LeaderExits,
         LeaderDies, PidReused,
         ProcessWrites
    <3> QED
      BY Zenon, <2>i, <3>1
  <2> QED
    BY ZenonT(60), <2>i, <2>1, <2>2, <2>3
<1>1. Fresh' /\ Registered' /\ Joined' /\ Pumped'
  BY Zenon, <1>m, <1>u, WorkerStands
<1>2. ProcessTypeOK'
  BY Zenon, <1>m, <1>u DEF PInv, ProcessTypeOK, Moves
<1>3. KillersFire'
  BY ZenonT(60), <1>u DEF PInv, KillersFire
<1>4. Targeted'
  BY Zenon, <1>m, <1>u, TargetStands DEF PInv, Targeted
<1>5. Fed'
  <2>1. 1..setup.last \subseteq Commands
    BY ZenonT(60) DEF PInv, ProcessTypeOK, SetupOK
  <2>2. Unfed' = Unfed
    BY ZenonT(60), <1>m, <1>u, <2>1 DEF Unfed, Moves, Goes
  <2> QED
    BY ZenonT(60), <1>m, <1>u, <2>2 DEF PInv, Fed, Moves, Goes, FeederStops,
       Unfed
<1> QED
  BY ZenonT(60), <1>1, <1>2, <1>3, <1>4, <1>5 DEF PInv

\* A fresh block has started no process.
LEMMA PInvInit == ProcessInit => PInv
<1> SUFFICES ASSUME ProcessInit PROVE PInv
  BY Zenon
<1>1. SetupOK(setup) /\ 1 \in 1..setup.last /\ setup.last \in Nat
  <2>1. SetupOK(setup)
    BY Zenon DEF ProcessInit
  <2>2. setup.last \in Nat \ {0}
    BY ZenonT(60), <2>1 DEF SetupOK
  <2> QED
    BY SMTT(60), <2>1, <2>2
<1>2. ProcessTypeOK
  <2>1. child \in [Commands -> Child]
    BY ZenonT(60) DEF ProcessInit, Child, Leaders
  <2> QED
    BY ZenonT(60), <1>1, <2>1 DEF ProcessInit, ProcessTypeOK, Threads
<1>3. Fresh /\ Registered /\ Pumped /\ Joined
  <2>1. \A i \in Commands : child[i].leader = "none" /\ ~child[i].reaped /\ ~(i < cur)
    BY SMTT(60) DEF ProcessInit, Commands
  <2> QED
    BY ZenonT(60), <2>1 DEF ProcessInit, Fresh, Registered, Pumped, Joined
<1>4. KillersFire /\ Targeted
  BY ZenonT(60) DEF ProcessInit, KillersFire, Targeted
<1>5. Fed
  <2>1. Unfed = {}
    BY ZenonT(60), <1>1 DEF ProcessInit, Unfed, SetupOK
  <2>2. Cardinality(Unfed) = 0
    BY ZenonT(60), <2>1, FS_EmptySet
  <2> QED
    BY SMTT(60), <2>2 DEF ProcessInit, Fed, FeederStops, Unfed
<1> QED
  BY ZenonT(60), <1>2, <1>3, <1>4, <1>5 DEF PInv

\* Every step preserves the invariant.
LEMMA PInvStep == PInv /\ [ProcessNext]_processVars => PInv'
<1> SUFFICES ASSUME PInv, [ProcessNext]_processVars PROVE PInv'
  BY Zenon
<1>1. CASE RunnerStep
  BY ZenonT(60), <1>1, SpawnKeeps, RunnerKeeps
<1>2. CASE \E a \in Killers \cup {Runner} : KillStep(a)
  BY ZenonT(60), <1>2, KillKeeps DEF Threads
<1>3. CASE \E k \in Killers : KillerFires(k) \/ KillerStep(k)
  BY ZenonT(60), <1>3, KillerKeeps
<1>4. CASE \E i \in Commands : PumpStep(i) \/ FeederStep(i)
  BY ZenonT(60), <1>4, OutsideKeeps, FeederKeeps
<1>5. CASE SystemStep
  BY ZenonT(60), <1>5, OutsideKeeps
<1>6. CASE UNCHANGED processVars
  <2>1. ProcessTypeOK'
    BY ZenonT(60), <1>6 DEF processVars, PInv, ProcessTypeOK
  <2>2. Fresh' /\ Registered' /\ Joined'
    BY ZenonT(60), <1>6 DEF processVars, PInv, Fresh, Registered, Joined
  <2>3. KillersFire' /\ Targeted'
    BY ZenonT(60), <1>6 DEF processVars, PInv, KillersFire, Targeted, OnTarget
  <2>4. Pumped'
    BY ZenonT(60), <1>6 DEF processVars, PInv, Pumped, Piped, TreeAlive, Alive
  <2>5. Fed'
    BY ZenonT(60), <1>6 DEF processVars, PInv, Fed, FeederStops
  <2> QED
    BY ZenonT(60), <2>1, <2>2, <2>3, <2>4, <2>5 DEF PInv
<1> QED
  BY ZenonT(60), <1>1, <1>2, <1>3, <1>4, <1>5, <1>6 DEF ProcessNext

\* The invariant holds in every state of every block of RUN steps.
THEOREM ProcessInductive == ProcessSpec => []PInv
BY PInvInit, PInvStep, PTL DEF ProcessSpec

\* No worker waits for a leader that a kill missed, wherever between the
\* spawn, the registration and the second look at the token the kill landed.
THEOREM KillMissesNothing == ProcessSpec => []KillReachesChild
<1>1. PInv => KillReachesChild
  BY Zenon DEF PInv, KillersFire, Targeted, OnTarget, KillReachesChild
<1> QED
  BY <1>1, ProcessInductive, PTL

\* A RUN that returned has forwarded all that its process tree wrote, and an
\* abandoned stdin feeder has swallowed at most one chunk.
THEOREM StreamsStayIntact == ProcessSpec => []StreamsIntact
<1>1. PInv => OutputComplete
  <2> SUFFICES ASSUME PInv, NEW i \in Commands, child[i].reaped,
                      i < cur \/ pc \in {"clear", "return", "ok"},
                      NEW s \in Piped \ setup.broken
               PROVE  ~TreeAlive(i) /\ child[i].sunk[s] = child[i].written[s]
    BY ZenonT(60) DEF OutputComplete
  <2>1. child[i].leader # "none"
    BY ZenonT(60) DEF PInv, Fresh
  <2>2. i < cur \/ (i = cur /\ pc \in {"clear", "return", "ok"})
    BY SMTT(60), <2>1 DEF PInv, Fresh, ProcessTypeOK, SetupOK, Commands
  <2>3. child[i].pumps = {}
    BY Zenon, <2>2 DEF PInv, Joined
  <2> QED
    BY ZenonT(60), <2>1, <2>3 DEF PInv, Pumped
<1>2. PInv => FeederStops
  BY Zenon DEF PInv, Fed
<1> QED
  BY <1>1, <1>2, ProcessInductive, PTL DEF StreamsIntact
=============================================================================
