------------------------------ MODULE ByteQueue ------------------------------
(***************************************************************************)
(* What a buffer behind a script pipe or a capture promises its users: the *)
(* bytes that were accepted come out once, in order, whatever the storage  *)
(* behind it.  A read may fail after it removed the last bytes (then they  *)
(* reach nobody); nothing else loses a byte.                               *)
(***************************************************************************)
EXTENDS Naturals, Sequences

CONSTANTS
    Byte        \* the byte values that occur

VARIABLES
    queue,      \* accepted and not yet taken
    delivered   \* everything handed to readers, in order

vars == <<queue, delivered>>

Init ==
    /\ queue = <<>>
    /\ delivered = <<>>

\* A push that is reported successful appends the whole of its data.
Push ==
    /\ queue' \in Seq(Byte)
    /\ Len(queue') >= Len(queue)
    /\ SubSeq(queue', 1, Len(queue)) = queue
    /\ UNCHANGED delivered

\* A read hands out a non-empty prefix.
Take ==
    \E n \in 1..Len(queue) :
        /\ delivered' = delivered \o SubSeq(queue, 1, n)
        /\ queue' = SubSeq(queue, n + 1, Len(queue))

\* A read that empties the queue may fail afterwards.
TakeAllFails ==
    /\ queue # <<>>
    /\ queue' = <<>>
    /\ UNCHANGED delivered

Next == Push \/ Take \/ TakeAllFails

Spec == Init /\ [][Next]_vars
=============================================================================
