---------------------------- MODULE MCSendBuffer ----------------------------
(* Instances of SendBuffer for TLC. *)
EXTENDS SendBuffer, SequencesExt

CONSTANTS w1, w2

\* A message that fits a buffer, one that ends inside the second, and one that needs
\* m_tmpbuf when the kernel takes nothing of it.
MCLengths == {1, 3, 5}

\* The loop of _sendv: a part is copied to the last buffer as long as there is room in
\* it, and from there to new ones, before the next part.
Fillv(p, parts) == FoldLeft(Fill, p, parts)

\* Part by part the buffers get what they get of the parts in one.
ASSUME PartsAreOneMessage ==
    \A used \in 0..SendBufSize, parts \in BoundedSeq(0..(SendBufSize + 1), 3) :
        LET p == IF used = 0 THEN <<>> ELSE <<[data |-> Message(1, used), sent |-> 0]>>
            iov == [i \in DOMAIN parts |-> Message(i + 1, parts[i])]
        IN  Fillv(p, iov) = Fill(p, FlattenSeq(iov))
=============================================================================
