------------------------------- MODULE DynBuf -------------------------------
(***************************************************************************)
(* cybozu::dynbuf as a value: its contents (m_used is their length), its   *)
(* capacity and the capacity it shrinks to.                                *)
(***************************************************************************)
EXTENDS Integers, Sequences

dynbuf(default_capacity) ==
    [bytes |-> <<>>, cap |-> default_capacity, dflt |-> default_capacity]

size(b) == Len(b.bytes)

freebytes(b) == b.cap - size(b)

enlarge(b, additional) == [b EXCEPT !.cap = @ + additional]

reset(b) == [b EXCEPT !.bytes = <<>>, !.cap = b.dflt]

prepare(b, len) == IF freebytes(b) < len THEN enlarge(b, len) ELSE b

\* The caller has written data to the free space.
consume(b, data) == [b EXCEPT !.bytes = @ \o data]

append(b, data) == consume(prepare(b, Len(data)), data)

\* Larger lengths than the size throw.
erase(b, len) ==
    LET remain == SubSeq(b.bytes, len + 1, size(b))
    IN  CASE len = 0 -> b
          [] len > 0 /\ remain = <<>> -> reset(b)
          [] OTHER -> [b EXCEPT !.bytes = remain,
                                !.cap = IF Len(remain) <= b.dflt THEN b.dflt ELSE @]

\* m_p, m_capacity and m_used change places; the default capacity stays.
swap(b, other) == [b EXCEPT !.bytes = other.bytes, !.cap = other.cap]
=============================================================================
