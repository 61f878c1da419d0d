------------------------------ MODULE Numerals ------------------------------
(***************************************************************************)
(* Numbers as object data: what std::stoull reads and snprintf writes.     *)
(* Digits are the bytes 0 to Base - 1; then come a space and the signs.    *)
(***************************************************************************)
EXTENDS Integers, Sequences, FiniteSets

CONSTANTS
    Base,      \* of the digits, 10 in the code
    Width      \* bits of a number, 64 in the code

ASSUME NumeralsAssumption == Base \in Nat \ {0, 1} /\ Width \in Nat \ {0}

NaN == -1

Space == Base
Plus == Base + 1
Minus == Base + 2

\* The number of bytes in B that s begins with.
Span(s, B) ==
    CHOOSE i \in 0..Len(s) : /\ \A j \in 1..i : s[j] \in B
                             /\ i < Len(s) => s[i + 1] \notin B

Unspaced(s) == SubSeq(s, Span(s, {Space}) + 1, Len(s))

BeginsWith(s, B) == s # <<>> /\ s[1] \in B

\* The digits that s begins with, after spaces and a sign.
Digits(s) ==
    LET t == Unspaced(s)
        u == IF BeginsWith(t, {Plus, Minus}) THEN Tail(t) ELSE t
    IN  SubSeq(u, 1, Span(u, 0..(Base - 1)))

Number(ds) ==
    LET first[i \in 0..Len(ds)] == IF i = 0 THEN 0 ELSE first[i - 1] * Base + ds[i]
    IN  first[Len(ds)]

\* std::stoull: what follows the digits is ignored; no digits, or a number that is
\* too large, is an exception.  A minus sign negates modulo 2^Width.
to_uint64(s) ==
    LET n == Number(Digits(s))
    IN  IF Digits(s) = <<>> \/ n \notin 0..(2^Width - 1) THEN NaN
        ELSE IF BeginsWith(Unspaced(s), {Minus}) THEN (2^Width - n) % 2^Width ELSE n

\* snprintf with %llu: one digit for every power of Base up to n.
s_value(n) ==
    LET len == Cardinality({i \in 1..Width : i = 1 \/ Base^(i - 1) <= n})
    IN  [i \in 1..len |-> (n \div Base^(len - i)) % Base]
=============================================================================
