------------------------------ MODULE Storage ------------------------------
(***************************************************************************)
(* The data of an object: in a dynamic buffer up to heap_data_limit, and   *)
(* in a temporary file beyond (memcache::object, tempfile).  Expiration    *)
(* time, lock and CAS number are in Memcache.                              *)
(***************************************************************************)
EXTENDS DynBuf, Numerals

CONSTANT heap_data_limit

\* Numerals are short: they have up to 20 digits, and config.cpp wants 4096 bytes or more.
ASSUME StorageAssumption ==
    /\ heap_data_limit \in Nat
    /\ \A n \in 0..(2^Width - 1) :
          s_value(n) \in Seq(Nat) /\ Len(s_value(n)) <= heap_data_limit

\* m_file = nullptr.
NoFile == [open |-> FALSE, bytes |-> <<>>]

\* tempfile::write after new tempfile, tempfile::write at the end, and
\* tempfile::clear followed by write.
NewFile(p) == [open |-> TRUE, bytes |-> p]
write(f, p) == [f EXCEPT !.bytes = @ \o p]

\* The constructors.
object(p) ==
    IF Len(p) > heap_data_limit
    THEN [length |-> Len(p), data |-> dynbuf(0), file |-> NewFile(p)]
    ELSE [length |-> Len(p), data |-> append(dynbuf(0), p), file |-> NoFile]

\* A numeral has at most Width digits, as s_value in the code has room for all.
number_object(initial) ==
    [length |-> Len(s_value(initial)),
     data |-> append(dynbuf(Width), s_value(initial)), file |-> NoFile]

object_size(o) == IF o.file.open THEN Len(o.file.bytes) ELSE size(o.data)

\* object::data, with read_contents.
contents(o) == IF o.file.open THEN o.file.bytes ELSE o.data.bytes

object_set(o, p) ==
    IF Len(p) > heap_data_limit
    THEN [length |-> Len(p), data |-> reset(o.data), file |-> NewFile(p)]
    ELSE [length |-> Len(p), data |-> append(reset(o.data), p), file |-> NoFile]

\* The first m_length bytes of the buffer.
HeapBytes(o) == SubSeq(o.data.bytes, 1, o.length)

\* Mutation: the buffer is kept when the data move to a file.
AppendKeepsBuffer(o, p) ==
    LET new_size == o.length + Len(p)
    IN  CASE p = <<>> -> o
          [] p # <<>> /\ new_size > heap_data_limit ->
               [o EXCEPT !.length = new_size,
                         !.file = write(IF @.open THEN @ ELSE NewFile(HeapBytes(o)), p)]
          [] OTHER ->
               [o EXCEPT !.length = new_size, !.data = append(@, p)]

object_append(o, p) ==
    LET new_size == o.length + Len(p)
    IN  CASE p = <<>> -> o
          [] p # <<>> /\ new_size > heap_data_limit /\ ~ o.file.open ->
               [length |-> new_size, data |-> reset(o.data),
                file |-> write(NewFile(HeapBytes(o)), p)]
          [] p # <<>> /\ new_size > heap_data_limit /\ o.file.open ->
               [o EXCEPT !.length = new_size, !.file = write(@, p)]
          [] OTHER ->
               [o EXCEPT !.length = new_size, !.data = append(@, p)]

\* Mutation: the new data go behind the old ones in a buffer.
PrependBehind(o, p) ==
    LET new_size == o.length + Len(p)
    IN  CASE p = <<>> -> o
          [] p # <<>> /\ new_size > heap_data_limit ->
               [length |-> new_size, data |-> reset(o.data),
                file |-> NewFile(p \o contents(o))]
          [] OTHER ->
               [o EXCEPT !.length = new_size, !.data = append(@, p)]

object_prepend(o, p) ==
    LET new_size == o.length + Len(p)
        buf == append(dynbuf(new_size), p)
    IN  CASE p = <<>> -> o
          [] p # <<>> /\ new_size > heap_data_limit /\ ~ o.file.open ->
               [length |-> new_size, data |-> reset(o.data),
                file |-> write(NewFile(p), HeapBytes(o))]
          [] p # <<>> /\ new_size > heap_data_limit /\ o.file.open ->
               [o EXCEPT !.length = new_size,
                         !.file = NewFile(SubSeq(append(buf, @.bytes).bytes, 1, new_size))]
          [] OTHER ->
               [o EXCEPT !.length = new_size,
                         !.data = swap(@, append(buf, HeapBytes(o)))]

\* object::incr and object::decr, which throw not_a_number for other data.
not_a_number(o) == o.file.open \/ to_uint64(HeapBytes(o)) = NaN

store_number(o, n) ==
    [o EXCEPT !.length = Len(s_value(n)), !.data = append(reset(@), s_value(n))]

object_incr(o, n) == store_number(o, (to_uint64(HeapBytes(o)) + n) % 2^Width)

object_decr(o, n) ==
    LET u == to_uint64(HeapBytes(o))
    IN  store_number(o, IF u < n THEN 0 ELSE u - n)
=============================================================================
