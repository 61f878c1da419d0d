------------------------------ MODULE Protocol ------------------------------
(***************************************************************************)
(* The request parsers: text_request and binary_request of memcache,       *)
(* request of the counter protocol, and the messages of replication.       *)
(*                                                                         *)
(* Received bytes are a sequence of cells.  A cell is a word or a number   *)
(* of a text line with the spaces before it, the CR or the LF at its end,  *)
(* one byte of data, the first part of a binary header with the fields     *)
(* that matter, another part of a header, or four bytes of extras.  All    *)
(* lengths count cells, except that of the extras, which counts bytes.     *)
(***************************************************************************)
EXTENDS Integers, SequencesExt, TLC

CONSTANTS
    BINARY_HEADER_SIZE,  \* of memcache and of replication
    HEADER_SIZE,         \* of the counter protocol
    MAX_KEY_LENGTH,
    MAX_REQUEST_LENGTH,
    EXPTIME_THRESHOLD,   \* larger expiration times are absolute
    Max32,               \* largest std::uint32_t
    MaxTime,             \* largest std::time_t
    Max64                \* largest std::uint64_t

ASSUME ProtocolAssumption ==
    /\ {BINARY_HEADER_SIZE, HEADER_SIZE} \subseteq Nat \ {0}
    /\ {MAX_KEY_LENGTH, MAX_REQUEST_LENGTH, EXPTIME_THRESHOLD, Max32, MaxTime,
        Max64} \subseteq Nat
    /\ Max32 < MaxTime /\ MaxTime < Max64

CR == [t |-> "CR"]
LF == [t |-> "LF"]
Word(w) == [t |-> "word", w |-> w]
Num(n) == [t |-> "num", n |-> n]
Byte(b) == [t |-> "byte", b |-> b]
Rest == [t |-> "rest"]
Header(magic, op, key_len, extras_len, total_len, cas) ==
    [t |-> "head", magic |-> magic, op |-> op, key_len |-> key_len,
     extras_len |-> extras_len, total_len |-> total_len, cas |-> cas]

\* The members of the three request classes.  length = 0: incomplete.
Request == [length |-> 0, status |-> "Invalid", command |-> "Unknown",
            quiet |-> FALSE, keys |-> <<>>, flags |-> 0, exptime |-> 0, cas |-> 0,
            value |-> 0, initial |-> 0, word |-> "", data |-> <<>>]

EXPTIME_NONE == -1

-----------------------------------------------------------------------------
(* Text protocol.  strtoull takes a sign, and negates modulo 2^64.  It     *)
(* reports an overflow by its result, the largest 64-bit number, and by    *)
(* errno, which nobody clears before the call: an earlier overflow makes   *)
(* the largest number itself unacceptable.  erange: errno = ERANGE.        *)

strtoull(x) == IF x.n < 0 THEN Max64 + 1 + x.n ELSE x.n

TooLong(x) == x.n \notin (-Max64)..Max64

to_uint(x, max, erange) ==
    /\ x.t = "num" /\ ~ TooLong(x) /\ strtoull(x) <= max
    /\ ~ (strtoull(x) = Max64 /\ erange)

\* Mutation: off by one at the threshold.
AbsoluteFromThreshold(t, now) == IF t >= EXPTIME_THRESHOLD THEN t ELSE now + t

absolute(t, now) == IF t > EXPTIME_THRESHOLD THEN t ELSE now + t

exptime(t, now) == IF t = 0 THEN 0 ELSE absolute(t, now)

Largest(kind) == CASE kind = "u32" -> Max32 [] kind = "time" -> MaxTime
                   [] kind = "u64" -> Max64

\* The words ws begin with arguments of these kinds, the first n of them.
Accepted(ws, kinds, n, erange) ==
    /\ n <= Len(ws)
    /\ \A i \in 1..n : kinds[i] # "key" => to_uint(ws[i], Largest(kinds[i]), erange)

\* strtoull meets a number that is too large for it.
Overflows(ws, kinds) ==
    \E i \in DOMAIN kinds : /\ Accepted(ws, kinds, i - 1, FALSE)
                            /\ i <= Len(ws) /\ kinds[i] # "key"
                            /\ ws[i].t = "num" /\ TooLong(ws[i])

\* After its arguments a line ends, or ends after the word noreply.
EndsWell(ws, n) ==
    LET rest == SubSeq(ws, n + 1, Len(ws)) IN rest \in {<<>>, <<Word("noreply")>>}

noreply(ws, n) == SubSeq(ws, n + 1, Len(ws)) = <<Word("noreply")>>

storage_commands == {"set", "add", "replace", "append", "prepend", "cas"}

Arguments(command, ws) ==
    CASE command \in storage_commands \ {"cas"} -> <<"key", "u32", "time", "u32">>
      [] command = "cas" -> <<"key", "u32", "time", "u32", "u64">>
      [] command = "touch" -> <<"key", "time">>
      [] command \in {"incr", "decr"} -> <<"key", "u64">>
      [] command \in {"delete", "lock", "unlock", "verbosity", "get", "gets"} -> <<"key">>
      [] command = "flush_all" /\ ws # <<>> /\ ws[1].t = "num" /\ ws[1].n >= 0 -> <<"time">>
      [] OTHER -> <<>>

OK(r) == [r EXCEPT !.status = "OK"]

\* r is the request so far, ws what follows the command, p what follows the line.
parse_storage(r, ws, p, now) ==
    LET n == IF r.command = "cas" THEN 5 ELSE 4
        nbytes == strtoull(ws[4])
        q == [r EXCEPT !.length = @ + nbytes + 2]
    IN  IF ~ EndsWell(ws, n) THEN r
        ELSE IF Len(p) < nbytes + 2 THEN Request
        ELSE IF p[nbytes + 1] # CR \/ p[nbytes + 2] # LF THEN q
        ELSE OK([q EXCEPT !.keys = <<ws[1]>>, !.flags = strtoull(ws[2]),
                          !.exptime = exptime(strtoull(ws[3]), now),
                          !.cas = IF n = 5 THEN strtoull(ws[5]) ELSE 0,
                          !.data = SubSeq(p, 1, nbytes), !.quiet = noreply(ws, n)])

parse_touch(r, ws, now) ==
    IF EndsWell(ws, 2)
    THEN OK([r EXCEPT !.keys = <<ws[1]>>, !.exptime = exptime(strtoull(ws[2]), now),
                      !.quiet = noreply(ws, 2)])
    ELSE r

parse_incdec(r, ws) ==
    IF EndsWell(ws, 2)
    THEN OK([r EXCEPT !.keys = <<ws[1]>>, !.value = strtoull(ws[2]),
                      !.quiet = noreply(ws, 2)])
    ELSE r

parse_delete(r, ws) ==
    IF EndsWell(ws, 1)
    THEN OK([r EXCEPT !.keys = <<ws[1]>>, !.quiet = noreply(ws, 1)]) ELSE r

\* Any word is a level; the unknown ones mean info.
parse_verbosity(r, ws) ==
    IF EndsWell(ws, 1)
    THEN OK([r EXCEPT !.quiet = noreply(ws, 1),
                      !.word = IF ws[1].t = "word" /\ ws[1].w \in {"error", "warning", "debug"}
                               THEN ws[1].w ELSE "info"])
    ELSE r

parse_flushall(r, ws, now) ==
    LET n == Len(Arguments("flush_all", ws))
    IN  IF EndsWell(ws, n)
        THEN OK([r EXCEPT !.quiet = noreply(ws, n),
                          !.exptime = IF n = 1 THEN absolute(ws[1].n, now) ELSE now])
        ELSE r

parse_lock(r, ws) == IF Len(ws) = 1 THEN OK([r EXCEPT !.keys = ws]) ELSE r

\* first_key and next_key go through all words up to the CR.
parse_get(r, ws) == OK([r EXCEPT !.keys = ws])

parse_keys(r, ws) == OK([r EXCEPT !.keys = SubSeq(ws, 1, 1)])

stats_categories == {"settings", "items", "sizes", "ops"}

parse_stats(r, ws) ==
    CASE ws = <<>> -> OK(r)
      [] ws # <<>> /\ ws[1].t = "word" /\ ws[1].w \in stats_categories ->
             OK([r EXCEPT !.word = ws[1].w])
      [] OTHER -> r

\* text_request::parse with the functions it calls.
text_request(p, now, erange) ==
    LET eol == SelectInSeq(p, LAMBDA x : x = LF)
        command == IF eol > 2 /\ p[1].t = "word" THEN p[1].w ELSE "Unknown"
        ws == SubSeq(p, 2, eol - 2)
        kinds == Arguments(command, ws)
        r == [Request EXCEPT !.length = eol, !.command = command]
    IN  CASE eol <= 1 -> [Request EXCEPT !.length = eol]
          [] eol > 1 /\ p[eol - 1] # CR -> [Request EXCEPT !.length = eol]
          [] OTHER ->
               IF ~ Accepted(ws, kinds, Len(kinds), erange) THEN r
               ELSE CASE command \in storage_commands ->
                           parse_storage(r, ws, SubSeq(p, eol + 1, Len(p)), now)
                      [] command = "touch" -> parse_touch(r, ws, now)
                      [] command \in {"incr", "decr"} -> parse_incdec(r, ws)
                      [] command = "delete" -> parse_delete(r, ws)
                      [] command = "verbosity" -> parse_verbosity(r, ws)
                      [] command = "flush_all" -> parse_flushall(r, ws, now)
                      [] command \in {"lock", "unlock"} -> parse_lock(r, ws)
                      [] command \in {"get", "gets"} -> parse_get(r, ws)
                      [] command = "keys" -> parse_keys(r, ws)
                      [] command = "stats" -> parse_stats(r, ws)
                      [] command \in {"unlock_all", "version", "slabs", "quit"} -> OK(r)
                      [] OTHER -> [r EXCEPT !.command = "Unknown"]

\* errno after that parse.
text_errno(p, erange) ==
    LET eol == SelectInSeq(p, LAMBDA x : x = LF)
        ws == SubSeq(p, 2, eol - 2)
    IN  \/ erange
        \/ /\ eol > 2 /\ p[eol - 1] = CR /\ p[1].t = "word"
           /\ Overflows(ws, Arguments(p[1].w, ws))

-----------------------------------------------------------------------------
(* Binary protocol *)

get_ops == {"Get", "GetQ", "GetK", "GetKQ", "GaT", "GaTQ", "GaTK", "GaTKQ",
            "LaG", "LaGQ", "LaGK", "LaGKQ"}
set_ops == {"Set", "SetQ", "Add", "AddQ", "Replace", "ReplaceQ", "RaU", "RaUQ"}
key_ops == {"Delete", "DeleteQ", "Lock", "LockQ", "Unlock", "UnlockQ"}
incdec_ops == {"Increment", "IncrementQ", "Decrement", "DecrementQ"}
append_ops == {"Append", "AppendQ", "Prepend", "PrependQ"}
flush_ops == {"Flush", "FlushQ"}
free_ops == {"Quit", "QuitQ", "Version", "Noop", "UnlockAll", "UnlockAllQ"}
binary_ops == get_ops \cup set_ops \cup key_ops \cup incdec_ops \cup append_ops
                  \cup flush_ops \cup free_ops \cup {"Touch", "Stat", "Keys"}

quiet(op) == op \in {"GetQ", "GetKQ", "SetQ", "AddQ", "ReplaceQ", "DeleteQ",
                     "IncrementQ", "DecrementQ", "QuitQ", "FlushQ", "AppendQ",
                     "PrependQ", "GaTQ", "GaTKQ", "LockQ", "UnlockQ",
                     "UnlockAllQ", "LaGQ", "LaGKQ", "RaUQ"}

\* The lengths that the switch accepts.
WellFormed(op, extras_len, key_len, data_len) ==
    CASE op \in get_ops -> extras_len \in {0, 4} /\ key_len > 0 /\ data_len = 0
      [] op \in set_ops -> extras_len = 8 /\ key_len > 0 /\ data_len > 0
      [] op \in key_ops -> extras_len = 0 /\ key_len > 0 /\ data_len = 0
      [] op \in incdec_ops -> extras_len = 20 /\ key_len > 0 /\ data_len = 0
      [] op \in append_ops -> extras_len = 0 /\ key_len > 0 /\ data_len > 0
      [] op \in flush_ops -> extras_len \in {0, 4} /\ key_len = 0 /\ data_len = 0
      [] op = "Touch" -> extras_len = 4 /\ key_len > 0 /\ data_len = 0
      [] op \in {"Stat", "Keys"} -> extras_len = 0 /\ data_len = 0
      [] op \in free_ops -> TRUE

is_binary_request(p) == p[1].t = "head"

binary_exptime(t, now) ==
    CASE t = 0 -> 0
      [] t = Max32 -> EXPTIME_NONE
      [] t > EXPTIME_THRESHOLD /\ t # Max32 -> t
      [] OTHER -> now + t

\* Where the extras hold flags, numbers and the expiration time, in cells.  A
\* 64-bit number takes two cells; its value is in the first.
Fields(op, extras, now) ==
    LET Time(i) == binary_exptime(extras[i].n, now)
    IN  CASE op \in get_ops ->
               [exptime |-> IF extras = <<>> THEN EXPTIME_NONE ELSE Time(1)]
          [] op \in flush_ops -> [exptime |-> IF extras = <<>> THEN now ELSE Time(1)]
          [] op = "Touch" -> [exptime |-> Time(1)]
          [] op \in set_ops -> [flags |-> extras[1].n, exptime |-> Time(2)]
          [] op \in incdec_ops -> [value |-> extras[1].n, initial |-> extras[3].n,
                                   exptime |-> Time(5)]
          [] OTHER -> <<>>

Category(op, key) ==
    IF op = "Stat" /\ Len(key) = 1 /\ key[1].t = "word" /\ key[1].w \in stats_categories
    THEN key[1].w ELSE ""

\* binary_request::parse.  A key is a sequence of cells.
binary_request(p, now) ==
    LET h == p[1]
        body == SubSeq(p, BINARY_HEADER_SIZE + 1, BINARY_HEADER_SIZE + h.total_len)
        extras_cells == h.extras_len \div 4
        extras == SubSeq(body, 1, extras_cells)
        key == SubSeq(body, extras_cells + 1, extras_cells + h.key_len)
        data == SubSeq(body, extras_cells + h.key_len + 1, Len(body))
        r == [Request EXCEPT !.length = BINARY_HEADER_SIZE + h.total_len,
                             !.command = h.op, !.quiet = quiet(h.op)]
        k == [r EXCEPT !.keys = IF key = <<>> THEN <<>> ELSE <<key>>, !.cas = h.cas]
        d == [k EXCEPT !.data = data]
    IN  CASE \/ Len(p) < BINARY_HEADER_SIZE
             \/ Len(p) < BINARY_HEADER_SIZE + h.total_len -> Request
          [] OTHER ->
               IF h.key_len > MAX_KEY_LENGTH \/ h.total_len < h.key_len + extras_cells
               THEN r
               ELSE IF Len(data) > MAX_REQUEST_LENGTH
               THEN [k EXCEPT !.status = "TooLargeValue"]
               ELSE IF h.op \notin binary_ops
               THEN [d EXCEPT !.command = "Unknown", !.status = "UnknownCommand"]
               ELSE IF ~ WellFormed(h.op, h.extras_len, h.key_len, Len(data))
               THEN d
               ELSE OK(Fields(h.op, extras, now) @@
                       [d EXCEPT !.word = Category(h.op, key)])
-----------------------------------------------------------------------------
(* Counter protocol *)

\* Get, Release and Acquire have numbers before the length of the name.
Numbers(op) == CASE op = "Get" -> 0 [] op = "Release" -> 1 [] op = "Acquire" -> 2

\* request::parse.
counter_request(p) ==
    LET h == p[1]
        n == Numbers(h.op)
        body == SubSeq(p, HEADER_SIZE + 1, HEADER_SIZE + h.total_len)
        name_len == body[n + 1].n
        r == [Request EXCEPT !.length = HEADER_SIZE + h.total_len, !.command = h.op]
    IN  CASE Len(p) < HEADER_SIZE \/ Len(p) < HEADER_SIZE + h.total_len -> Request
          [] OTHER ->
               IF ~ h.magic THEN r
               ELSE IF h.op \in {"Noop", "Stats", "Dump"} THEN OK(r)
               ELSE IF h.op \notin {"Get", "Release", "Acquire"}
               THEN [r EXCEPT !.command = "Unknown", !.status = "UnknownCommand"]
               ELSE IF \/ h.total_len < n + 1
                       \/ h.op = "Acquire" /\ (body[1].n = 0 \/ body[2].n < body[1].n)
                       \/ name_len = 0 \/ n + 1 + name_len > h.total_len
               THEN r
               ELSE OK([r EXCEPT !.keys = <<SubSeq(body, n + 2, n + 1 + name_len)>>,
                                 !.value = IF n > 0 THEN body[1].n ELSE 0,
                                 !.initial = IF n > 1 THEN body[2].n ELSE 0])

-----------------------------------------------------------------------------
(* Messages of replication.  An object has data, flags and an expiration   *)
(* time; object::exptime cuts the latter to 32 bits.                       *)

Filler(n) == [i \in 1..n |-> Rest]

fill_header(key_len, extras_len, data_len, op) ==
    <<Header(TRUE, op, key_len, extras_len, key_len + extras_len \div 4 + data_len, 0)>>
        \o Filler(BINARY_HEADER_SIZE - 1)

object_exptime(obj) == obj.exptime % (Max32 + 1)

repl_object(key, obj) ==
    fill_header(Len(key), 8, Len(obj.data), "SetQ")
        \o <<Num(obj.flags), Num(object_exptime(obj))>> \o key \o obj.data

repl_touch(key, obj) ==
    fill_header(Len(key), 4, 0, "Touch") \o <<Num(object_exptime(obj))>> \o key

repl_delete(key) == fill_header(Len(key), 0, 0, "DeleteQ") \o key

\* One round of the loop in repl_recv: the hash after request r.  The status of
\* the request is not looked at.
repl_apply(hash, r) ==
    LET key == r.keys[1]
    IN  CASE r.command = "SetQ" ->
               (key :> [data |-> r.data, flags |-> r.flags, exptime |-> r.exptime]) @@ hash
          [] r.command = "Touch" /\ key \in DOMAIN hash ->
               [hash EXCEPT ![key].exptime = r.exptime]
          [] r.command = "DeleteQ" ->
               [k \in DOMAIN hash \ {key} |-> hash[k]]
          [] OTHER -> hash
=============================================================================
