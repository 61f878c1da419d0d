----------------------------- MODULE MCFraming -----------------------------
(* A memcache and a counter connection on one worker, or a slave.           *)
EXTENDS Framing

CONSTANTS m, c

MCConns == {m, c}
MCProto == [x \in MCConns |-> IF x = m THEN "memcache" ELSE "counter"]

K == Word("k")
J == Word("j")
B == Byte(1)

Sample(wire, r) == [wire |-> wire, means |-> [r EXCEPT !.length = Len(wire)]]
R(command) == [Request EXCEPT !.command = command, !.status = "OK"]
Bad(command) == [Request EXCEPT !.command = command]

\* Text requests: words, and data for the storage commands.
Text(ws, r) == Sample(ws \o <<CR, LF>>, r)
Store(ws, data, r) == Sample(ws \o <<CR, LF>> \o data \o <<CR, LF>>, r)
W(w) == Word(w)
NR == Word("noreply")

TextSamples ==
    {Store(<<W(x), K, Num(1), Num(2), Num(1)>>, <<B>>,
           [R(x) EXCEPT !.keys = <<K>>, !.flags = 1, !.exptime = Now + 2, !.data = <<B>>])
         : x \in {"set", "append"}}
    \cup
    {Store(<<W("add"), K, Num(0), Num(0), Num(0), NR>>, <<>>,
           [R("add") EXCEPT !.keys = <<K>>, !.quiet = TRUE]),
     \* Data that look like lines.
     Store(<<W("set"), K, Num(0), Num(MaxTime), Num(3)>>, <<W("quit"), CR, LF>>,
           [R("set") EXCEPT !.keys = <<K>>, !.exptime = MaxTime,
                            !.data = <<W("quit"), CR, LF>>]),
     Store(<<W("cas"), K, Num(0), Num(0), Num(1), Num(Max64)>>, <<LF>>,
           [R("cas") EXCEPT !.keys = <<K>>, !.cas = Max64, !.data = <<LF>>]),
     \* Wrong length, missing length, flags or time out of range.
     Sample(<<W("set"), K, Num(0), Num(0), Num(1), CR, LF, B, B, CR>>, Bad("set")),
     Text(<<W("set"), K, Num(0), Num(0)>>, Bad("set")),
     Text(<<W("set"), K, Num(Max32 + 1), Num(0), Num(1)>>, Bad("set")),
     Text(<<W("touch"), K, Num(MaxTime + 1)>>, Bad("touch")),
     Text(<<W("touch"), K, Num(2), NR>>,
          [R("touch") EXCEPT !.keys = <<K>>, !.exptime = Now + 2, !.quiet = TRUE]),
     Text(<<W("incr"), K, Num(Max64)>>, [R("incr") EXCEPT !.keys = <<K>>, !.value = Max64]),
     Text(<<W("decr"), K, Num(Max64 + 1)>>, Bad("decr")),
     \* A minus sign: taken modulo 2^64, but not in place of a time.
     Text(<<W("incr"), K, Num(-2)>>,
          [R("incr") EXCEPT !.keys = <<K>>, !.value = Max64 - 1]),
     Text(<<W("touch"), K, Num(-1)>>, Bad("touch")),
     Text(<<W("flush_all"), Num(-Max64)>>, Bad("flush_all")),
     Text(<<W("decr"), K, J>>, Bad("decr")),
     Text(<<W("delete"), K, Num(0)>>, Bad("delete")),
     Text(<<W("delete"), K, NR>>, [R("delete") EXCEPT !.keys = <<K>>, !.quiet = TRUE]),
     Text(<<W("flush_all")>>, [R("flush_all") EXCEPT !.exptime = Now]),
     Text(<<W("flush_all"), Num(1), NR>>,
          [R("flush_all") EXCEPT !.exptime = Now + 1, !.quiet = TRUE]),
     Text(<<W("verbosity"), W("debug")>>, [R("verbosity") EXCEPT !.word = "debug"]),
     Text(<<W("lock"), K>>, [R("lock") EXCEPT !.keys = <<K>>]),
     Text(<<W("unlock"), K, J>>, Bad("unlock")),
     Text(<<W("unlock_all"), K>>, R("unlock_all")),
     Text(<<W("gets"), K, J, K>>, [R("gets") EXCEPT !.keys = <<K, J, K>>]),
     Text(<<W("get")>>, Bad("get")),
     Text(<<W("keys"), K, J>>, [R("keys") EXCEPT !.keys = <<K>>]),
     Text(<<W("stats"), W("ops")>>, [R("stats") EXCEPT !.word = "ops"]),
     Text(<<W("stats"), K>>, Bad("stats")),
     Text(<<W("version")>>, R("version")),
     Text(<<J>>, Bad("Unknown")),
     Sample(<<W("version"), LF>>, Request),
     Sample(<<LF>>, Request)}

\* Binary requests.
Bin(op, extras, key, data, r) ==
    Sample(<<Header(TRUE, op, Len(key), 4 * Len(extras), Len(extras \o key \o data), 5)>>
               \o Filler(BINARY_HEADER_SIZE - 1) \o extras \o key \o data,
           [r EXCEPT !.quiet = quiet(op)])
Key(r) == [r EXCEPT !.keys = <<<<K>>>>, !.cas = 5]

BinarySamples ==
    {Bin("SetQ", <<Num(1), Num(1)>>, <<K>>, <<LF>>,
         [Key(R("SetQ")) EXCEPT !.flags = 1, !.exptime = Now + 1, !.data = <<LF>>]),
     Bin("RaU", <<Num(0), Num(0)>>, <<K>>, <<B>>, [Key(R("RaU")) EXCEPT !.data = <<B>>]),
     Bin("Set", <<Num(1), Num(1)>>, <<K>>, <<>>, Key(Bad("Set"))),
     Bin("Add", <<Num(0), Num(0)>>, <<K>>, [i \in 1..(MAX_REQUEST_LENGTH + 1) |-> B],
         [Key(Bad("Add")) EXCEPT !.status = "TooLargeValue"]),
     Bin("GaTQ", <<Num(Max32)>>, <<K>>, <<>>,
         [Key(R("GaTQ")) EXCEPT !.exptime = EXPTIME_NONE]),
     Bin("LaGK", <<>>, <<K>>, <<>>, [Key(R("LaGK")) EXCEPT !.exptime = EXPTIME_NONE]),
     Bin("Get", <<>>, <<K, K, K>>, <<>>, Bad("Get")),
     Bin("Get", <<>>, <<>>, <<>>, [Bad("Get") EXCEPT !.cas = 5]),
     Bin("Touch", <<Num(Max32 - 1)>>, <<K>>, <<>>,
         [Key(R("Touch")) EXCEPT !.exptime = Max32 - 1]),
     Bin("IncrementQ", <<Num(7), Rest, Num(8), Rest, Num(Max32)>>, <<K>>, <<>>,
         [Key(R("IncrementQ")) EXCEPT !.value = 7, !.initial = 8,
                                      !.exptime = EXPTIME_NONE]),
     Bin("Flush", <<>>, <<>>, <<>>, [R("Flush") EXCEPT !.exptime = Now, !.cas = 5]),
     Bin("PrependQ", <<>>, <<K>>, <<CR, LF>>,
         [Key(R("PrependQ")) EXCEPT !.data = <<CR, LF>>]),
     Bin("UnlockQ", <<>>, <<K>>, <<B>>, [Key(Bad("UnlockQ")) EXCEPT !.data = <<B>>]),
     Bin("UnlockAll", <<>>, <<>>, <<>>, [R("UnlockAll") EXCEPT !.cas = 5]),
     Bin("Stat", <<>>, <<W("ops")>>, <<>>,
         [R("Stat") EXCEPT !.keys = <<<<W("ops")>>>>, !.word = "ops", !.cas = 5]),
     Bin("Bogus", <<>>, <<K>>, <<>>,
         [Key(Bad("Unknown")) EXCEPT !.status = "UnknownCommand"])}

\* Requests of the counter protocol.
Cnt(op, body, r) ==
    Sample(<<Header(TRUE, op, 0, 0, Len(body), 0)>> \o Filler(HEADER_SIZE - 1) \o body, r)

CounterSamples ==
    {Cnt("Acquire", <<Num(1), Num(2), Num(1), K>>,
         [R("Acquire") EXCEPT !.keys = <<<<K>>>>, !.value = 1, !.initial = 2]),
     Cnt("Acquire", <<Num(2), Num(1), Num(1), K>>, Bad("Acquire")),
     Cnt("Release", <<Num(1), Num(2), K>>, Bad("Release")),
     Cnt("Release", <<Num(1), Num(1), K, LF>>,
         [R("Release") EXCEPT !.keys = <<<<K>>>>, !.value = 1]),
     Cnt("Get", <<>>, Bad("Get")),
     Cnt("Noop", <<B>>, R("Noop")),
     Cnt("Bogus", <<K>>, [Bad("Unknown") EXCEPT !.status = "UnknownCommand"])}

Plain == Text(<<W("delete"), J>>, [R("delete") EXCEPT !.keys = <<J>>])
Noop == Bin("Noop", <<>>, <<>>, <<>>, [R("Noop") EXCEPT !.cas = 5])
Dump == Cnt("Dump", <<>>, R("Dump"))
Overflow == Text(<<W("incr"), J, Num(Max64 + 1)>>, Bad("incr"))

\* Updates of the master.
Obj(data, exp) == [data |-> data, flags |-> 1, exptime |-> exp]
Objects == {Obj(<<B>>, 0), Obj(<<LF, B>>, Max32 - 1), Obj(<<>>, 5), Obj(<<B>>, Max32 + 1),
            Obj([i \in 1..(MAX_REQUEST_LENGTH + 1) |-> B], 0)}
Put(k, o) == [wire |-> repl_object(k, o), means |-> [op |-> "set", key |-> k, obj |-> o]]
Touch(k, o) == [wire |-> repl_touch(k, o), means |-> [op |-> "touch", key |-> k, obj |-> o]]
Del(k) == [wire |-> repl_delete(k), means |-> [op |-> "delete", key |-> k]]
Updates ==
    {<<Put(<<K>>, o), Put(<<J>>, Obj(<<B>>, 0))>> : o \in Objects} \cup
    {<<Put(<<K>>, o), Touch(<<K>>, [o EXCEPT !.exptime = 5]), Put(<<J, J>>, o)>>
         : o \in Objects} \cup
    {<<Put(<<K>>, o), Del(<<K>>), Del(<<J>>)>> : o \in Objects}

Script(a, b, u) == [conn |-> [x \in MCConns |-> IF x = m THEN a ELSE b], repl |-> u]
MCScripts ==
    {Script(<<s, Noop>>, <<Dump>>, <<>>) : s \in TextSamples}
    \cup {Script(<<s, Plain>>, <<Dump>>, <<>>) : s \in BinarySamples}
    \cup {Script(<<Overflow, s>>, <<>>, <<>>) : s \in TextSamples}
    \cup {Script(<<Plain>>, <<s, Dump>>, <<>>) : s \in CounterSamples}
    \cup {Script(<<>>, <<>>, u) : u \in Updates}
=============================================================================
