------------------------------ MODULE KeyValue ------------------------------
(***************************************************************************)
(* What the hash of memcache objects promises to the commands: a map from  *)
(* keys to data on which every call takes effect at once, some time        *)
(* between its beginning and its end, and does what its name says.         *)
(***************************************************************************)
EXTENDS Integers, Sequences

CONSTANTS
    Threads,
    Calls,             \* what threads call: records of a name, a key, data and n
    NoCall,
    to_uint64(_),      \* the number that data begin with, or NaN
    s_value(_),        \* the numeral of a number
    NaN,
    Width,             \* bits of a number
    heap_data_limit    \* longer data are not taken for numbers

VARIABLES
    map,    \* the data of the keys that are present
    call    \* call[t]: what thread t has called and has not yet had done

Init == map = <<>> /\ call = [t \in Threads |-> NoCall]

IsNumber(d) == Len(d) <= heap_data_limit /\ to_uint64(d) # NaN

\* Addition wraps around, subtraction stops at zero.
Modified(o, d) ==
    CASE o.name \in {"set", "replace"} -> o.data
      [] o.name = "append" -> d \o o.data
      [] o.name = "prepend" -> o.data \o d
      [] o.name \in {"incr", "incr_or"} /\ IsNumber(d) ->
           s_value((to_uint64(d) + o.n) % 2^Width)
      [] o.name \in {"decr", "decr_or"} /\ IsNumber(d) ->
           s_value(IF to_uint64(d) < o.n THEN 0 ELSE to_uint64(d) - o.n)
      [] OTHER -> d

Creates(o) == o.name \in {"set", "add", "incr_or", "decr_or"}
Initial(o) == IF o.name \in {"set", "add"} THEN o.data ELSE s_value(o.n)

Scans(t) == call[t].name \in {"foreach", "gc"}

With(k, d) == [j \in DOMAIN map \cup {k} |-> IF j = k THEN d ELSE map[j]]
Without(k) == [j \in DOMAIN map \ {k} |-> map[j]]

Begin(t, o) == call[t] = NoCall /\ call' = [call EXCEPT ![t] = o] /\ UNCHANGED map

Return(t) == call[t] # NoCall /\ call' = [call EXCEPT ![t] = NoCall]

Found(t) ==
    /\ call[t].key \in DOMAIN map
    /\ \/ map' = [map EXCEPT ![call[t].key] = Modified(call[t], @)]
       \/ call[t].name = "remove_if" /\ map' = Without(call[t].key)
    /\ Return(t)

NotFound(t) ==
    /\ ~ Scans(t) /\ call[t].key \notin DOMAIN map
    /\ map' = IF Creates(call[t]) THEN With(call[t].key, Initial(call[t])) ELSE map
    /\ Return(t)

\* gc drops objects one at a time.
Collect(t) ==
    /\ call[t].name = "gc"
    /\ \E k \in DOMAIN map : map' = Without(k)
    /\ UNCHANGED call

EndScan(t) == Scans(t) /\ Return(t) /\ UNCHANGED map

Clear == (\A t \in Threads : call[t] = NoCall) /\ map' = <<>> /\ UNCHANGED call

Next ==
    \/ \E t \in Threads : \/ \E o \in Calls : Begin(t, o)
                          \/ Found(t) \/ NotFound(t) \/ Collect(t) \/ EndScan(t)
    \/ Clear

Spec == Init /\ [][Next]_<<map, call>>
=============================================================================
