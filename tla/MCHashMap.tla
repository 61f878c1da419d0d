------------------------------ MODULE MCHashMap ------------------------------
(* Two keys share a bucket and one has its own.  Digits are 0 and 1.         *)
EXTENDS HashMap

CONSTANTS k1, k2, k3

MCHash == (k1 :> 0) @@ (k2 :> 2) @@ (k3 :> 1)

MCPayloads == {<<0>>, <<1>>, <<1, Space>>, <<Minus, 1>>, <<0, 1, 1>>}

MCDeltas == {0, 1, 3}

MCCalls ==
    {Op("set", k1, d, 0) : d \in MCPayloads \ {<<0>>, <<1>>}}
    \cup {Op("append", k1, <<1>>, 0), Op("prepend", k1, <<0>>, 0)}
    \cup {Op("add", k3, <<1>>, 0), Op("replace", k2, <<0, 1, 1>>, 0)}
    \cup {Op("incr", k1, <<>>, 3), Op("decr", k1, <<>>, 1), Op("incr_or", k2, <<>>, 3)}
    \cup {Op("remove_if", k, <<>>, 0) : k \in Keys}

Symmetry == Permutations(Threads) \cup Permutations(Addresses)

\* nearest_prime yields the first prime that is not smaller, and 1 for 0 and 1.
Prime(n) == n > 1 /\ \A d \in 2..(n - 1) : n % d # 0

ASSUME NearestPrimeIsPrime ==
    /\ nearest_prime(0) = 1 /\ nearest_prime(1) = 1
    /\ \A n \in 2..130 :
         /\ Prime(nearest_prime(n))
         /\ \A i \in n..(nearest_prime(n) - 1) : ~ Prime(i)

\* std::stoull reads what snprintf has written, which has no leading zeros.
ASSUME NumeralsAreRead ==
    \A n \in 0..(2^Width - 1) :
        to_uint64(s_value(n)) = n /\ (n > 0 => s_value(n)[1] # 0)
=============================================================================
