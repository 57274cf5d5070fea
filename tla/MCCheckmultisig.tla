-------------------------- MODULE MCCheckmultisig --------------------------
(***************************************************************************)
(* Every stack of at most four items over two keys' signatures, an item    *)
(* that verifies under two keys (two encodings of one point), an item that *)
(* verifies under none, one that does not parse and the empty one, against *)
(* every key list of at most four keys, repeated keys included.            *)
(***************************************************************************)
EXTENDS Checkmultisig

CONSTANTS a, b, ab, bad, junk, nil, A, B

MCKey == {A, B}
MCItem == {a, b, ab, bad, junk, nil}
MCWellFormed == {a, b, ab, bad}
MCVerifies == [x \in MCKey |-> IF x = A THEN {a, ab} ELSE {b, ab}]

UpTo(S, lo, hi) == UNION { [1 .. n -> S] : n \in lo .. hi }

MCStacks == UpTo(MCItem, 0, 4)
MCKeyLists == UpTo(MCKey, 1, 4)
=============================================================================
