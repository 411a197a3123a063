------------------------------ MODULE MCIndexing ------------------------------
(***************************************************************************)
(* A tree with a circle of links and with a hidden directory that has a    *)
(* second name, a link.  The names have capitals, several tokens, tokens   *)
(* that begin others and tokens that are cut off at two bytes.             *)
(***************************************************************************)
EXTENDS Indexing, TLC

MCContents == ("root" :> {"d", "f", "h"}) @@ ("d" :> {"up", "l"}) @@ ("h" :> {"k"})
MCTarget == ("l" :> "h") @@ ("up" :> "root")

A == 97
B == 98
C == 99
Dot == 46
CapitalA == 65

\* Ab and aB side by side, b.a, a, .ab, abc-a
MCName ==
    ("root" :> <<A>>) @@ ("d" :> <<CapitalA, B>>) @@ ("up" :> <<B, Dot, A>>) @@ ("l" :> <<A>>)
    @@ ("h" :> <<Dot, A, B>>) @@ ("k" :> <<A, B, C, 45, A>>) @@ ("f" :> <<A, 66>>)

\* Tokens, prefixes, several tokens, substrings, separators only, too long.
MCQueries ==
    {<<A>>, <<A, B>>, <<B>>, <<C>>, <<32, CapitalA, 32>>, <<A, 32, B>>, <<B, C>>, <<B, Dot>>, <<Dot>>,
     <<A, B, C>>, <<C, 45>>, <<A, 47>>, <<A, B, 47, B, Dot, A>>}

MCLimits == {1, 3}
=============================================================================
