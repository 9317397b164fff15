------------------------------ MODULE MCLogger ------------------------------
(* Instances of Logger for TLC. *)
EXTENDS Logger

\* A letter that is a name (twice it is none), the characters the parser looks
\* for and a blank.
Chars == {"%", "{", "}", "m", " "}
MCPattern == UNION {[1..n -> Chars] : n \in 0..4}
MCAgain == {<<" ">>, <<"%", "m", "{">>}
MCDefault == <<"%", "m">>
MCKnown == {<<"m">>}
=============================================================================
