-------------------------------- MODULE MCCgi --------------------------------
(* Instances of Cgi for TLC. *)
EXTENDS Cgi

CONSTANTS w1, w2, w3

\* Three requests for different resources.
MCPrograms == (w1 :> {"plain"}) @@ (w2 :> {"other"}) @@ (w3 :> {"plain", "filter"})

MCMethods == (w1 :> {"POST"}) @@ (w2 :> {"GET"}) @@ (w3 :> {"GET"})

\* One request for a program.
MCProgram == w1 :> {"plain"}
MCMethod == w1 :> {"GET", "POST"}
=============================================================================
