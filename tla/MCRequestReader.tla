-------------------------- MODULE MCRequestReader --------------------------
(* Instances of RequestReader for TLC. *)
EXTENDS RequestReader

\* The usual request, a POST with a body of two bytes, a query with line
\* feeds only and the method in lower case, an unknown method with carriage
\* returns only, one that never ends.
MCRequests ==
    { <<"GET", "/f", CR, LF, "Host", CR, LF, CR, LF>>,
      <<"POST", "/f", CR, LF, ContentLengthHeader, CR, LF, CR, LF, "b", "b">>,
      <<"get", "/f", "?", "a", "?", LF, "Host", LF, CR, "b">>,
      <<"PUT", "/f", CR, "Host", CR, CR, "b", LF, LF>>,
      <<"GET", "/f", LF, "Host", CR, "Accept">> }

\* Also a request whose first line is blank, and every way to put up to five
\* words, carriage returns and line feeds in a row.
MCMessages ==
    MCRequests \cup { <<CR, LF, "Host", LF, LF>> }
               \cup UNION {[1..n -> {"GET", CR, LF}] : n \in 0..5}
=============================================================================
