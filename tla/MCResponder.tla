----------------------------- MODULE MCResponder -----------------------------
(* Instances of Responder for TLC. *)
EXTENDS Responder

\* wwwroot as shipped, and with a page for every error.
ShippedPages == {PAGE_404}
AllPages == {PAGE_400, PAGE_404, PAGE_500}
=============================================================================
