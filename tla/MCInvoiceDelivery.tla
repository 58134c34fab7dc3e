-------------------------- MODULE MCInvoiceDelivery --------------------------
(* Two customer attempts of two concurrent requests, or a customer attempt  *)
(* and an SMTP test of one request at a time.                               *)
EXTENDS InvoiceDelivery, TLC

CONSTANTS r1, r2, c1, c2
MCRequest == {r1, r2}
MCAttempt == {c1, c2}
Symmetric == Permutations({r1, r2}) \cup Permutations({c1, c2})
=============================================================================
